--------------------------- MODULE Archive_proofs ---------------------------
(***************************************************************************)
(* Durability of Archive for any number of snapshots, savers, loaders,     *)
(* crashes and damages, in a directory whose own entry is durable          *)
(* (EstablishedHome); what happens otherwise is the run archive_fresh.     *)
(*                                                                         *)
(* AckedDurable is not inductive: a power failure falls back on the disk's *)
(* directory and on the bytes that were synced, so DiskInv follows both,   *)
(* and ProtocolInv ties each saver's step to what it has achieved.         *)
(***************************************************************************)
EXTENDS Archive, TLAPS

EstablishedHome == Homes = {"durable"}

\* What a saver has done by the time it is at a step.
ProtocolInv ==
    \A p \in Savers :
      /\ pc[p] = "syncdir" => vis[snap[p]] \in {"good", "rotten"}

\* What each entry of the directory rests on.
DiskInv ==
    /\ home = "durable"
    /\ \A s \in Snapshots :
         /\ vis[s] # "torn"
         /\ vis[s] = "good" => s \in safe
         /\ stable[s] = "good" => vis[s] = "good"
         /\ stable[s] # "torn"
    /\ \A s \in acked : vis[s] = "good" /\ stable[s] = "good"

\* What a loader that is owed its snapshot has open, and may not have answered.
OwedInv ==
    \A q \in Loaders : owed[q] =>
        /\ lpc[q] = "read" => bytes[q] = "good"
        /\ answer[q] \notin {"missing", "damaged"}

ArchiveInv == TypeOK /\ ProtocolInv /\ DiskInv /\ OwedInv

-----------------------------------------------------------------------------
\* The initial states satisfy the invariant.
LEMMA ArchiveInit == ASSUME EstablishedHome, Init PROVE ArchiveInv
<1>1. Any \in Snapshots  BY ArchiveAssumption DEF Any
<1>2. TypeOK  BY <1>1 DEF Init, TypeOK, Content, EstablishedHome
<1>3. ProtocolInv  BY DEF Init, ProtocolInv
<1>4. DiskInv  BY DEF Init, DiskInv, EstablishedHome
<1>5. OwedInv  BY DEF Init, OwedInv
<1> QED  BY <1>2, <1>3, <1>4, <1>5 DEF ArchiveInv

\* Each step of a saver keeps the invariant.
LEMMA SaverKeeps ==
    ASSUME ArchiveInv, NEW p \in Savers, SaveStep(p)
    PROVE  ArchiveInv'
<1> USE DEF ArchiveInv, disk, saving, loading
<1>0. OwedInv'
  BY DEF SaveStep, Create, Write, Sync, Rename, SyncDir, Break, CleanUp, OwedInv
<1>1. CASE \E s \in Snapshots : Create(p, s)
  <2> PICK s \in Snapshots : Create(p, s)  BY <1>1
  <2>1. TypeOK'  BY DEF Create, Step, TypeOK
  <2>2. ProtocolInv'  BY DEF Create, Step, TypeOK, ProtocolInv
  <2>3. DiskInv'  BY DEF Create, DiskInv
  <2> QED  BY <1>0, <2>1, <2>2, <2>3
<1>2. CASE Write(p)
  <2>1. TypeOK'  BY <1>2 DEF Write, Step, TypeOK
  <2>2. ProtocolInv'  BY <1>2 DEF Write, Step, TypeOK, ProtocolInv
  <2>3. DiskInv'  BY <1>2 DEF Write, DiskInv
  <2> QED  BY <1>0, <2>1, <2>2, <2>3
<1>3. CASE Sync(p)
  <2>1. TypeOK'  BY <1>3 DEF Sync, Step, TypeOK
  <2>2. ProtocolInv'  BY <1>3 DEF Sync, Step, TypeOK, ProtocolInv
  <2>3. DiskInv'  BY <1>3 DEF Sync, DiskInv
  <2> QED  BY <1>0, <2>1, <2>2, <2>3
<1>4. CASE Rename(p)
  <2> DEFINE s == snap[p]
  <2>1. tmp[p] = "synced"  BY <1>4 DEF Rename, Step, TypeOK
  <2>2. s \in Snapshots  BY DEF TypeOK
  <2>3. vis' = [vis EXCEPT ![s] = "good"] /\ safe' = safe \cup {s}
    BY <1>4, <2>1 DEF Rename
  <2>4. TypeOK'  BY <1>4, <2>2, <2>3 DEF Rename, Step, TypeOK, Content
  <2>5. ProtocolInv'
    BY <1>4, <2>2, <2>3 DEF Rename, Step, TypeOK, ProtocolInv
  <2>6. DiskInv'
    BY <1>4, <2>2, <2>3, SMTT(30) DEF Rename, TypeOK, DiskInv
  <2> QED  BY <1>0, <2>4, <2>5, <2>6
<1>5. CASE SyncDir(p)
  <2>1. snap[p] \in Snapshots /\ vis[snap[p]] \in {"good", "rotten"}
    BY <1>5 DEF SyncDir, Step, TypeOK, ProtocolInv
  <2>2. TypeOK'  BY <1>5, <2>1 DEF SyncDir, Step, TypeOK
  <2>3. ProtocolInv'  BY <1>5 DEF SyncDir, Step, TypeOK, ProtocolInv
  <2>4. DiskInv'  BY <1>5, <2>1 DEF SyncDir, DiskInv, TypeOK
  <2> QED  BY <1>0, <2>2, <2>3, <2>4
<1>6. CASE Break(p)
  <2>1. TypeOK'  BY <1>6 DEF Break, TypeOK
  <2>2. ProtocolInv'  BY <1>6 DEF Break, TypeOK, ProtocolInv
  <2>3. DiskInv'  BY <1>6 DEF Break, DiskInv
  <2> QED  BY <1>0, <2>1, <2>2, <2>3
<1>7. CASE CleanUp(p)
  <2>1. TypeOK'  BY <1>7 DEF CleanUp, Step, TypeOK
  <2>2. ProtocolInv'  BY <1>7 DEF CleanUp, Step, TypeOK, ProtocolInv
  <2>3. DiskInv'  BY <1>7 DEF CleanUp, DiskInv
  <2> QED  BY <1>0, <2>1, <2>2, <2>3
<1> QED  BY <1>1, <1>2, <1>3, <1>4, <1>5, <1>6, <1>7 DEF SaveStep

\* What a loader that is owed its snapshot opens is good, and stays so.
LEMMA LoaderKeeps ==
    ASSUME ArchiveInv, NEW q \in Loaders, LoadStep(q)
    PROVE  ArchiveInv'
<1> USE DEF ArchiveInv, disk, saving, loading
<1>1. CASE \E s \in Snapshots : Open(q, s)
  <2> PICK s \in Snapshots : Open(q, s)  BY <1>1
  <2> USE DEF Open, Replies
  <2>1. TypeOK'  BY DEF TypeOK
  <2>2. ProtocolInv' /\ DiskInv'  BY DEF ProtocolInv, DiskInv
  <2>3. owed[q]' => vis[s] = "good"  BY DEF TypeOK, DiskInv
  <2>4. OwedInv'  BY <2>3 DEF OwedInv, TypeOK
  <2> QED  BY <2>1, <2>2, <2>4
<1>2. CASE Verify(q)
  <2> USE <1>2 DEF Verify, Replies
  <2>1. TypeOK'  BY DEF TypeOK, Content
  <2>2. ProtocolInv' /\ DiskInv'  BY DEF ProtocolInv, DiskInv
  <2>3. OwedInv'  BY DEF OwedInv, TypeOK
  <2> QED  BY <2>1, <2>2, <2>3
<1> QED  BY <1>1, <1>2 DEF LoadStep

\* After a power failure the directory is what the disk had or what the
\* processes saw, entry by entry.
LEMMA AfterPowerLoss ==
    ASSUME ArchiveInv, PowerLoss
    PROVE  /\ vis' \in [Snapshots -> Content] /\ stable' = vis'
           /\ \A s \in Snapshots : vis'[s] \in {vis[s], stable[s]}
           /\ home' = "durable" /\ safe' = safe /\ acked' = acked
<1> USE DEF ArchiveInv, DiskInv, TypeOK
<1>1. /\ home' = "durable" /\ stable' = vis' /\ safe' = safe
      /\ acked' = acked
  BY DEF PowerLoss, Abandon
<1>2. PICK lost \in SUBSET Snapshots :
        vis' = [s \in Snapshots |->
                  IF s \in lost THEN stable[s]
                  ELSE IF vis[s] = "good" /\ s \notin safe THEN "torn"
                  ELSE vis[s]]
  BY DEF PowerLoss
<1>3. \A s \in Snapshots : vis'[s] \in {vis[s], stable[s]}  BY <1>2
<1>4. vis' \in [Snapshots -> Content]  BY <1>2
<1> QED  BY <1>1, <1>3, <1>4

\* Crashes and damage keep the invariant.
LEMMA EnvironmentKeeps ==
    ASSUME ArchiveInv,
           Kill \/ PowerLoss \/ \E s \in Snapshots : Damage(s)
    PROVE  ArchiveInv'
<1> USE DEF ArchiveInv, disk, saving, loading
<1>1. CASE Kill
  <2>1. TypeOK'  BY <1>1 DEF Kill, Abandon, TypeOK, Content
  <2>2. ProtocolInv'  BY <1>1 DEF Kill, Abandon, ProtocolInv
  <2>3. DiskInv'  BY <1>1 DEF Kill, Abandon, DiskInv
  <2>4. OwedInv'  BY <1>1 DEF Kill, Abandon, OwedInv
  <2> QED  BY <2>1, <2>2, <2>3, <2>4
<1>2. CASE PowerLoss
  <2>1. TypeOK'
    BY <1>2, AfterPowerLoss DEF PowerLoss, Abandon, TypeOK, Content
  <2>2. ProtocolInv'  BY <1>2 DEF PowerLoss, Abandon, ProtocolInv
  <2>3. DiskInv'
    BY <1>2, AfterPowerLoss DEF DiskInv, TypeOK
  <2>4. OwedInv'  BY <1>2 DEF PowerLoss, Abandon, OwedInv
  <2> QED  BY <2>1, <2>2, <2>3, <2>4
<1>3. ASSUME NEW s \in Snapshots, Damage(s) PROVE ArchiveInv'
  <2>1. TypeOK'  BY <1>3 DEF Damage, TypeOK, Content
  <2>2. ProtocolInv'  BY <1>3 DEF Damage, TypeOK, ProtocolInv
  <2>3. DiskInv'  BY <1>3 DEF Damage, TypeOK, DiskInv
  <2>4. OwedInv'
    <3>1. PICK hit \in SUBSET {q \in Loaders : lpc[q] = "read" /\ lsnap[q] = s} :
            bytes' = [q \in Loaders |-> IF q \in hit THEN "rotten" ELSE bytes[q]]
      BY <1>3 DEF Damage
    <3> QED  BY <1>3, <3>1 DEF Damage, OwedInv
  <2> QED  BY <2>1, <2>2, <2>3, <2>4
<1> QED  BY <1>1, <1>2, <1>3

\* The invariant is inductive.
LEMMA ArchiveInductive == ArchiveInv /\ [Next]_vars => ArchiveInv'
<1> SUFFICES ASSUME ArchiveInv, [Next]_vars PROVE ArchiveInv'  OBVIOUS
<1>1. CASE UNCHANGED vars
  BY <1>1 DEF vars, disk, saving, loading,
              ArchiveInv, TypeOK, ProtocolInv, DiskInv, OwedInv
<1>2. CASE Next
  BY <1>2, SaverKeeps, LoaderKeeps, EnvironmentKeeps DEF Next
<1> QED  BY <1>1, <1>2

-----------------------------------------------------------------------------
(***************************************************************************)
(* Type correctness.                                                       *)
(***************************************************************************)
THEOREM ArchiveTypes == ASSUME EstablishedHome PROVE Spec => []TypeOK
<1>1. Init => ArchiveInv  BY ArchiveInit
<1>2. ArchiveInv => TypeOK  BY DEF ArchiveInv
<1> QED  BY <1>1, <1>2, ArchiveInductive, PTL DEF Spec

(***************************************************************************)
(* An acknowledged snapshot is readable, whatever crashes and in whatever  *)
(* order any number of concurrent Save calls took their steps.             *)
(***************************************************************************)
THEOREM Durability == ASSUME EstablishedHome PROVE Spec => []AckedDurable
<1>1. Init => ArchiveInv  BY ArchiveInit
<1>2. ArchiveInv => AckedDurable  BY DEF ArchiveInv, DiskInv, AckedDurable
<1> QED  BY <1>1, <1>2, ArchiveInductive, PTL DEF Spec

(***************************************************************************)
(* No incomplete file ever carries a snapshot's name (store.go:21).        *)
(***************************************************************************)
THEOREM Completeness == ASSUME EstablishedHome PROVE Spec => []ReadersSeeComplete
<1>1. Init => ArchiveInv  BY ArchiveInit
<1>2. ArchiveInv => ReadersSeeComplete
  BY DEF ArchiveInv, DiskInv, ReadersSeeComplete
<1> QED  BY <1>1, <1>2, ArchiveInductive, PTL DEF Spec

(***************************************************************************)
(* No Load that begins after the acknowledgement calls the snapshot        *)
(* missing or damaged, whatever other savers, crashes and loaders do       *)
(* meanwhile, unless the medium damages it (store.go:86-96).               *)
(***************************************************************************)
THEOREM LoadsNeverDeny == ASSUME EstablishedHome PROVE Spec => []NeverDenied
<1>1. Init => ArchiveInv  BY ArchiveInit
<1>2. ArchiveInv => NeverDenied  BY DEF ArchiveInv, OwedInv, NeverDenied
<1> QED  BY <1>1, <1>2, ArchiveInductive, PTL DEF Spec

(***************************************************************************)
(* The file protocol implements the promise stated in Vault: every step is *)
(* one of the vault's or changes nothing it sees.                          *)
(***************************************************************************)
THEOREM ArchiveImplementsVault ==
    ASSUME EstablishedHome PROVE Spec => ImplementsVault
<1> DEFINE present == {s \in Snapshots : vis[s] = "good"}
<1>1. Init => ArchiveInv  BY ArchiveInit
<1>2. Init => V!Init  BY DEF Init, V!Init
<1>3. ASSUME ArchiveInv, [Next]_vars PROVE [V!Next]_(V!vars)
  <2> USE <1>3 DEF ArchiveInv, disk, saving, loading
  <2>1. CASE present' = present /\ acked' = acked
    BY <2>1 DEF V!vars
  <2>2. ASSUME NEW p \in Savers, Rename(p) PROVE V!Next
    <3>1. snap[p] \in Snapshots /\ tmp[p] = "synced"
      BY <2>2 DEF Rename, Step, TypeOK, ProtocolInv
    <3>2. vis' = [vis EXCEPT ![snap[p]] = "good"] /\ acked' = acked
      BY <2>2, <3>1 DEF Rename
    <3>3. present' = present \cup {snap[p]}
      BY <3>1, <3>2 DEF TypeOK
    <3>4. V!Appear(snap[p])  BY <3>2, <3>3 DEF V!Appear
    <3> QED  BY <3>1, <3>4 DEF V!Next, V!Appear
  <2>3. ASSUME NEW p \in Savers, SyncDir(p) PROVE [V!Next]_(V!vars)
    <3>1. snap[p] \in Snapshots /\ vis[snap[p]] \in {"good", "rotten"}
      BY <2>3 DEF SyncDir, Step, TypeOK, ProtocolInv
    <3>2. present' = present  BY <2>3 DEF SyncDir
    <3>3. CASE vis[snap[p]] = "rotten"
      BY <2>1, <2>3, <3>2, <3>3 DEF SyncDir
    <3>4. CASE vis[snap[p]] = "good"
      <4>1. V!Acknowledge(snap[p])
        BY <2>3, <3>1, <3>2, <3>4 DEF SyncDir, V!Acknowledge
      <4> QED  BY <3>1, <4>1 DEF V!Next
    <3> QED  BY <3>1, <3>3, <3>4
  <2>4. CASE PowerLoss
    <3> DEFINE S == present \ present'
    <3>1. present' = present \ S
      BY <2>4, AfterPowerLoss DEF DiskInv
    <3>2. S \cap acked = {}
      BY <2>4, AfterPowerLoss DEF DiskInv, TypeOK
    <3>3. acked' = acked  BY <2>4, AfterPowerLoss
    <3>4. V!Lose(S)  BY <3>1, <3>2, <3>3 DEF V!Lose
    <3>5. S \in SUBSET Snapshots  OBVIOUS
    <3> QED  BY <3>4, <3>5 DEF V!Next, V!Lose
  <2>5. ASSUME NEW s \in Snapshots, Damage(s) PROVE V!Next
    <3>1. present' = present \ {s}  BY <2>5 DEF Damage, TypeOK
    <3>2. V!Rot(s)  BY <2>5, <3>1 DEF Damage, V!Rot
    <3> QED  BY <3>2 DEF V!Next
  <2>6. CASE UNCHANGED vars
    <3>1. present' = present /\ acked' = acked  BY <2>6 DEF vars
    <3> QED  BY <2>1, <3>1
  <2>7. ASSUME NEW p \in Savers, SaveStep(p) PROVE [V!Next]_(V!vars)
    <3>1. CASE \/ \E s \in Snapshots : Create(p, s)
               \/ Write(p) \/ Sync(p) \/ Break(p) \/ CleanUp(p)
      <4>1. vis' = vis /\ acked' = acked
        BY <3>1 DEF Create, Write, Sync, Break, CleanUp
      <4> QED  BY <2>1, <4>1
    <3> QED  BY <2>2, <2>3, <2>7, <3>1 DEF SaveStep
  <2>8. ASSUME NEW q \in Loaders, LoadStep(q) PROVE [V!Next]_(V!vars)
    <3>1. vis' = vis /\ acked' = acked  BY <2>8 DEF LoadStep, Open, Verify
    <3> QED  BY <2>1, <3>1
  <2>9. CASE Kill
    <3>1. vis' = vis /\ acked' = acked  BY <2>9 DEF Kill, Abandon
    <3> QED  BY <2>1, <3>1
  <2> QED  BY <2>4, <2>5, <2>6, <2>7, <2>8, <2>9 DEF Next
<1> QED
  BY <1>1, <1>2, <1>3, ArchiveInductive, PTL DEF Spec, ImplementsVault, V!Spec

=============================================================================
