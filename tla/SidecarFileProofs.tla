------------------------- MODULE SidecarFileProofs -------------------------
(***************************************************************************)
(* For any number of saves, kills, crashes of the machine and failing      *)
(* system calls: the sidecar is an atomically replaced file.  The argument *)
(* is that a file which has the sidecar's name, in memory or on the disk,  *)
(* was synced before it got it, and is never written again.                *)
(***************************************************************************)
EXTENDS SidecarFile, TLAPS

LEMMA InitInv == Init => IInv
  <1> SUFFICES ASSUME Init PROVE IInv
    OBVIOUS
  <1>1. 0 \in 0 .. MaxSaves /\ 0 \in 0 .. MaxCrashes /\ 0 \in 0 .. MaxErrors
    BY SidecarAssumption
  <1>2. [k \in Ids |-> {}] \in [Ids -> SUBSET Pieces]
    OBVIOUS
  <1>3. TypeOK
    <2>1. 0 \in 0 .. 0 /\ {} \subseteq 1 .. 0
      OBVIOUS
    <2>2. claims \in [Ids -> SUBSET Pieces]
      BY <1>2 DEF Init
    <2>3. TypeOK
      BY <1>1, <2>1, <2>2 DEF Init, TypeOK, NoFile
    <2> QED BY <2>3
  <1>4. pc = "loop" /\ side = 0 /\ sideDisk = 0 /\ acked = 0
    BY DEF Init, NoFile
  <1>5. Sound /\ SaveSurvives /\ OrphanHarmless
    BY <1>4 DEF NoFile, Sound, SaveSurvives, OrphanHarmless
  <1> QED BY <1>3, <1>5 DEF IInv

Flags == last \in BOOLEAN /\ stuck \in BOOLEAN /\ lost \in BOOLEAN

LEMMA FlagsInv == Flags /\ [Next]_vars => Flags'
  <1> SUFFICES ASSUME Flags, [Next]_vars PROVE Flags'
    OBVIOUS
  <1> USE Zenon DEF Flags, bounds, Go, Saved
  <1>1. ASSUME NEW final \in BOOLEAN, StartSave(final) PROVE Flags'
    BY <1>1 DEF StartSave
  <1>2. CASE SaveStep
    <2>1. lost' = lost
      BY <1>2 DEF SaveStep, RemoveTmp, Create, CreateFails, Write, Sync, WriteFails, Rename,
                  RenameFails, SyncDir, SyncDirFails, Rest
    <2>2. last' = last \/ last' = FALSE
      BY <1>2 DEF SaveStep, RemoveTmp, Create, CreateFails, Write, Sync, WriteFails, Rename,
                  RenameFails, SyncDir, SyncDirFails
    <2>3. stuck' = stuck \/ stuck' \in {TRUE, FALSE}
      BY <1>2 DEF SaveStep, RemoveTmp, Create, CreateFails, Write, Sync, WriteFails, Rename,
                  RenameFails, SyncDir, SyncDirFails
    <2> QED BY <2>1, <2>2, <2>3
  <1>3. ASSUME NEW p \in Pieces, Fetch(p) \/ Record(p) PROVE Flags'
    BY <1>3 DEF Fetch, Record
  <1>4. CASE CloseFile \/ Complete \/ SyncFile \/ ClearResume \/ Restart \/ Commit
    BY <1>4 DEF CloseFile, Complete, SyncFile, ClearResume, Restart, Commit
  <1>5. CASE Kill \/ PowerLoss
    BY <1>5 DEF Kill, PowerLoss
  <1>6. CASE UNCHANGED vars
    BY <1>6 DEF vars
  <1> QED BY <1>1, <1>2, <1>3, <1>4, <1>5, <1>6 DEF Next

\* The steps of a save keep the invariant.
LEMMA SaveInv == IInv /\ SaveStep => IInv'
  <1> SUFFICES ASSUME IInv, SaveStep PROVE IInv'
    OBVIOUS
  <1>f. last' \in BOOLEAN /\ stuck' \in BOOLEAN /\ lost' \in BOOLEAN
    BY FlagsInv DEF Next, IInv, TypeOK, Flags
  <1> USE SidecarAssumption DEF IInv, TypeOK, Sound, SaveSurvives, OrphanHarmless, NoFile, Ids, Rest, Works, Fails, Saved, Go,
                                contents, entries, output, progress
  <1>1. CASE RemoveTmp
    <2>1. tmp' \in 0 .. made /\ pc' = "create"
      BY <1>f, <1>1 DEF RemoveTmp
    <2>2. errors' \in 0 .. MaxErrors /\ stuck' \in BOOLEAN
      <3>1. CASE Works
        BY <1>f, <1>1, <3>1 DEF RemoveTmp
      <3>2. CASE Fails
        BY <1>f, <1>1, <3>2 DEF RemoveTmp
      <3> QED BY <1>f, <1>1, <3>1, <3>2 DEF RemoveTmp
    <2> QED BY <1>f, <1>1, <2>1, <2>2 DEF RemoveTmp
  <1>2. CASE Create
    <2>0. made \in Nat /\ made < MaxSaves /\ made' = made + 1
      BY <1>f, <1>2 DEF Create
    <2>1. made' \in 0 .. MaxSaves /\ 1 .. made \subseteq 1 .. made' /\ 0 .. made \subseteq 0 .. made'
      BY <2>0
    <2>2. TypeOK'
      <3>1. side' \in 0 .. made' /\ sideDisk' \in 0 .. made' /\ tmp' \in 0 .. made' /\ tmpDisk' \in 0 .. made'
        BY <1>f, <1>2, <2>0, <2>1 DEF Create
      <3>2. acked' \in 0 .. made' /\ whole' \subseteq 1 .. made'
        BY <1>f, <1>2, <2>0, <2>1 DEF Create
      <3> QED BY <1>f, <1>2, <2>1, <3>1, <3>2 DEF Create
    <2>3. tmp' = made' /\ tmp' # 0 /\ pc' = "write"
      BY <1>f, <1>2, <2>0 DEF Create
    <2>4. UNCHANGED <<side, sideDisk, synced, whole, acked>>
      BY <1>f, <1>2 DEF Create
    <2>5. Sound' /\ SaveSurvives' /\ OrphanHarmless'
      BY <2>3, <2>4
    <2> QED BY <2>2, <2>5
  <1>3. CASE CreateFails
    <2>1. CASE Works
      BY <1>f, <1>3, <2>1 DEF CreateFails
    <2>2. CASE Fails
      BY <1>f, <1>3, <2>2 DEF CreateFails
    <2> QED BY <1>f, <1>3, <2>1, <2>2 DEF CreateFails
  <1>4. CASE Write
    BY <1>f, <1>4 DEF Write
  <1>5. CASE Sync
    BY <1>f, <1>5 DEF Sync
  <1>6. CASE WriteFails
    BY <1>f, <1>6 DEF WriteFails
  <1>7. CASE Rename
    BY <1>f, <1>7 DEF Rename
  <1>8. CASE RenameFails
    BY <1>f, <1>8 DEF RenameFails
  <1>9. CASE SyncDir
    BY <1>f, <1>9 DEF SyncDir
  <1>10. CASE SyncDirFails
    <2>1. CASE Works
      BY <1>f, <1>10, <2>1 DEF SyncDirFails
    <2>2. CASE Fails
      BY <1>f, <1>10, <2>2 DEF SyncDirFails
    <2> QED BY <1>f, <1>10, <2>1, <2>2 DEF SyncDirFails
  <1> QED BY <1>f, <1>1, <1>2, <1>3, <1>4, <1>5, <1>6, <1>7, <1>8, <1>9, <1>10 DEF SaveStep

LEMMA NextInv == IInv /\ [Next]_vars => IInv'
  <1> SUFFICES ASSUME IInv, [Next]_vars PROVE IInv'
    OBVIOUS
  <1>f. last' \in BOOLEAN /\ stuck' \in BOOLEAN /\ lost' \in BOOLEAN
    BY FlagsInv DEF IInv, TypeOK, Flags
  <1> USE SidecarAssumption DEF IInv, TypeOK, Sound, SaveSurvives, OrphanHarmless, NoFile, Ids, contents, entries, output, progress, bounds
  <1>1. ASSUME NEW final \in BOOLEAN, StartSave(final) PROVE IInv'
    <2>1. PICK pair \in SUBSET (Pieces \ done) :
             /\ claims' = [claims EXCEPT ![made + 1] = done \cup pair]
             /\ unbacked' = unbacked \cup (pair \ file)
      BY <1>1 DEF StartSave
    <2>2. claims' \in [Ids -> SUBSET Pieces] /\ unbacked' \subseteq Pieces
      BY <2>1
    <2> QED BY <1>f, <1>1, <2>2 DEF StartSave
  <1>2. CASE SaveStep
    BY <1>2, SaveInv
  <1>3. ASSUME NEW p \in Pieces, Fetch(p) PROVE IInv'
    <2>1. file' \subseteq Pieces /\ fileDisk' \subseteq file' /\ hand' \subseteq Pieces
      BY <1>3 DEF Fetch
    <2> QED BY <1>f, <1>3, <2>1 DEF Fetch
  <1>13. ASSUME NEW p \in Pieces, Record(p) PROVE IInv'
    <2>1. done' \subseteq Pieces /\ hand' \subseteq Pieces
      BY <1>13 DEF Record
    <2> QED BY <1>f, <1>13, <2>1 DEF Record
  <1>4. CASE CloseFile
    BY <1>f, <1>4 DEF CloseFile
  <1>5. CASE Complete
    BY <1>f, <1>5 DEF Complete
  <1>6. CASE SyncFile
    BY <1>f, <1>6 DEF SyncFile
  <1>7. CASE ClearResume
    BY <1>f, <1>7 DEF ClearResume
  <1>8. CASE Restart
    BY <1>f, <1>8 DEF Restart
  <1>9. CASE Kill
    BY <1>f, <1>9 DEF Kill
  <1>10. CASE Commit
    BY <1>f, <1>10 DEF Commit
  <1>11. CASE PowerLoss
    <2>1. PICK kept \in SUBSET (whole \ synced) : whole' = synced \cup kept /\ synced' = synced \cup kept
      BY <1>f, <1>11 DEF PowerLoss
    <2>2. whole' \subseteq 1 .. made /\ synced' = whole' /\ synced \subseteq synced'
      BY <2>1
    <2>3. PICK got \in SUBSET (file \ fileDisk) : file' = fileDisk \cup got /\ fileDisk' = fileDisk \cup got
      BY <1>f, <1>11 DEF PowerLoss
    <2>4. file' \subseteq Pieces /\ fileDisk' = file'
      BY <2>3
    <2>5. TypeOK'
      BY <1>f, <1>11, <2>2, <2>4 DEF PowerLoss
    <2>6. Sound' /\ SaveSurvives' /\ OrphanHarmless'
      BY <1>f, <1>11, <2>2 DEF PowerLoss
    <2> QED BY <2>5, <2>6
  <1>12. CASE UNCHANGED vars
    BY <1>f, <1>12 DEF vars
  <1> QED BY <1>f, <1>1, <1>2, <1>3, <1>4, <1>5, <1>6, <1>7, <1>8, <1>9, <1>10, <1>11, <1>12, <1>13 DEF Next

\* Every state of the saves, the file system and the runs is of its type; what
\* is synced is complete.
THEOREM TypeCorrect == Spec => []TypeOK
  <1>1. IInv => TypeOK
    BY DEF IInv
  <1> QED BY <1>1, InitInv, NextInv, PTL DEF Spec

\* Whatever crashes and fails, the sidecar is replaced as a whole: a reader, also
\* after a crash of the machine, never finds it torn (atomicWriteFile's promise).
THEOREM Atomic == Spec => RefinesAtomicFile
  <1>1. Init => Abstract!Init
    BY DEF Init, Abstract!Init, Contents
  <1>2. ASSUME IInv, [Next]_vars
        PROVE  [Abstract!Next]_<<Contents(side), Contents(sideDisk)>>
    <2>0. /\ side \in 0 .. made /\ sideDisk \in 0 .. made /\ made \in Nat
          /\ claims \in [Ids -> SUBSET Pieces] /\ synced \subseteq whole /\ whole \subseteq 1 .. made
          /\ side # NoFile => side \in synced
          /\ sideDisk # NoFile => sideDisk \in synced
      BY <1>2, SidecarAssumption DEF IInv, TypeOK, Sound
    <2>1. ASSUME UNCHANGED <<claims, whole, side, sideDisk>>
          PROVE  UNCHANGED <<Contents(side), Contents(sideDisk)>>
      BY <2>1 DEF Contents
    <2>2. ASSUME NEW final \in BOOLEAN, StartSave(final)
          PROVE  UNCHANGED <<Contents(side), Contents(sideDisk)>>
      <3>1. \A k \in 1 .. made : claims'[k] = claims[k]
        BY <2>0, <2>2, SidecarAssumption DEF StartSave, Ids
      <3>2. UNCHANGED <<whole, side, sideDisk>>
        BY <2>2 DEF StartSave, entries
      <3> QED BY <2>0, <3>1, <3>2 DEF Contents, NoFile
    <2>3. CASE SaveStep
      <3>1. ASSUME RemoveTmp \/ Create \/ CreateFails \/ Sync \/ WriteFails \/ RenameFails \/ SyncDirFails
            PROVE  UNCHANGED <<claims, whole, side, sideDisk>>
        BY <3>1 DEF RemoveTmp, Create, CreateFails, Sync, WriteFails, RenameFails, SyncDirFails,
                    contents, entries
      <3>2. ASSUME Write
            PROVE  UNCHANGED <<Contents(side), Contents(sideDisk)>>
        BY <2>0, <3>2 DEF Write, entries, Contents
      <3>3. ASSUME Rename
            PROVE  Abstract!Put
        <4>1. tmp # NoFile /\ tmp \in whole /\ tmp \in Ids
          BY <1>2, <3>3, SidecarAssumption DEF IInv, TypeOK, Sound, Rename, Ids
        <4>2. Contents(side)' = {claims[tmp]} /\ Contents(sideDisk)' = Contents(sideDisk)
          BY <3>3, <4>1 DEF Rename, contents, Contents
        <4>3. claims[tmp] \in SUBSET Pieces
          BY <2>0, <4>1
        <4> QED BY <4>2, <4>3 DEF Abstract!Put
      <3>4. ASSUME SyncDir
            PROVE  Abstract!Persist
        BY <3>4 DEF SyncDir, contents, Contents, Abstract!Persist
      <3> QED BY <2>1, <2>3, <3>1, <3>2, <3>3, <3>4 DEF SaveStep, Abstract!Next
    <2>4. ASSUME \/ \E p \in Pieces : Fetch(p) \/ Record(p)
                 \/ CloseFile \/ Complete \/ SyncFile \/ Kill \/ UNCHANGED vars
          PROVE  UNCHANGED <<claims, whole, side, sideDisk>>
      BY <2>4 DEF Fetch, Record, CloseFile, Complete, SyncFile, Kill, vars, contents, entries
    <2>5. CASE ClearResume
      <3>1. CASE side' = NoFile
        <4>1. Contents(side)' = {} /\ Contents(sideDisk)' = Contents(sideDisk)
          BY <2>5, <3>1 DEF ClearResume, contents, Contents
        <4> QED BY <4>1 DEF Abstract!Next, Abstract!Remove
      <3>2. CASE side' = side
        BY <2>1, <2>5, <3>2 DEF ClearResume, contents
      <3> QED BY <2>5, <3>1, <3>2 DEF ClearResume
    <2>6. CASE Restart
      <3>1. UNCHANGED <<claims, whole, side, sideDisk>>
        BY <2>0, <2>6 DEF Restart, contents
      <3> QED BY <2>1, <3>1
    <2>7. CASE Commit
      BY <2>7 DEF Commit, contents, Contents, Abstract!Next, Abstract!Persist
    <2>8. CASE PowerLoss
      <3>1. synced \subseteq whole' /\ side' = sideDisk /\ UNCHANGED <<claims, sideDisk>>
        BY <2>8 DEF PowerLoss
      <3>2. Contents(sideDisk)' = Contents(sideDisk) /\ Contents(side)' = Contents(sideDisk)
        BY <2>0, <3>1 DEF Contents
      <3> QED BY <3>2 DEF Abstract!Next, Abstract!Crash
    <2> QED BY <1>2, <2>1, <2>2, <2>3, <2>4, <2>5, <2>6, <2>7, <2>8 DEF Next
  <1> QED BY <1>1, <1>2, InitInv, NextInv, PTL DEF Spec, RefinesAtomicFile, Abstract!Spec

\* What a save that returned nil has put on the disk stays there until the
\* sidecar is cleared, or a later save replaces it.
THEOREM SavesSurvive == Spec => []SaveSurvives
  <1>1. IInv => SaveSurvives
    BY DEF IInv
  <1> QED BY <1>1, InitInv, NextInv, PTL DEF Spec

\* No temporary file left behind blocks a save, unless it cannot be removed.
THEOREM OrphansHarmless == Spec => []OrphanHarmless
  <1>1. IInv => OrphanHarmless
    BY DEF IInv
  <1> QED BY <1>1, InitInv, NextInv, PTL DEF Spec

LEMMA BackedInit == Init => Backed /\ SuccessDurable
  BY DEF Init, Backed, SuccessDurable

LEMMA BackedNext == IInv /\ Backed /\ SuccessDurable /\ [Next]_vars => Backed' /\ SuccessDurable'
  <1> SUFFICES ASSUME IInv, Backed, SuccessDurable, [Next]_vars
               PROVE  Backed' /\ SuccessDurable'
    OBVIOUS
  <1>0. /\ claims \in [Ids -> SUBSET Pieces] /\ file \subseteq Pieces /\ fileDisk \subseteq file
        /\ whole \subseteq Ids /\ made + 1 \in Nat
    BY SidecarAssumption DEF IInv, TypeOK, Ids
  <1> USE DEF Backed, SuccessDurable, contents, entries, output, progress, bounds
  <1>1. ASSUME NEW final \in BOOLEAN, StartSave(final) PROVE Backed' /\ SuccessDurable'
    <2>1. PICK pair \in SUBSET (Pieces \ done) :
             /\ claims' = [claims EXCEPT ![made + 1] = done \cup pair]
             /\ unbacked' = unbacked \cup (pair \ file)
      BY <1>1 DEF StartSave
    <2>2. ~lost => \A k \in Ids : claims'[k] \subseteq file \cup unbacked'
      BY <1>0, <2>1
    <2>3. unbacked \subseteq unbacked'
      BY <2>1
    <2> QED BY <1>1, <2>2, <2>3 DEF StartSave
  <1>2. CASE SaveStep
    <2>1. UNCHANGED <<claims, done, hand, unbacked, output, result, lost>>
      BY <1>2 DEF SaveStep, RemoveTmp, Create, CreateFails, Write, Sync, WriteFails, Rename,
                  RenameFails, SyncDir, SyncDirFails, Rest
    <2>2. pc \in {"remove", "create", "write", "sync", "rename", "syncdir"} /\ pc' # "finalize"
      BY <1>2 DEF SaveStep, RemoveTmp, Create, CreateFails, Write, Sync, WriteFails, Rename,
                  RenameFails, SyncDir, SyncDirFails, Saved, Go
    <2> QED BY <2>1, <2>2
  <1>3. ASSUME NEW p \in Pieces, Fetch(p) \/ Record(p) PROVE Backed' /\ SuccessDurable'
    BY <1>3 DEF Fetch, Record, Running
  <1>4. CASE CloseFile
    BY <1>4 DEF CloseFile
  <1>5. CASE Complete
    BY <1>5 DEF Complete
  <1>6. CASE SyncFile
    BY <1>0, <1>6 DEF SyncFile
  <1>7. CASE ClearResume
    BY <1>7 DEF ClearResume
  <1>8. CASE Restart
    BY <1>0, <1>8 DEF Restart
  <1>9. CASE Kill
    BY <1>9 DEF Kill
  <1>10. CASE Commit
    BY <1>10 DEF Commit
  <1>11. CASE PowerLoss
    <2>1. /\ lost' /\ pc' = "down" /\ result' = result
          /\ fileDisk' = file' /\ (fileDisk = file => file' = file)
      BY <1>11 DEF PowerLoss
    <2> QED BY <2>1
  <1>12. CASE UNCHANGED vars
    BY <1>12 DEF vars
  <1> QED BY <1>1, <1>2, <1>3, <1>4, <1>5, <1>6, <1>7, <1>8, <1>9, <1>10, <1>11, <1>12 DEF Next

\* When a run reports success its file is on the disk, so a crash of the machine
\* afterwards loses nothing; and what is missing in it was claimed by a torn
\* pair, given up by the engine, or lost in a crash of the machine before.
THEOREM SuccessIsDurable == Spec => []SuccessDurable
  BY InitInv, NextInv, BackedInit, BackedNext, PTL DEF Spec

=============================================================================
