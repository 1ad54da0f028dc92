---------------------------- MODULE SidecarFile ----------------------------
(***************************************************************************)
(* internal/fetch/resume.go: atomicWriteFile, syncParentDir, loadResume,   *)
(* clearResume, one system call at a time, together with the order in      *)
(* which a run syncs its output file and clears the sidecar (downloader.go,*)
(* finalize.go, mmap_writer.go), under kills of the process and crashes of *)
(* the machine at any moment.                                              *)
(*                                                                         *)
(* The file system is external: written data and directory entries reach   *)
(* the disk with a sync, or earlier on their own, entries in the order of  *)
(* their changes; a rename is atomic.  The download is one without a hash  *)
(* and without a manifest; its output file exists at its full size.  Of    *)
(* the range engine it is used that a save may tear its in-progress pair   *)
(* (module WorkerState) and that the engine may give up pieces (module     *)
(* RangeEngine).                                                           *)
(***************************************************************************)
EXTENDS Naturals, FiniteSets

CONSTANTS
    Pieces,      \* the parts of the file
    MaxSaves,    \* bound: how many temporary files are created
    MaxCrashes,  \* bound: kills and crashes
    MaxErrors    \* bound: system calls that fail

ASSUME SidecarAssumption ==
    MaxSaves \in Nat /\ MaxCrashes \in Nat /\ MaxErrors \in Nat

VARIABLES
    made,     \* files created at the temporary name, numbered from 1
    claims,   \* what a resume makes of each of them: the pieces recorded in it,
              \* and those its in-progress pair is promoted to
    whole,    \* those whose contents are complete
    synced,   \* those whose contents are on the disk
    side,     \* the one that has the sidecar's name, or 0
    tmp,      \* the one that has the temporary name, or 0
    sideDisk, \* the same two entries as they are on the disk
    tmpDisk,
    file,     \* the pieces that are in the output file
    fileDisk, \* those that are on the disk for sure
    hand,     \* the pieces the workers wrote and have not recorded yet
    done,     \* Downloader.completed
    pc,       \* the place of the goroutine that saves and finalizes
    last,     \* the save under way is the forced one after Ctrl-C
    stuck,    \* it could not remove the temporary file of an earlier one
    acked,    \* the last save that returned nil and whose directory was synced
    result,   \* what the last run reported
    crashes, errors, lost,  \* lost: the machine has crashed
    unbacked  \* history: pieces that a torn pair claimed, or the engine gave up,
              \* when they were not in the file

contents == <<made, claims, whole, synced>>
entries == <<side, tmp, sideDisk, tmpDisk>>
output == <<file, fileDisk>>
progress == <<hand, done, unbacked>>
bounds == <<crashes, errors, lost>>
vars == <<contents, entries, output, progress, pc, last, stuck, acked, result, bounds>>

NoFile == 0
Ids == 1 .. MaxSaves

TypeOK ==
    /\ made \in 0 .. MaxSaves
    /\ claims \in [Ids -> SUBSET Pieces]
    /\ whole \subseteq 1 .. made
    /\ synced \subseteq whole
    /\ side \in 0 .. made /\ sideDisk \in 0 .. made
    /\ tmp \in 0 .. made /\ tmpDisk \in 0 .. made
    /\ fileDisk \subseteq file
    /\ file \subseteq Pieces
    /\ done \subseteq Pieces /\ hand \subseteq Pieces /\ unbacked \subseteq Pieces
    /\ pc \in {"loop", "remove", "create", "write", "sync", "rename", "syncdir",
               "closing", "finalize", "clear", "ended", "down"}
    /\ last \in BOOLEAN
    /\ stuck \in BOOLEAN
    /\ acked \in 0 .. made
    /\ result \in {"none", "success", "failed", "interrupted"}
    /\ crashes \in 0 .. MaxCrashes
    /\ errors \in 0 .. MaxErrors
    /\ lost \in BOOLEAN

Init ==
    /\ made = 0
    /\ claims = [k \in Ids |-> {}]
    /\ whole = {}
    /\ synced = {}
    /\ side = NoFile /\ tmp = NoFile
    /\ sideDisk = NoFile /\ tmpDisk = NoFile
    /\ file = {} /\ fileDisk = {}
    /\ done = {} /\ hand = {} /\ unbacked = {}
    /\ pc = "loop"
    /\ last = FALSE
    /\ stuck = FALSE
    /\ acked = 0
    /\ result = "none"
    /\ crashes = 0 /\ errors = 0 /\ lost = FALSE

----
(* atomicWriteFile. *)

\* The save goes on, or returns: to maybeSaveResume's loop, or the run closes.
Go(next) == pc' = next /\ UNCHANGED last
Saved == pc' = (IF last THEN "closing" ELSE "loop") /\ last' = FALSE

Fails == errors < MaxErrors /\ errors' = errors + 1
Works == UNCHANGED errors

\* What no step of a save changes.
Rest == UNCHANGED <<output, progress, result, crashes, lost>>

\* A tick, a finished task, or (last) Ctrl-C: the ranges are copied under their
\* lock with what a running worker has done of its task, or, when that pair is
\* torn, with pieces it may not have done; what follows works on the copy.
StartSave(final) ==
    /\ pc = "loop"
    /\ made < MaxSaves
    /\ \E pair \in SUBSET (Pieces \ done) :
        /\ claims' = [claims EXCEPT ![made + 1] = done \cup pair]
        /\ unbacked' = unbacked \cup (pair \ file)
    /\ pc' = "remove"
    /\ last' = final
    /\ UNCHANGED <<made, whole, synced, entries, output, hand, done, stuck, acked, result, bounds>>

\* Mutation of RemoveTmp: the orphan of an earlier save is left.
RemoveTmpNot ==
    /\ pc = "remove"
    /\ Go("create")
    /\ Works
    /\ Rest
    /\ UNCHANGED <<contents, entries, acked, stuck>>

\* An error is ignored.
RemoveTmp ==
    /\ pc = "remove"
    /\ \/ tmp' = NoFile /\ Works /\ UNCHANGED stuck
       \/ tmp' = tmp /\ Fails /\ stuck' = TRUE
    /\ Go("create")
    /\ Rest
    /\ UNCHANGED <<contents, side, sideDisk, tmpDisk, acked>>

Create ==
    /\ pc = "create"
    /\ tmp = NoFile
    /\ made' = made + 1
    /\ tmp' = made + 1
    /\ Go("write")
    /\ Works
    /\ stuck' = FALSE
    /\ Rest
    /\ UNCHANGED <<claims, whole, synced, side, sideDisk, tmpDisk, acked>>

\* O_EXCL, or any other reason.
CreateFails ==
    /\ pc = "create"
    /\ IF tmp # NoFile THEN Works ELSE Fails
    /\ Saved
    /\ stuck' = FALSE
    /\ Rest
    /\ UNCHANGED <<contents, entries, acked>>

\* Mutation of Write: a short write goes unnoticed.
WriteShort ==
    /\ pc = "write"
    /\ Go("sync")
    /\ Works
    /\ Rest
    /\ UNCHANGED <<contents, entries, acked, stuck>>

Write ==
    /\ pc = "write"
    /\ whole' = whole \cup {tmp}
    /\ Go("sync")
    /\ Works
    /\ Rest
    /\ UNCHANGED <<made, claims, synced, entries, acked, stuck>>

\* Mutation of Sync: the temporary file is renamed without a sync.
SyncNot ==
    /\ pc = "sync"
    /\ Go("rename")
    /\ Works
    /\ Rest
    /\ UNCHANGED <<contents, entries, acked, stuck>>

Sync ==
    /\ pc = "sync"
    /\ synced' = synced \cup {tmp}
    /\ Go("rename")
    /\ Works
    /\ Rest
    /\ UNCHANGED <<made, claims, whole, entries, acked, stuck>>

\* The write, the sync or the close fails, and the temporary file is removed;
\* an error of that is ignored (and not counted by MaxErrors).
WriteFails ==
    /\ pc \in {"write", "sync"}
    /\ tmp' \in {NoFile, tmp}
    /\ Fails
    /\ Saved
    /\ Rest
    /\ UNCHANGED <<contents, side, sideDisk, tmpDisk, acked, stuck>>

Rename ==
    /\ pc = "rename"
    /\ side' = tmp
    /\ tmp' = NoFile
    /\ Go("syncdir")
    /\ Works
    /\ Rest
    /\ UNCHANGED <<contents, sideDisk, tmpDisk, acked, stuck>>

\* The temporary file stays.
RenameFails ==
    /\ pc = "rename"
    /\ Fails
    /\ Saved
    /\ Rest
    /\ UNCHANGED <<contents, entries, acked, stuck>>

\* Mutation of SyncDir: nil is returned although nothing was synced.
SyncDirNot ==
    /\ pc = "syncdir"
    /\ acked' = made
    /\ Saved
    /\ Works
    /\ Rest
    /\ UNCHANGED <<contents, entries, stuck>>

SyncDir ==
    /\ pc = "syncdir"
    /\ sideDisk' = side /\ tmpDisk' = tmp
    /\ acked' = made
    /\ Saved
    /\ Works
    /\ Rest
    /\ UNCHANGED <<contents, side, tmp, stuck>>

\* The directory cannot be opened, which is no error, or not synced.
SyncDirFails ==
    /\ pc = "syncdir"
    /\ Works \/ Fails
    /\ Saved
    /\ Rest
    /\ UNCHANGED <<contents, entries, acked, stuck>>

SaveStep ==
    \/ RemoveTmp \/ Create \/ CreateFails \/ Write \/ Sync \/ WriteFails
    \/ Rename \/ RenameFails \/ SyncDir \/ SyncDirFails

----
(* The rest of a run. *)

Running == pc \in {"loop", "remove", "create", "write", "sync", "rename", "syncdir",
                  "closing"}

\* A worker writes a piece, also while a save is under way, and after Ctrl-C.
Fetch(p) ==
    /\ Running
    /\ p \notin done \cup hand
    /\ file' = file \cup {p}
    /\ hand' = hand \cup {p}
    /\ UNCHANGED <<contents, entries, fileDisk, done, unbacked, pc, last, stuck, acked, result, bounds>>

\* Its task is complete.
Record(p) ==
    /\ Running
    /\ p \in hand
    /\ hand' = hand \ {p}
    /\ done' = done \cup {p}
    /\ UNCHANGED <<contents, entries, output, unbacked, pc, last, stuck, acked, result, bounds>>

\* After Ctrl-C tryMirror closes the output file, which syncs it; errors are ignored.
CloseFile ==
    /\ pc = "closing"
    /\ done # Pieces
    /\ fileDisk' \in {file, fileDisk}
    /\ pc' = "ended"
    /\ result' = "interrupted"
    /\ hand' = {}
    /\ UNCHANGED <<contents, entries, file, done, unbacked, last, stuck, acked, bounds>>

\* The engine returns nil, be it after Ctrl-C: every task is recorded, and what
\* is not was given up.
Complete ==
    /\ pc \in {"loop", "closing"}
    /\ hand = {}
    /\ unbacked' = unbacked \cup (Pieces \ (done \cup file))
    /\ pc' = "finalize"
    /\ UNCHANGED <<contents, entries, output, hand, done, last, stuck, acked, result, bounds>>

\* Mutation of SyncFile: a success is reported without it.
SyncFileNot ==
    /\ pc = "finalize"
    /\ result' = "success"
    /\ pc' = "clear"
    /\ UNCHANGED <<contents, entries, output, progress, last, stuck, acked, bounds>>

SyncFile ==
    /\ pc = "finalize"
    /\ \/ fileDisk' = file /\ result' = "success" /\ UNCHANGED errors
       \/ errors < MaxErrors /\ errors' = errors + 1 /\ result' = "failed" /\ UNCHANGED fileDisk
    /\ pc' = "clear"
    /\ UNCHANGED <<contents, entries, file, progress, last, stuck, acked, crashes, lost>>

\* finalize's deferred clearResume, after a success or a failure.  Its error is
\* ignored, and nothing syncs the directory.
ClearResume ==
    /\ pc = "clear"
    /\ \/ side' = NoFile /\ acked' = 0 /\ UNCHANGED errors
       \/ errors < MaxErrors /\ errors' = errors + 1 /\ UNCHANGED <<side, acked>>
    /\ pc' = "ended"
    /\ UNCHANGED <<contents, tmp, sideDisk, tmpDisk, output, progress, last, stuck, result, crashes, lost>>

\* The next run trusts a sidecar that it can read, its pair as well, and clears
\* one that it cannot.
Restart ==
    /\ pc \in {"ended", "down"}
    /\ IF side \in whole
       THEN done' = claims[side] /\ UNCHANGED <<side, acked>>
       ELSE done' = {} /\ side' = NoFile /\ acked' = 0
    /\ pc' = "loop"
    /\ result' = "none"
    /\ UNCHANGED <<contents, tmp, sideDisk, tmpDisk, output, hand, unbacked, last, stuck, bounds>>

----
(* The environment. *)

\* The process is killed: what it wrote stays.
Kill ==
    /\ pc \notin {"ended", "down"}
    /\ crashes < MaxCrashes
    /\ crashes' = crashes + 1
    /\ pc' = "down"
    /\ done' = {} /\ hand' = {} /\ last' = FALSE /\ stuck' = FALSE
    /\ UNCHANGED <<contents, entries, output, unbacked, acked, result, errors, lost>>

\* Directory entries reach the disk on their own.
Commit ==
    /\ <<sideDisk, tmpDisk>> # <<side, tmp>>
    /\ sideDisk' = side /\ tmpDisk' = tmp
    /\ UNCHANGED <<contents, side, tmp, output, progress, pc, last, stuck, acked, result, bounds>>

\* The machine crashes.  Of what was not synced any part may have got through.
PowerLoss ==
    /\ crashes < MaxCrashes
    /\ crashes' = crashes + 1
    /\ lost' = TRUE
    /\ side' = sideDisk /\ tmp' = tmpDisk
    /\ \E kept \in SUBSET (whole \ synced) :
           whole' = synced \cup kept /\ synced' = synced \cup kept
    /\ \E kept \in SUBSET (file \ fileDisk) :
           file' = fileDisk \cup kept /\ fileDisk' = fileDisk \cup kept
    /\ done' = {} /\ hand' = {} /\ last' = FALSE /\ stuck' = FALSE
    /\ pc' = "down"
    /\ UNCHANGED <<made, claims, sideDisk, tmpDisk, unbacked, acked, result, errors>>

Next ==
    \/ \E final \in BOOLEAN : StartSave(final)
    \/ SaveStep
    \/ \E p \in Pieces : Fetch(p) \/ Record(p)
    \/ CloseFile \/ Complete \/ SyncFile \/ ClearResume \/ Restart
    \/ Kill \/ Commit \/ PowerLoss

Spec == Init /\ [][Next]_vars

----
(* Properties *)

\* What a reader finds in a file: of one that is torn, anything.
Contents(k) ==
    IF k = NoFile THEN {} ELSE IF k \in whole THEN {claims[k]} ELSE SUBSET Pieces

Abstract == INSTANCE AtomicFile WITH
    Values <- SUBSET Pieces,
    now <- Contents(side),
    disk <- Contents(sideDisk)

\* Whatever is killed or crashes, and whichever system call fails, a reader finds
\* the sidecar absent or as one save wrote it, and a crash of the machine brings
\* back an earlier one as a whole (resume.go, the comment on atomicWriteFile).
RefinesAtomicFile == Abstract!Spec

\* A save that returned nil is not undone by a crash of the machine: until the
\* sidecar is cleared, the disk has that save or a later one.  Excepted is a
\* directory that cannot be opened.
SaveSurvives == acked <= sideDisk

\* A temporary file that an earlier save or a crash left behind never makes a
\* later save fail, as long as it can be removed.
OrphanHarmless == pc = "create" /\ ~stuck => tmp = NoFile

\* A success is reported and the sidecar cleared only when the file is on the
\* disk, so no later crash of the machine takes a piece from it.  A piece is
\* missing in it for one of three reasons: a torn pair claimed it, the engine
\* gave it up, or the machine crashed before and an older sidecar claims what
\* never reached the disk.
SuccessDurable ==
    result = "success" => fileDisk = file /\ (Pieces \subseteq file \cup unbacked \/ lost)

\* What these rest on.  A file that has the sidecar's name is synced and not older
\* than the last save that counts; the temporary one is that of this save.
Sound ==
    /\ side # NoFile => side \in synced
    /\ sideDisk # NoFile => sideDisk \in synced
    /\ acked <= side
    /\ pc \in {"remove", "create"} => made < MaxSaves
    /\ pc \in {"write", "sync", "rename"} => tmp = made /\ tmp # NoFile
    /\ pc = "sync" => tmp \in whole
    /\ pc = "rename" => tmp \in synced
    /\ pc = "syncdir" => side = made

\* As long as the machine did not crash, what is recorded or claimed is written,
\* but for what no claim ever was backed.
Backed ==
    /\ ~lost => done \cup hand \subseteq file \cup unbacked
                /\ \A k \in Ids : claims[k] \subseteq file \cup unbacked
    /\ ~lost /\ pc = "finalize" => Pieces \subseteq file \cup unbacked
    /\ result = "success" => pc \in {"clear", "ended", "down"}

IInv == TypeOK /\ Sound /\ SaveSurvives /\ OrphanHarmless

=============================================================================
