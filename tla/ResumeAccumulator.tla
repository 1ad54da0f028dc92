---- MODULE ResumeAccumulator ----
(***************************************************************************)
(* d.completed, the accumulator behind the resume sidecar (resume.go), and *)
(* what becomes of it: workers append ranges in any order, a save compacts *)
(* it, a restart reads it back, a failed manifest trims it, and the next   *)
(* run's work queue is computed from it (seeds.go).  Each operation holds  *)
(* completedMu, so it is one step.                                         *)
(***************************************************************************)
EXTENDS RangeAlgebra

CONSTANTS
    Totals,     \* file sizes
    MaxWork,    \* bound: entries times file size
    ChunkLen    \* bytes of a manifest chunk

ASSUME TotalAssumption == Totals \subseteq 1..MaxInt
ASSUME WorkAssumption == MaxWork \in Nat /\ ChunkLen \in Nat \ {0}

VARIABLES
    total,      \* d.totalSize
    completed,  \* d.completed: a slice of tasks, compacted now and then
    sidecar     \* the ranges resolveResume will make of the saved file

vars == <<total, completed, sidecar>>

Bytes == 0..(total - 1)
TasksOf(n) == {t \in [Start: 0..(n - 1), End: 0..(n - 1)] : t.Start <= t.End}
Tasks == TasksOf(total)

Init ==
    /\ total \in Totals
    /\ completed = <<>> /\ sidecar = <<>>

\* recordCompleted: an append, no merging.
RecordCompleted(t) ==
    /\ (Len(completed) + 1) * total <= MaxWork
    /\ completed' = Append(completed, t)
    /\ UNCHANGED <<total, sidecar>>

\* snapshotCompleted and saveResume, with the written prefix `inProgress` of
\* one running task or none (<<>>).  Snapshot compacts the accumulator too.
\* The sidecar is kept as resolveResume will read it.
Save(inProgress) ==
    /\ completed' = DedupTasks(completed)
    /\ sidecar' = DedupTasks(completed' \o inProgress)
    /\ UNCHANGED total

\* Mutation of Restart: the rest of the running task counts as written.
RestartInverted ==
    /\ completed' = Uncompleted(Task(0, total - 1), sidecar)
    /\ UNCHANGED <<total, sidecar>>

\* The process ends; the next one loads the sidecar (resolveResume).
Restart ==
    /\ completed' = sidecar
    /\ UNCHANGED <<total, sidecar>>

\* seedCompleted(nil), with clearResume or without.
Discard ==
    /\ completed' = <<>>
    /\ sidecar' \in {sidecar, <<>>}
    /\ UNCHANGED total

\* One turn of dropCompletedOverlapping's outer loop.  kept := d.completed[:0]
\* shares the array that the loop reads: a kept fragment is also written to
\* array[Len(kept)], which the loop may not have reached yet.
DropTurn(bad, acc, i) ==
    LET kept == acc.kept \o Fragments(acc.array[i], bad) IN
    [kept |-> kept,
     array |-> [j \in DOMAIN acc.array |-> IF j <= Len(kept) THEN kept[j] ELSE acc.array[j]]]

DropOverlapping(tasks, bad) ==
    LET Turn(acc, i) == DropTurn(bad, acc, i)
    IN  FoldLeft(Turn, [kept |-> <<>>, array |-> tasks], [i \in DOMAIN tasks |-> i]).kept

Dropped(bad) == DedupTasks(DropOverlapping(completed, DedupTasks(SetToSeq(bad))))

\* The manifest's chunks: [0, ChunkLen), [ChunkLen, 2*ChunkLen), ...
Chunks == {t \in Tasks : t.Start % ChunkLen = 0
                         /\ t.End = Min({t.Start + ChunkLen, total}) - 1}

\* finalize after a failed VerifyFull: drop the bad chunks and save.
DropCompletedOverlapping(bad) ==
    /\ completed' = Dropped(bad)
    /\ sidecar' = completed'
    /\ UNCHANGED total

Drops == SUBSET Chunks \ {{}}

Next ==
    \/ \E t \in Tasks : RecordCompleted(t) \/ Save(<<t>>)
    \/ Save(<<>>) \/ Restart \/ Discard
    \/ \E bad \in Drops : DropCompletedOverlapping(bad)

Spec == Init /\ [][Next]_vars

----
(* Correctness. *)

Claimed == Covered(completed)

TypeOK ==
    /\ total \in Totals
    /\ completed \in Seq(Tasks)
    /\ sidecar \in Seq(Tasks)

\* Ranges in order, none empty, with a gap between any two.
Compact(tasks) ==
    \A i \in 1..(Len(tasks) - 1) : tasks[i].End + 1 < tasks[i + 1].Start

\* Merging, compacting, saving and restarting never claim a byte that was not
\* recorded and never forget one that was; a trim claims nothing new, and
\* memory and sidecar agree after it.
Abstract == INSTANCE ClaimSet WITH
    claimed <- Claimed,
    durable <- Covered(sidecar),
    Ranges <- {s..e : s, e \in 0..(MaxInt - 1)}
RefinesClaimSet == Abstract!Spec

\* A trim leaves no byte of a corrupt chunk claimed, so that the next run
\* fetches them all again (dropCompletedOverlapping), however the accumulator
\* is ordered and although the loop overwrites the slice it reads.
TrimSafe == \A bad \in Drops : Covered(Dropped(bad)) \cap Covered(SetToSeq(bad)) = {}

\* The sidecar stays compact over any number of saves and restarts (README,
\* "deduplicated and merged"): no two of its ranges touch.
SidecarCompact == Compact(sidecar)

\* Whatever the accumulator claims, in whatever order, the tasks of the next
\* run cover every other byte once and no claimed byte (seedQueue); int64
\* overflow at the end of the file loses nothing.
SeedsExact ==
    LET seeds == SeedQueue(total, completed) IN
    \A b \in Bytes :
        Cardinality({i \in DOMAIN seeds : b \in BytesOf(seeds[i])})
            = IF b \in Claimed THEN 0 ELSE 1

\* Any gap, with any chunk size, is split without loss or overlap into at most
\* maxSeedTasks tasks (splitRange).
SplitBounded ==
    LET gaps == Uncompleted(Task(0, total - 1), completed) IN
    \A g \in DOMAIN gaps, chunk \in 1..MaxInt :
        LET s == SplitRange(gaps[g].Start, gaps[g].End - gaps[g].Start + 1, chunk) IN
        /\ Len(s) <= MaxSeedTasks
        /\ Covered(s) = BytesOf(gaps[g])
        /\ \A i \in 1..(Len(s) - 1) : s[i].End + 1 = s[i + 1].Start
====
