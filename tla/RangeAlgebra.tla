---- MODULE RangeAlgebra ----
(***************************************************************************)
(* The arithmetic of byte ranges: internal/fetch/seeds.go, and dedupTasks  *)
(* and the subtraction of dropCompletedOverlapping in resume.go.  Slices   *)
(* are sequences, loops are folds, int64 has MaxInt as its largest value.  *)
(***************************************************************************)
EXTENDS Integers, SequencesExt

CONSTANTS
    MaxInt,         \* math.MaxInt64
    MaxSeedTasks,   \* maxSeedTasks
    MinSeedChunk    \* minSeedChunk

ASSUME SeedAssumption ==
    {MaxInt, MaxSeedTasks, MinSeedChunk} \subseteq Nat \ {0} /\ MinSeedChunk <= MaxInt

\* Task{Start, End} is an inclusive range.
Task(s, e) == [Start |-> s, End |-> e]
BytesOf(t) == t.Start..t.End
Covered(tasks) == UNION {BytesOf(tasks[i]) : i \in DOMAIN tasks}

\* A sum of two int64 that are not negative.
Wrap(x) == IF x > MaxInt THEN x - 2 * (MaxInt + 1) ELSE x

\* slices.SortFunc, which is not stable, so equal starts may end up in any order.
SortedByStart(tasks) ==
    LET order == CHOOSE p \in Bijection(DOMAIN tasks, DOMAIN tasks) :
                     \A i, j \in DOMAIN tasks : i < j => tasks[p[i]].Start <= tasks[p[j]].Start
    IN  [i \in DOMAIN tasks |-> tasks[order[i]]]

\* Mutation of Merge: adjacent ranges stay apart.
MergeOverlapping(out, t) ==
    LET last == out[Len(out)] IN
    IF out = <<>> \/ t.Start > last.End THEN Append(out, t)
    ELSE Append(Front(out), Task(last.Start, Max({last.End, t.End})))

\* One turn of the loop of DedupTasks: extend the last range or begin one.
Merge(out, t) ==
    LET last == out[Len(out)] IN
    IF out = <<>> \/ t.Start > last.End + 1 THEN Append(out, t)
    ELSE Append(Front(out), Task(last.Start, Max({last.End, t.End})))

\* dedupTasks: sorted, overlapping and adjacent ranges merged.
DedupTasks(tasks) == FoldLeft(Merge, <<>>, SortedByStart(tasks))

CeilDiv(a, b) == a \div b + (IF a % b # 0 THEN 1 ELSE 0)

\* seedChunkSize, for a known size
SeedChunkSize(total) == Max({MinSeedChunk, CeilDiv(total, MaxSeedTasks)})

\* Mutation of Stop: no test for overflow.
StopUnchecked(cursor, chunk, end) ==
    LET stop == Wrap(cursor + chunk) IN IF stop > end THEN end ELSE stop

\* Where splitRange's next task ends.
Stop(cursor, chunk, end) ==
    LET stop == Wrap(cursor + chunk) IN IF stop > end \/ stop < cursor THEN end ELSE stop

\* One turn of splitRange's loop; the last task takes whatever is left.
SplitTurn(offset, end, chunk, out, i) ==
    LET cursor == IF out = <<>> THEN offset ELSE out[Len(out)].End + 1 IN
    IF cursor >= end THEN out
    ELSE Append(out, Task(cursor, (IF i = MaxSeedTasks THEN end ELSE Stop(cursor, chunk, end)) - 1))

\* splitRange: [offset, offset + length) in tasks of chunkSize, which grows
\* when there would be too many.
SplitRange(offset, length, chunkSize) ==
    LET end == IF offset > MaxInt - length THEN MaxInt ELSE offset + length
        chunk == IF CeilDiv(length, chunkSize) > MaxSeedTasks
                 THEN CeilDiv(length, MaxSeedTasks) ELSE chunkSize
        Turn(out, i) == SplitTurn(offset, end, chunk, out, i)
    IN  FoldLeft(Turn, <<>>, [i \in 1..MaxSeedTasks |-> i])

\* Mutation of Skip: the cursor steps back to the end of a shorter range.
SkipBack(full, acc, c) ==
    IF c.End < c.Start \/ c.End < full.Start \/ c.Start > full.End THEN acc
    ELSE [out |-> IF c.Start > acc.cursor
                  THEN Append(acc.out, Task(acc.cursor, c.Start - 1)) ELSE acc.out,
          cursor |-> c.End + 1]

\* One turn of the loop of uncompleted.
Skip(full, acc, c) ==
    IF c.End < c.Start \/ c.End < full.Start \/ c.Start > full.End THEN acc
    ELSE [out |-> IF c.Start > acc.cursor
                  THEN Append(acc.out, Task(acc.cursor, c.Start - 1)) ELSE acc.out,
          cursor |-> Max({acc.cursor, c.End + 1})]

\* uncompleted: the gaps of full between the completed ranges.
Uncompleted(full, completed) ==
    LET Turn(acc, c) == Skip(full, acc, c)
        acc == FoldLeft(Turn, [out |-> <<>>, cursor |-> full.Start], SortedByStart(completed))
    IN  IF acc.cursor <= full.End THEN Append(acc.out, Task(acc.cursor, full.End)) ELSE acc.out

\* The tasks seedQueue pushes: every gap split.
SeedQueue(total, completed) ==
    LET gaps == Uncompleted(Task(0, total - 1), completed)
        Turn(out, gap) ==
            out \o SplitRange(gap.Start, gap.End - gap.Start + 1, SeedChunkSize(total))
    IN  FoldLeft(Turn, <<>>, gaps)

\* Mutation of Subtract: the last byte of a bad range is kept.
SubtractShort(t, acc, b) ==
    IF b.End < acc.cursor \/ b.Start > t.End \/ acc.cursor > t.End THEN acc
    ELSE [kept |-> IF b.Start > acc.cursor
                   THEN Append(acc.kept, Task(acc.cursor, b.Start - 1)) ELSE acc.kept,
          cursor |-> b.End]

\* One bad range against one completed range: the piece before it is kept.
Subtract(t, acc, b) ==
    IF b.End < acc.cursor \/ b.Start > t.End \/ acc.cursor > t.End THEN acc
    ELSE [kept |-> IF b.Start > acc.cursor
                   THEN Append(acc.kept, Task(acc.cursor, b.Start - 1)) ELSE acc.kept,
          cursor |-> b.End + 1]

\* Mutation of Fragments: the rest is kept although it is empty.
FragmentsAndRest(t, bad) ==
    LET Turn(acc, b) == Subtract(t, acc, b)
        acc == FoldLeft(Turn, [kept |-> <<>>, cursor |-> t.Start], bad)
    IN  Append(acc.kept, Task(acc.cursor, t.End))

\* What is left of t without the bad ranges.
Fragments(t, bad) ==
    LET Turn(acc, b) == Subtract(t, acc, b)
        acc == FoldLeft(Turn, [kept |-> <<>>, cursor |-> t.Start], bad)
    IN  IF acc.cursor <= t.End THEN Append(acc.kept, Task(acc.cursor, t.End)) ELSE acc.kept
====
