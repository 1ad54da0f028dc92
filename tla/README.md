# TLA+ models of gofetch

gofetch downloads files over many parallel HTTP Range requests. It can
resume after a kill, fail over between mirrors, steal work from slow
connections, limit its rate, and verify the result against a manifest or a
hash that it may look up next to the file. This directory holds TLA+ modules
for the parts whose order of steps matters, the TLC configurations that check
them, and TLAPS proofs of what matters most about them.

Source references are relative to `src/`.

## 1. The system

### Components

| component | source | state | operations | modelled in |
|---|---|---|---|---|
| range engine | `internal/fetch/worker.go`, `monitor.go`, `range.go`, `body.go` | work queue, one `workerState` per worker, retry maps, the goroutines of `rangeDownload` | `workerLoop`, `runTask`, `pumpBody`, `requeueUnfinished`, `monitor`, `drainLeftovers`, `rangeDownload` | `RangeEngine` |
| worker state | `worker.go` (`reset`), `monitor.go` (`stealPlan`), `resume.go` (`saveResume`) | `curTask`, `bytesDone`, `taskGen`, `cancelFn` (atomics) | the single loads and stores of worker, monitor and saver | `WorkerState` |
| work queue | `task.go` | ring buffer, head, tail, count | `NewQueue`, `Push`, `PushMany`, `Pop`, `growForced` | `TaskQueue` |
| resume accumulator | `resume.go`, `seeds.go`, `range.go` (`seedQueue`) | `d.completed`, the sidecar | `recordCompleted`, `snapshotCompleted`, `saveResume`, `seedCompleted`, `dropCompletedOverlapping`, and the range arithmetic behind the seeds | `RangeAlgebra`, `ResumeAccumulator` |
| downloader | `downloader.go`, `single.go`, `finalize.go`, `mmap_writer.go` (`allocateFileWriter`), `cmd/gofetch/download.go` (`runOne`) | total size, manifest, accumulator; on disk the output file and the sidecar | `Download`, `tryMirror`, `applyProbe`, `resolveResume`, `downloadFromMirror`, `singleDownload`, `finalize`, `--no-clobber` | `Lifecycle` |
| idle-body reader | `idle_body.go`, `body.go` (buffer pool) | helper goroutine, its channels, two timers, the buffers of the pool | `Read` on both paths, `forceClose`, `drainResult`, `Close` | `IdleBody` |
| sidecar file | `resume.go` (`maybeSaveResume`, `atomicWriteFile`, `syncParentDir`, `clearResume`), `finalize.go` | temporary file, directory entries, page cache of both files | create, write, fsync, rename, directory fsync, clear | `SidecarFile` |
| rate limiter | `ratelimit.go` | tokens, last refill, mutex | `wait` | `RateLimiter` |
| checksum discovery | `cmd/gofetch/sidecar.go`, `internal/fetch/sidecar.go` | one goroutine per candidate, a channel of one, a closer | `autoDetectRemoteSidecar`; parsing is left out | `Discovery` |
| probe, requests | `mirror.go` | attempt | `probeURL`, `probeOnce`, HEAD and its fallback; header parsing is left out | `Batch` |
| command line | `cmd/gofetch/main.go`, `download.go` | URL, exit code, flags | `run`'s loop, `runOne`, `runInfo`, `resolveHash`; flag parsing is left out | `Batch`, `--no-clobber` also in `Lifecycle` |
| manifest, hashes | `manifest.go`, `hash.go` | expected digests | `VerifyRange`, `VerifyFull`, `BadChunks` | their verdicts are used by `Lifecycle` and `ResumeAccumulator`; hashing is not modelled |
| file writers | `mmap_writer.go`, `mmap_unix.go` | the output file | write at an offset, sync, truncate | keep-or-empty is in `Lifecycle`, the sync before success in `SidecarFile`; system calls are not modelled |
| tuning, progress bar, address policy, socket options, benchmark server | `optimizer.go`, `progress.go`, `ssrf.go`, `sockopts_*.go`, `cmd/benchserver` | none that steps can race on | | not modelled |

### How they interact

`run` takes the URLs one by one and sums up an exit code. `runOne` settles
which hash to expect, by a race of probes under `-h auto`, builds a
`Downloader` and calls `Download`, which tries the URL and its mirrors one
after the other. `tryMirror` probes, decides what earlier progress may be
reused, allocates the file and calls `rangeDownload` or `singleDownload`, then
`finalize`. `rangeDownload` seeds the queue with the gaps of the accumulator
and starts the workers, the monitor and a goroutine that waits for both.
Workers share the queue, the accumulator and the retry maps under mutexes, a
rate limiter and a pool of buffers, and each publishes its `workerState`
through atomics, which the monitor and the saver read without a lock. A body
whose connection has no read deadline is read by a helper goroutine that may
outlive the call it serves. Everything that outlives a process is the output
file and the sidecar next to it.

### What is hard

* A remainder changes hands between worker, retry timer, monitor, queue and
  drain. In between it is on no queue, so "the queue is empty" is no proof
  that the file is complete.
* `stealPlan` reads four atomics of a worker that may move to another task
  between any two of the reads.
* Shutdown is a chain: workers, then the monitor, then the verdict, then the
  drain, then the supervisor; each link may be cut short by Ctrl-C.
* The sidecar must never claim what is not in the file, through merges, trims,
  kills, mirrors of other sizes or other content, and runs with other flags. It
  claims recorded ranges and, of one running worker, the task with its progress,
  which the next run promotes to a range; the saver reads that pair from atomics.
* The body of a refused answer, and that of a probe, is drained without a
  timeout by a client that has none.
* A read that timed out may still be writing into its buffer, which the next
  read of any worker could be handed.
* A worker sleeps for its tokens with the limiter's mutex held.
* A power failure may undo any step of a save, and take data that a durable
  sidecar claims.
* The winner of the checksum race and the end of all probes can be ready
  together; a probe, its retries, failover, the next URL and Ctrl-C nest.

The full list, each at its line, is `hazards` in `PROJECT.json`.

### What makes each component correct

| component | must hold |
|---|---|
| range engine | success only when every byte was fetched; claims, recorded or in progress, are of written bytes; no byte in two hands unless stolen; returns |
| worker state | a progress is never attributed to another task; a steal claims one cancel function |
| work queue | an unbounded FIFO: nothing lost, repeated or reordered |
| resume accumulator | a set of bytes under any order of records; next run's tasks are exactly its complement |
| downloader | a successful run leaves a full file of one version; a failed verification leaves a repairable one |
| idle body | a stalled read ends; the helper ends; a buffer is not reused while a read may still fill it; no chunk is lost or overtaken |
| sidecar file | after a crash the old or the new sidecar, never a mixture; what was acknowledged stays; success means durable data |
| rate limiter | over any stretch of time at most the cap and one burst; nobody starves; Ctrl-C gets everybody out |
| discovery | a checksum that was found is used |
| command line | the exit code tells what became of every URL; the program ends |

## 2. The modules

### RangeEngine: one call of `rangeDownload`

A step is the code between two points at which another goroutine can see a
difference. The unit of data is what one `body.Read` delivers. All timers may
fire at any moment. The variables carry the names of the fields where there is
one; `pc`, `mon`, `sup` and `main` are the places of a worker, the monitor, the
waiting goroutine and the select loop.

| actions | code |
|---|---|
| `Take`, `QuitCancelled`, `QuitIdle` | the head of `workerLoop` |
| `Respond`, `Refuse`, `RetryStatus`, `StatusExhausted`, `NoRange`, `Fatal` | `runTask`'s request loop and its errors; between `Refuse` and what follows from the status, `drainAndClose` reads the body (place `drain`) |
| `Read`, `Finish`, `Corrupt` | `pumpBody`; `workerLoop` after a success, with `verifyTaskRange` |
| `Interrupted`, `Transient` (`SkipStolen`, `Requeue`) | the failure branches of `workerLoop` and `requeueUnfinished` up to its select |
| `BackoffElapsed`, `BackoffCancelled` | the two cases of that select |
| `PlanTask`, `PlanProgress`, `Claim`, `PlanDrop` | `stealPlan` |
| `Mark`, `CancelVictim`, `PushLeftover`, `MonitorExit` | the rest of `monitor` |
| `WorkersDone`, `Assess`, `DrainTake/Ok/Fail/End` | the waiting goroutine, `allTasksDone`, `drainLeftovers` |
| `Save`, `Signalled` (`SaveResume`), `Return` | the select loop of `rangeDownload`; `saveResume` |

The constant `Scenarios` says in which environments a run may be: whether the
monitor runs, which faults the network has, whether Ctrl-C may come. The fault
`stall` is the body of a refused answer that never ends. `lost` and
`covers` are history variables: the bytes that nobody will fetch any more, and
whether the claimed steal covers the rest of its victim's task.

A save stores the recorded ranges and an in-progress pair. `Pairs` are the ones
that `saveResume` can come to: a worker's task with its own progress, or, when a
`reset()` comes between its loads, the halves of two tasks, for which `before`
keeps what each worker's last `reset()` since the last save replaced.
`Promoted` is the range `resolveResume` makes of a pair. Of the saved sidecar
the variable `sidecar` keeps what the properties tell apart: the bytes a resume
would skip although they were not in the file, and whether the pair was torn.

### WorkerState: the atomics behind it

One load or store per step, for a worker that runs task after task, the
monitor's `stealPlan` and the saver's capture of the running task. Its two
safety properties, proved for any tasks, say what the three steps of `stealPlan`
in `RangeEngine` take for granted: a progress that passed the test of
`taskGen` is current for the generation it was loaded with, and a
compare-and-swap takes the cancel function of one task. What they do not say,
that the *task* loaded at the start is of the same generation, is why
`RangeEngine` keeps `PlanTask`, `PlanProgress` and `Claim` apart.

### TaskQueue and Fifo

`TaskQueue` is the ring buffer, `Fifo` what it promises. `RefinesFifo`
instantiates `Fifo` with the queue's contents read round the ring.

### RangeAlgebra, ResumeAccumulator and ClaimSet

`RangeAlgebra` has the arithmetic of `seeds.go` and of `resume.go` as folds
over sequences, with a wrap at `MaxInt` in place of 2^63-1. `slices.SortFunc`
is not stable, so `SortedByStart` is *some* sorted order: nothing may depend on
which.
`ResumeAccumulator` is the accumulator and the sidecar made of it;
`dropCompletedOverlapping` is modelled with the array that its result shares
with the slice it reads. `ClaimSet` is the abstract specification: claims are a
set that grows by what is recorded, survives a save and a restart, and shrinks
when discarded or trimmed. The trim is not required to be exact, because the
code's is not: an append to `d.completed[:0]` may overwrite a range that the
loop has not read yet. Nothing corrupt stays claimed (`TrimSafe`), but good
ranges may be forgotten and fetched again.

`MCRangeEngine` computes the seeds of the engine with `RangeAlgebra`.

### Lifecycle: several runs of the program

The file is a sequence of pieces, each a hole or the version of the content a
server sent. Two servers may differ in content, in size, in announcing ranges
or a size, and in keeping that promise. A run may be killed or interrupted
anywhere, with or without `--no-resume`, `--no-clobber` and `--hash`. Of the
range engine `Lifecycle` uses what it promises: a piece is written
(`FetchPiece`) and later recorded (`RecordPiece`), a save has the recorded pieces
and a pair (`SaveSidecar`), and `RangeDone` is a success. In environments with
`lapses` a pair may be torn and claim pieces that nobody wrote, as
`worker_pair` shows, and the engine may give up pieces, as `engine_steal_hole`
shows. Both are noted in the history variable `unbacked`, and the properties say
that nothing *else* makes a hole or a splice; when either can happen is the
subject of `WorkerState` and `RangeEngine`. The next run trusts the recorded
pieces and the promoted pair alike (`Claims`). A kill leaves the page cache
alone. An unreadable sidecar counts as none.

### IdleBody: reading a body that may stall

The worker's `Read`, with a helper (`StartRead`, `Offer`, `AwaitEnds`,
`Answered`, then `Drained` or `DrainTimeout`) or with a read deadline
(`StartDirect`, `DirectData`, `DirectFails`); the helper (`HelperTakes`,
`HelperAnswers`, `HelperStops`); `Close`; and the context's `Cancel`. Channels
are the variables `req` and `res`, `pool` is the free list that all bodies
share, and a buffer is a number. A worker reads one body after another
(`Before`), first for `pumpBody`, then for `drainAndClose`. `Stubborn` bodies
are readers whose `Read` does not return after a `Close`: nothing in
`io.ReadCloser` forbids them, and `drainResult` is written for them.

### SidecarFile and AtomicFile: one save, call by call

A temporary file is a number; `side`, `tmp` are the directory entries as
processes see them and `sideDisk`, `tmpDisk` as the disk has them; `whole` and
`synced` say of contents what a reader and the disk have. A save is `StartSave`,
`RemoveTmp`, `Create`, `Write`, `Sync`, `Rename`, `SyncDir`, each of which may
fail; a run goes on to `CloseFile`, `SyncFile` and `ClearResume`. `Kill` ends
the process, `PowerLoss` the machine, and `Commit` is the file system writing
back on its own. The file system is external: metadata reach the disk in order,
a rename is atomic, data are durable from a sync at the latest. The download
has no hash and no manifest, as that changes nothing about a save.

Workers go on beside a save: `Fetch` writes a piece, `Record` comes when its task
is complete. A save takes the recorded pieces and any pair, true or torn, and
`Complete` is any success of the engine. As in `Lifecycle`, `unbacked` notes the
pieces that a torn pair claimed or the engine gave up. An error of removing the
temporary file is ignored, in `RemoveTmp` as in `WriteFails`.

`AtomicFile` is what a reader is promised: contents that are replaced as a
whole, and a durable version that a crash goes back to. `RefinesAtomicFile`
maps a torn sidecar to *any* contents, so that it is no value of `AtomicFile`.

### RateLimiter: the token bucket

A unit of time brings one token; `since` and `left` are measured on a clock
that is not kept. `wait` is `Call`, then `Pass` or `Sleep` under the mutex, and
`TimerFires`, `Interrupted` and `Awake` for the end of the sleep. `excess` is a
meter for the property: it rises by each read that was waited for in full, and
falls with time at the cap's rate.

### Discovery and Batch: the process

`Discovery` is one `autoDetectRemoteSidecar` per URL, side by side, because the
probes of a call that has returned may still run: `Launch`, `Select`, each
candidate's `Send` or `Miss`, the closer's `CloseDone`. `Batch` extends it with
the main goroutine: per URL the skip of `--no-clobber`, the source of the hash,
`probeURL` with HEAD, the fallback to a ranged GET and the reading of its body
(`Drain`), retries and their sleeps, the transfer, its verification, failover, and the sum of the exit code; or
`--info`. An error is what `errors.Is` tells of it. `late` is a history
variable: a probe's hit came after the caller looked.

### Composition

    Batch                the process       abstracts a transfer to its outcomes
      Discovery          the checksum race (extended by Batch)
      Lifecycle          several runs      uses the promises of
        SidecarFile      a save            refines AtomicFile
        RangeEngine      one run           uses the promises of
          WorkerState    one worker's atomics (proved)
          IdleBody       a read delivers in order, fails or ends
          RateLimiter    a worker gets through or leaves
          Fifo           refined by TaskQueue (the engine's `queue` is a sequence)
          RangeAlgebra   the seeds (instantiated by MCRangeEngine)
        ClaimSet         refined by ResumeAccumulator (`completed`, `sidecar` are sets)

## 3. What TLC checks

Runs that pass:

| run | states | what it shows |
|---|---|---|
| `engine` | 153 thousand | two workers, three units, one retry, a monitor that may steal, any fault or Ctrl-C: claims are true but for a torn pair, bytes have one owner unless stolen, success accounts for every byte, the call returns unless a refused body stalls and nobody presses Ctrl-C, and succeeds on a clean network |
| `worker_atomics` | 451 thousand | tasks of 2, 1 and 2 units, every interleaving of worker, monitor and saver |
| `task_queue` | 59 thousand | the ring buffer implements `Fifo` |
| `resume_accumulator` | 25 thousand | the accumulator implements `ClaimSet`; seeds, splits and trims are right |
| `lifecycle` | 1.19 million | three runs against two or three servers: no hole without `--no-resume` except where a torn pair or the engine left one, no splice within one run as far as a manifest reaches, no lasting corruption |
| `idle_body` | 105 thousand | three bodies on one pool, one with a deadline, one stubborn, one with a context that outlives it: buffers have one user, chunks come in order, stalled reads end, helpers end |
| `rate_limiter` | 21 thousand | three workers at three units a tick: the cap holds over every stretch of time, nobody starves, Ctrl-C gets everybody out |
| `sidecar_file` | 3.04 million | two saves with any pair, one crash, one failing call: saving implements `AtomicFile`, an acknowledged save survives, an orphan hinders nobody, success is durable |
| `batch` | 424 thousand | two URLs, two mirrors, two racing probes, any answer, timeout or Ctrl-C: a checksum found in time is used, the exit code accounts for every URL, the program ends unless a body stalls that is read without a timeout |

Runs that find a disagreement between the code and what its comments or
documents say (`findings` in `PROJECT.json` quote the lines):

| run | property | what happens |
|---|---|---|
| `engine_steal_hole` | `SuccessComplete` | a steal planned for one task cancels the worker's next one, whose rest nobody pushes; `rangeDownload` returns nil over a hole, on a network without faults |
| `worker_pair` | `SavedPairTrue` | `saveResume` persists one task with the progress of another |
| `lifecycle_hole` | `SuccessFilled` | a `--no-resume` run empties the file and leaves the older sidecar, which a third run believes |

`SuccessAccounted` and `CompleteOtherwise` put the engine's findings into their
place: apart from two ways to lose a byte (the steal above, and a backoff cut
short by Ctrl-C, section 6), and outside the environments where they can
happen, success means a complete file. `ClaimsWritten`, `FilledWhenResuming` and
`SuccessDurable` do the same for the torn pair: it is the only way in which a
sidecar claims what was not in the file when it was saved.

Every property of a passing run has a mutant in `PROJECT.json`: a plausible
mistake in one definition that makes the run find it violated. The operators
that state those mistakes stand before what they replace and are used by
nothing else.

### Bounds

* `engine`: three units in one task are the least from which a steal is
  possible (one written, one to leave, one more to read meanwhile); with two
  workers there is a thief, a victim and a shared queue. `RetryMax = 1` reaches
  the spent budget and, by progress, its restart. The hazards come one at a
  time, plus Ctrl-C on top of stealing, of transient errors, and of refusals
  whose bodies stall. Stealing
  together with transient errors has millions of states and is left to the
  proofs, which hold for any combination. The violation uses four units, so
  that a worker has a second task to go on to. `Done0` is empty: bytes done
  before the run enter no guard of the engine.
* `worker_atomics`: a longer task before a shorter one and the reverse; three
  tasks let a reader fall two generations behind.
* `task_queue`: buffers start at 1 to 4 slots and grow at least twice; batches
  up to three; up to six tasks; two values and both growths of wrapped and
  full rings. The code's smallest buffer of 8 is the constant `MinCap`.
* `resume_accumulator`: files of 4 and 5 bytes, the latter as long as the
  largest integer, so that every sum that can overflow does. Any three entries
  in any order (two for the longer file), manifest chunks of two bytes.
* `lifecycle`: some of the environments have lapses, the others have none, and
  there the properties speak of every piece. A finding needs two or three runs, or three servers; pieces are few because only
  "all", "some" and "none" matter to the decisions. The mirror may be longer
  than the first server's file, also with other content. Deadlock is not
  checked there: the user stops after `MaxRuns` runs.
* `idle_body`: bodies are read one after the other, so that the second and the
  third may be handed what the helpers of the ones before still hold; a body
  has one chunk, the last one two, so that order means something. The pool
  makes a buffer when it is empty and so needs no bound. Deadlock is not
  checked: a download that is over does nothing.
* `rate_limiter`: reads of up to four units at a rate of three include one
  that no full bucket can pay for; with three workers two queue behind a
  sleeper. The meter is bounded by what it checks.
* `sidecar_file`: two saves are an old sidecar and a new one, before and after
  one crash or around one failing call, which is what the next save must recover
  from; a temporary file that stays behind needs no second crash. The proofs are
  for any number of each. Two pieces are what was claimed and what was not; as
  pieces differ in nothing and only invariants and a refinement that treats them
  alike are checked, `MCSidecarFile` declares them symmetric.
* `batch`: with two URLs and two mirrors there is a first, a last and a next of
  everything; two attempts in place of `probeURL`'s three pass through the
  same code, as a first, a last and a repeated one differ and no more.

### Fairness

* `RangeEngine`: weak fairness of each worker, the monitor, the waiting
  goroutine and the return stands for goroutines that keep running; a request
  and a read of a body that is downloaded end by the response-header and idle
  timeouts (the latter is what `IdleBody` checks), and a backoff by its timer.
  The body of a refused answer has neither: where such bodies stall
  (`WorkerHangs`, `DrainHangs`), nothing is assumed of the worker before its
  context is cancelled, and `Termination` promises a return only after Ctrl-C. `MonitorExit` is strongly
  fair: the monitor's `select` has both its ticker and the context ready again
  and again, and Go's select picks at random among the ready cases. Nothing is
  assumed of the start of a steal, of saves, of faults or of Ctrl-C. That a bad
  network cannot keep a download alive forever is therefore a consequence of
  the retry budgets, not an assumption.
* `IdleBody`: the worker runs and its armed timers fire; the helper's steps run.
  The server need not send anything. A blocked `Read` of the body returns after
  a close or a cancel, as `net/http` has it, but only for bodies that are not
  stubborn. `StalledReadEnds` holds for the stubborn too; `HelperEnds` cannot.
* `RateLimiter`: `Enter` is strongly fair, since `sync.Mutex` hands itself to
  whoever has waited for a millisecond. Time passes only as long as nobody
  pressed Ctrl-C: `CancelledLeaves` may not depend on a timer.
* `Batch`: the main goroutine and each probe run, and a request gets an answer or
  a timeout. The body of a probe's answer is drained without a timeout, and so is
  a refused request's in a transfer: `Untimed` excepts both until Ctrl-C, and
  `Ends` says that the program ends or stays there for ever. Nothing is assumed
  of Ctrl-C or of what is answered.

`SidecarFile`, `Lifecycle`, `WorkerState`, `TaskQueue` and `ResumeAccumulator`
promise nothing that must happen, and state no fairness.

## 4. What is proved

All for every value of the constants: any number of workers, bodies, URLs,
pieces, any size, any seeds that cover the file, any retry budget, any
environment, any number of runs, saves and crashes, files of any size,
accumulators and queues of any length.

| theorem | says |
|---|---|
| `RangeEngineProofs!TypeCorrect` | `TypeOK` is invariant: among others, no progress passes the end of its task |
| `RangeEngineProofs!NoFalseClaims` | what the accumulator claims is written, and what a resume from a saved sidecar would skip as well, unless the pair in it is torn |
| `RangeEngineProofs!NoSilentHole` | on success every byte is written or was given up in one of the two named ways |
| `RangeEngineProofs!CompleteUnlessHoleProne` | without stealing, and without transient errors under Ctrl-C, success means complete |
| `RangeEngineProofs!SoleOwner` | without the monitor no byte is in two hands |
| `SharedStateProofs!TypeCorrect` | `TypeOK` is invariant |
| `SharedStateProofs!StealPlanSound` | a progress past the re-check is of the generation loaded before it |
| `SharedStateProofs!CancelNeverClobbered` | a running, unclaimed task keeps its cancel function |
| `SharedStateProofs!RingCorrect` | `QueueTypeOK` is invariant |
| `SharedStateProofs!RingIsFifo` | the ring buffer implements `Fifo`, through any growth |
| `ResumeProofs!TypeCorrect` | `TypeOK` is invariant: no range is empty or leaves the file |
| `ResumeProofs!StaysCompact` | no two ranges of the sidecar touch |
| `ResumeProofs!TrimIsSafe` | a trim leaves no byte of a corrupt chunk claimed |
| `ResumeProofs!Refines` | accumulator and sidecar implement `ClaimSet` |
| `ResumeProofs!SplitIsBounded` | a gap is split exactly, into at most `maxSeedTasks` tasks, for any chunk size and where the sum of cursor and chunk overflows |
| `ResumeProofs!SeedsAreExact` | the next run's tasks have every unclaimed byte once and no claimed byte |
| `LifecycleProofs!TypeCorrect` | `TypeOK` is invariant |
| `LifecycleProofs!NoHoleWhenResuming` | without `--no-resume`, success leaves no hole, whatever the runs before it went through, except in pieces that a torn pair claimed or the engine gave up |
| `LifecycleProofs!FailureRepairable` | after a failed verification no wrong piece stays claimed, as far as the manifest reaches |
| `LifecycleProofs!FirstRunPure` | in one run a success is one version of the content, with a manifest that covers the file, or without one except in pieces that the engine gave up or a torn pair claimed |
| `IdleBodyProofs!TypeCorrect` | `TypeOK` is invariant |
| `IdleBodyProofs!OneUser` | a buffer has one user and is not in the pool while it has |
| `IdleBodyProofs!ChunksInOrder` | the chunks of a body are delivered in order and without a gap |
| `RateLimiterProofs!TypeCorrect` | `TypeOK` is invariant: among others, the mutex is held across a step exactly while one worker sleeps |
| `RateLimiterProofs!CapHolds` | over every stretch of time, at most the cap and one burst |
| `SidecarFileProofs!TypeCorrect` | `TypeOK` is invariant |
| `SidecarFileProofs!Atomic` | saving implements `AtomicFile` |
| `SidecarFileProofs!SavesSurvive` | an acknowledged save survives a power failure |
| `SidecarFileProofs!OrphansHarmless` | a leftover temporary file is out of the way before the next is created |
| `SidecarFileProofs!SuccessIsDurable` | on success the bytes of the file are on the disk, and all pieces are among them unless a torn pair claimed one, the engine gave it up, or the machine crashed before |
| `BatchProofs!TypeCorrect` | `TypeOK` is invariant |
| `BatchProofs!FirstHitWins` | a checksum found before the caller looked is the answer, or the interruption is |
| `BatchProofs!ExitCodeAccounts` | what became of the URLs under each of the codes 0, 1 and 130, as the code gives them (section 6 on how the documentation differs) |

The invariants, and why they are needed:

* `RangeEngine`. `IInv` says of every byte that it is written, lost, queued, in
  the hands of a responsible worker, about to be pushed by the monitor or being
  drained, until an error is certain to be reported (`AccountInv`). None of the
  rest could be left out. `ShutdownInv` says what has ended when: without it
  `Assess` could find the monitor still holding a leftover. `ErrorInv` says
  that a worker notes a cancellation only after it let go of its task.
  `StealInv` says that a covering leftover still covers when the mark is made,
  which is what lets a marked worker forget its rest. `PrefixWritten` ties
  progress to data, and makes every pair that is not torn a true claim. For `CompleteUnlessHoleProne`, `LostInv` adds that bytes are
  lost only in a hole-prone scenario. `SuccessAccounted` follows at the return
  because by then nobody holds anything.
* Ownership. `OwnInv` adds to `NoDoubleWork` that a run without stealing never
  has a monitor. Work then moves in three ways only, each with its lemma: the
  head of the queue is taken, a worker puts back what it stops holding, or
  somebody holds less than before.
* `WorkerState`. The invariant ties `taskGen`, the owner of the counter and
  the worker's place together (`OwnerInv`), and says of a plan that it is fresh
  for as long as `taskGen` has not moved on (`PlanInv`).
* `TaskQueue`. `QueueTypeOK` is inductive: tail is count slots behind head.
  `Reads` is what `Pop` would return from a slot on; `WrittenFacts` says that a
  batch written behind the tasks appends to it, `CopyFacts` that `growForced`
  copies just that, in one piece or two. `Wraps` says of an index that went
  round at most once what its remainder is, which is all the proof knows of
  `%`. That the doubling loop ends with room enough is `DoubledFacts`.
* `ResumeAccumulator`. The invariant is `TypeOK` with the sidecar `Apart`; the
  work is in what the loops compute. `FoldExists` turns a fold of the community
  modules into a sequence of intermediate results, one per turn, and each loop
  has a statement of what holds after `n` turns: `MergedUpTo` (the bytes of the
  first `n` ranges, merged), `CutUpTo`, `GapsUpTo`, `SplitUpTo`, `SeedsUpTo`,
  with a lemma for one turn (`MergeTurn`, `CutTurn`, `SkipTurn`,
  `SplitOneMore`, `SeedTurn`). The loop of `dropCompletedOverlapping` overwrites
  what it reads, so it has a weaker one: whatever the array holds lies inside
  the claims (`Inside`), and whatever was kept has no bad byte (`Clean`).
  `SplitIsBounded` and `SeedsAreExact` hold in every state of the right types,
  not only for compact accumulators.
* `Lifecycle`. `Backed` says that whatever sidecar, pair or accumulator claim is
  in the file if there is a file, or else noted in `unbacked`; `Progress` says what the run knows of the file
  at each place, such as its length. The step that needs most is
  `resolveResume`, where claims may outlive the file until `StaleFile` drops
  them. For `FirstRunPure`, `OneVersion` says that without a manifest nothing
  is skipped in the first run and what is fetched or finalized is the current
  mirror's own, because a sidecar of this run carries an earlier URL.
* `IdleBody`. `Refs` says which of the caller, the request channel and the
  helper may refer to one buffer at each place. `BufferOwned` alone is not
  inductive: it does not say that an answered read has no helper on it. `Flow`
  adds for the order that while `pumpBody` reads no abandoned read is left and
  at most the next chunk is on its way.
* `RateLimiter`. `Earned` says that tokens that can be had, and those a sleeper
  has slept for, are not yet in the meter, and who holds the mutex, which is the
  half of `TypeOK` (`MutexOfSleeper`) that is not inductive alone.
* `SidecarFile`. `Sound` says that a file with the sidecar's name is synced and
  which file the temporary name has at each place; `Backed` that claims, of pairs
  too, are written or noted in `unbacked` as long as the machine did not crash. The refinement maps each step
  to `Put`, `Remove`, `Persist`, `Crash` or a stutter.
* `Batch`. `HitKept` follows a hit from the probe through the channel to the
  verdict; `BatchInv` says that the URLs before the one at hand are settled and
  summed up in the exit code, and those after it untouched.

The provers have no rule of induction for a formula. `UpTo` does without: the
indices at which a statement holds form a *set*, and if a number up to `N` were
missing from it, `<` on the naturals would give a least one.

The proofs of `WorkerState` and `TaskQueue`, the state that workers share, are
in one module, which is why `TaskQueue` has `QueueInit`, `QueueNext`,
`QueueSpec` and `QueueTypeOK`.

The assumptions are the `ASSUME`s of the modules: positive sizes, seeds that
cover what is not done and (for `SoleOwner`) do not overlap, both of which
`SeedsAreExact` proves of `seedQueue`, types of the constants, and that
`minSeedChunk` (1 MiB) is an int64.

Only model-checked: all liveness (`Termination`, `CleanSuccess`,
`StalledReadEnds`, `HelperEnds`, `Served`, `CancelledLeaves`, `Ends`), which the
prover does not do. Every invariant and every refinement that a passing run
checks is also proved.

## 5. Not modelled

Hashing, parsing of headers, manifests, checksum files and flags; output names,
address policy and socket options; the numbers the optimizer picks; the
progress display; the benchmark server. They compute values from values, or
only print. System calls are external, and `mmap` stands for the same writes.
A wrong manifest or checksum file counts as content of its own.

Time is abstracted: the grace period and the speed threshold of a steal, the
throttle of saves, the idle timeout and the lengths of backoffs only decide
when something happens, and in the models it may happen at any time. Only
`RateLimiter` keeps time, because its property is about it.

`Discovery` has no `cancel()` of the probes that lost: a probe may end at any
time anyway. The sweep of `--manifest-out` and the local checksum files that
`resolveHash` reads are single outcomes in `Batch`.

## 6. Known behaviours

What the models allow because the code does it, and no run reports:

* *Ctrl-C during a retry's backoff drops the remainder* (`worker.go:258`). The
  worker notes a cancellation, but an empty queue then reads as success to
  `allTasksDone`. `SuccessAccounted` counts these bytes, `HoleProne` names the
  environment.
* *After Ctrl-C the forced save comes before the workers' last records*
  (`range.go:217`). Ranges recorded afterwards are in no sidecar and are
  fetched again. Claims are too few, never too many.
* *The sidecar of the first URL survives a run that overwrote the file from a
  mirror* (`downloader.go:428`), and the next run may add pieces of the first
  server's version to the mirror's. `FirstRunUnspliced` is about one run for
  that reason. A manifest or a hash finds it.
* *`--no-clobber` skips any file without a sidecar* (`download.go:113`): also
  the sparse file of a run that was killed before its first save, or whose last
  mirror failed.
* *A saved pair may be of two tasks* (`resume.go:60`, run `worker_pair`). The
  resume then skips bytes nobody fetched, and without a hash or a manifest a
  success may have a hole. The three models that know sidecars have this case,
  as `torn` or `unbacked`, and except it by name.
* *The exit codes are not those of the documentation.* `README.md:147-151` gives
  1 when a download failed, after which the batch goes on, and 130 for a signal.
  Timeouts of dialing and of waiting for headers match
  `context.DeadlineExceeded` and `runOne` takes them for a user's cancellation
  (`download.go:147-156`), so one that is the last error gives "interrupted",
  130 and the end of the batch without a signal. Conversely, Ctrl-C during the
  discovery of a checksum fails that URL, with 1 if it was the last; otherwise
  the next one notices the signal. `ExitAccounts` states what the code does, and
  is no claim that the documentation holds.
* *A body that is drained can hang the download* (`mirror.go:22-25`).
  `drainAndClose` reads up to 32 KiB of a refused answer (`worker.go:306-340`) or
  of a probe's (`mirror.go:79`) with no idle timeout, and the client's `Timeout`
  is 0: a server that sends the headers and stalls holds the worker, and so the
  supervisor, until Ctrl-C. `Termination` and `Ends` except it; that Ctrl-C then
  ends everything they check.
* *A found checksum may be missed* (`cmd/gofetch/sidecar.go:169`) if the last
  probe ends before the caller selects: then "none" and the hit are both ready.
  `HitWins` names this case by `late`. Probes that lost may still run beside
  the next URL.
* *"partial progress saved" is printed whether or not there is a sidecar*, and
  a failed verification does not fail over to a mirror.
* *The backoff's shift runs out of bits* (`optimizer.go:89`): 100 ms shifted by
  56 or more is zero, neither above the cap nor negative, so from then on
  retries do not wait. `--max-retries` up to 100 allows it. The budget still
  bounds them.
* *A manifest check does not look at the file's length* (`manifest.go:205`): a
  longer mirror file whose beginning matches passes, and `NoLastingCorruption`
  speaks of pieces as far as the manifest reaches. For the same reason one run
  may splice: a mirror of unknown size sets the total to 0
  (`downloader.go:366`), so that between two mirrors whose sizes differ nothing
  is wiped, and with a manifest loaded `resolveResume` keeps the progress. If
  the third mirror's file is the longer one, its end is never checked.
  `Reached` excepts this from `FirstRunUnspliced`; the instance has such servers.
* *After a power failure an older sidecar may claim bytes that never reached
  the disk*: a save syncs the sidecar and not the data. Documentation promises
  resumption after kills only; `SuccessDurable` excepts this case. A cleared
  sidecar may come back, as `clearResume` does not sync the directory, and a
  directory that cannot be opened is not synced, without an error.
* *A rate-limited download has no monitor*, and a read whose sleep Ctrl-C cut
  short is not paid for.
* *finalize also runs after a mirror succeeded*, against its comment
  (`finalize.go:80`), and then saves the trimmed sidecar under the first URL.
  `NoLastingCorruption` holds all the same.

## 7. Plan

Done, in this order: `RangeEngine`, `WorkerState`, `TaskQueue`/`Fifo`,
`RangeAlgebra`/`ResumeAccumulator`/`ClaimSet`, `Lifecycle`, `IdleBody`,
`RateLimiter`, `SidecarFile`/`AtomicFile`, `Discovery`/`Batch`, and the proofs
of section 4.

What could be added:

1. That `RangeEngine` implements the step that `Lifecycle` makes of it, outside
   the hole-prone environments, as a refinement.
2. A second `Download` on one `Downloader`, should the package be used as a
   library, which the command line does not do.
