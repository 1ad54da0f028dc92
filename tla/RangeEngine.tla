---- MODULE RangeEngine ----
(***************************************************************************)
(* One call of rangeDownload (internal/fetch/range.go): the workers, the   *)
(* work-stealing monitor, the goroutine that waits for both, and the       *)
(* supervisor's select loop.                                               *)
(*                                                                         *)
(* A step is the code between two points where another goroutine can see a *)
(* difference.  The unit of data ("byte") is what one body.Read delivers.  *)
(* Time is abstracted: every timer and ticker may fire at any moment.      *)
(* stealPlan is three steps: it loads the task, later the progress, later  *)
(* it claims the cancel function.  That no finer interleaving matters to   *)
(* it is the business of module WorkerState.  A save is one step, with the *)
(* outcomes its loads allow while the workers move on: a running task with *)
(* its progress, or the halves of two tasks of one worker.                 *)
(***************************************************************************)
EXTENDS Integers, Sequences

CONSTANTS
    NumWorkers,   \* d.autoConfig.Workers
    Size,         \* total: the file is bytes 0 .. Size-1
    Seeds,        \* the tasks seedQueue(total, completed) puts on the queue
    Done0,        \* the bytes already on disk when the run resumes
    RetryMax,     \* d.autoConfig.RetryMax
    MinChunk,     \* stealMinChunk
    Resume,       \* d.resumePath != ""
    Scenarios     \* the configurations and environments of a run

Workers == 1..NumWorkers
Bytes == 0..(Size - 1)

\* Task{Start, End} is an inclusive range; NoTask is the empty one.
Tasks == {t \in [Start: Bytes, End: Bytes] : t.Start <= t.End}
NoTask == [Start |-> 0, End |-> -1]
TaskLen(t) == t.End - t.Start + 1
BytesOf(t) == t.Start..t.End

\* What the network may do besides answering: a transient error, a retryable
\* HTTP status, a 200 instead of a 206, any other fatal error, bytes that fail
\* their manifest hash, the body of an error answer that never ends.
FaultKinds == {"transient", "status", "norange", "fatal", "corrupt", "stall"}

\* stealing is FALSE under --limit-rate (range.go starts no monitor).
Scenario == [stealing: BOOLEAN, faults: SUBSET FaultKinds, cancellable: BOOLEAN]

ASSUME SizeAssumption == NumWorkers \in Nat \ {0} /\ Size \in Nat \ {0}
ASSUME TuningAssumption ==
    RetryMax \in Nat /\ MinChunk \in Nat \ {0} /\ Resume \in BOOLEAN
ASSUME ScenarioAssumption == Scenarios \subseteq Scenario
\* What seedQueue promises; MCRangeEngine computes Seeds with module
\* RangeAlgebra, where the promise is checked.
ASSUME SeedsAssumption ==
    /\ Done0 \subseteq Bytes
    /\ Seeds \in Seq(Tasks)
    /\ \A b \in Bytes \ Done0 : \E i \in 1..Len(Seeds) : b \in BytesOf(Seeds[i])
ASSUME SeedsDisjoint ==
    \A i, j \in 1..Len(Seeds) : i # j => BytesOf(Seeds[i]) \cap BytesOf(Seeds[j]) = {}

Errors == {"none", "cancel", "norange", "real"}

VARIABLES
    env,            \* the Scenario of this run; never changes
    ctxDone,        \* ctx.Err() != nil: Ctrl-C or a deadline
    queue,          \* the FIFO of tasks (module TaskQueue)
    pc,             \* where each worker is in workerLoop / runTask
    curTask, bytesDone, stealFlag, errVal,   \* the fields of workerState
    cancelFn,       \* "nil", "set", or "claimed": swapped to nil by stealPlan
    cancelled,      \* the monitor called this runTask's cancel
    attempt,        \* runTask's loop counter
    retryCount, retryProgress,               \* the Downloader's maps
    mon, victim, planned, leftover,          \* the monitor goroutine
    sup, fully, drainTask,                   \* the goroutine that waits
    main, result,                            \* the supervisor's select loop
    written,        \* bytes that are in the output file
    completed,      \* bytes d.completed claims
    sidecar,        \* of the saved sidecar: the bytes a resume from it would
                    \* skip that were not in the file, and whether it is torn
    before,         \* history: the task and progress each worker's reset()
                    \* replaced, for the save that may have loaded them
    covers,         \* history: the claimed steal covers the rest of the task
    lost            \* history: bytes given up with nobody left to fetch them

workerVars == <<curTask, bytesDone, stealFlag, errVal, cancelFn, cancelled, attempt, covers>>
retryVars == <<retryCount, retryProgress>>
monVars == <<mon, victim, planned, leftover>>
supVars == <<sup, fully, drainTask>>
mainVars == <<main, result, sidecar, before>>
dataVars == <<written, completed, lost>>
vars == <<env, ctxDone, queue, pc, workerVars, retryVars, monVars, supVars,
          mainVars, dataVars>>

\* A worker between reset() and the return of runTask.
Running(w) == pc[w] \in {"request", "drain", "body"}

\* What is left of the worker's task after the bytes it has written.
Remaining(w) == [Start |-> curTask[w].Start + bytesDone[w], End |-> curTask[w].End]

\* The durable span recordWrittenPrefix commits.
Prefix(w) == curTask[w].Start..(curTask[w].Start + bytesDone[w] - 1)

\* recordCompleted is a no-op when resume is disabled.
Record(bytes) == completed' = IF Resume THEN completed \cup bytes ELSE completed

\* setErr: the first error wins.
SetErr(w, e) ==
    errVal' = IF errVal[w] = "none" THEN [errVal EXCEPT ![w] = e] ELSE errVal

\* No task was replaced since the last save.
NoneBefore == [w \in Workers |-> [task |-> NoTask, done |-> 0]]

RealError == \E w \in Workers : errVal[w] \notin {"none", "cancel"}

Init ==
    /\ env \in Scenarios
    /\ ctxDone = FALSE
    /\ queue = Seeds
    /\ pc = [w \in Workers |-> "loop"]
    /\ curTask = [w \in Workers |-> NoTask]
    /\ bytesDone = [w \in Workers |-> 0]
    /\ stealFlag = [w \in Workers |-> FALSE]
    /\ errVal = [w \in Workers |-> "none"]
    /\ cancelFn = [w \in Workers |-> "nil"]
    /\ cancelled = [w \in Workers |-> FALSE]
    /\ attempt = [w \in Workers |-> 0]
    /\ covers = [w \in Workers |-> FALSE]
    /\ retryCount = [t \in Tasks |-> 0]
    /\ retryProgress = [t \in Tasks |-> -1]
    /\ mon = IF env.stealing THEN "idle" ELSE "exited"
    /\ victim = 1
    /\ planned = NoTask /\ leftover = NoTask
    /\ sup = "workers" /\ fully = FALSE /\ drainTask = NoTask
    /\ main = "select" /\ result = "none"
    /\ written = Done0 /\ completed = Done0 /\ lost = {}
    /\ sidecar = [unfetched |-> {}, torn |-> FALSE]
    /\ before = NoneBefore

----
(* The worker: workerLoop, runTask, pumpBody, requeueUnfinished. *)

\* runTask before its first request: reset(), then the cancel function.
StartTask(w, t) ==
    /\ before' = [before EXCEPT ![w] = [task |-> curTask[w], done |-> bytesDone[w]]]
    /\ curTask' = [curTask EXCEPT ![w] = t]
    /\ bytesDone' = [bytesDone EXCEPT ![w] = 0]
    /\ stealFlag' = [stealFlag EXCEPT ![w] = FALSE]
    /\ cancelFn' = [cancelFn EXCEPT ![w] = "set"]
    /\ cancelled' = [cancelled EXCEPT ![w] = FALSE]
    /\ attempt' = [attempt EXCEPT ![w] = 0]
    /\ covers' = [covers EXCEPT ![w] = FALSE]

\* workerLoop: pop a task and run it.
Take(w) ==
    /\ pc[w] = "loop"
    /\ ~ctxDone
    /\ queue # <<>>
    /\ StartTask(w, Head(queue))
    /\ queue' = Tail(queue)
    /\ pc' = [pc EXCEPT ![w] = "request"]
    /\ UNCHANGED <<env, ctxDone, errVal, retryVars, monVars, supVars, main, result,
                   sidecar, dataVars>>

\* workerLoop's first return: the context is done.
QuitCancelled(w) ==
    /\ pc[w] = "loop"
    /\ ctxDone
    /\ SetErr(w, "cancel")
    /\ pc' = [pc EXCEPT ![w] = "exited"]
    /\ UNCHANGED <<env, ctxDone, queue, curTask, bytesDone, stealFlag, cancelFn,
                   cancelled, attempt, covers, retryVars, monVars, supVars, mainVars, dataVars>>

\* workerLoop's second return: the queue is empty at this moment.
QuitIdle(w) ==
    /\ pc[w] = "loop"
    /\ ~ctxDone
    /\ queue = <<>>
    /\ pc' = [pc EXCEPT ![w] = "exited"]
    /\ UNCHANGED <<env, ctxDone, queue, workerVars, retryVars, monVars, supVars,
                   mainVars, dataVars>>

\* A 206 with the right headers arrives (also when a cancel races it).
Respond(w) ==
    /\ pc[w] = "request"
    /\ pc' = [pc EXCEPT ![w] = "body"]
    /\ UNCHANGED <<env, ctxDone, queue, workerVars, retryVars, monVars, supVars,
                   mainVars, dataVars>>

\* The headers of an answer that is refused arrive; drainAndClose reads its body.
\* Which error it was shows when that read is over, cancelled or not.
Refuse(w) ==
    /\ env.faults \cap {"status", "norange", "fatal"} # {}
    /\ pc[w] = "request"
    /\ pc' = [pc EXCEPT ![w] = "drain"]
    /\ UNCHANGED <<env, ctxDone, queue, workerVars, retryVars, monVars, supVars,
                   mainVars, dataVars>>

\* A retryable status: sleep Retry-After and ask again.
RetryStatus(w) ==
    /\ "status" \in env.faults
    /\ pc[w] = "drain"
    /\ attempt[w] < RetryMax
    /\ attempt' = [attempt EXCEPT ![w] = @ + 1]
    /\ pc' = [pc EXCEPT ![w] = "request"]
    /\ UNCHANGED <<env, ctxDone, queue, curTask, bytesDone, stealFlag, errVal,
                   cancelFn, cancelled, covers, retryVars, monVars, supVars, mainVars,
                   dataVars>>

\* A non-transient failure: setErr and return; the other workers go on.
Die(w, e) ==
    /\ SetErr(w, e)
    /\ cancelFn' = [cancelFn EXCEPT ![w] = "nil"]
    /\ pc' = [pc EXCEPT ![w] = "exited"]
    /\ UNCHANGED <<env, ctxDone, queue, curTask, bytesDone, stealFlag, cancelled,
                   attempt, covers, retryVars, monVars, supVars, mainVars, dataVars>>

\* Retryable statuses past the last attempt.
StatusExhausted(w) ==
    /\ "status" \in env.faults
    /\ pc[w] = "drain"
    /\ attempt[w] = RetryMax
    /\ Die(w, "real")

\* 200 OK: errRangeNotSupported.
NoRange(w) ==
    /\ "norange" \in env.faults
    /\ pc[w] = "drain"
    /\ Die(w, "norange")

\* Mutation of Fatal: a 416 counts as success.
FatalAsSuccess(w) ==
    /\ "fatal" \in env.faults
    /\ Running(w)
    /\ Record(BytesOf(curTask[w]))
    /\ cancelFn' = [cancelFn EXCEPT ![w] = "nil"]
    /\ pc' = [pc EXCEPT ![w] = "loop"]
    /\ UNCHANGED <<env, ctxDone, queue, curTask, bytesDone, stealFlag, errVal, cancelled,
                   attempt, covers, retryVars, monVars, supVars, mainVars, written, lost>>

\* 416, any other status, a Content-Range mismatch, a request that fails for
\* good, a failed write.
Fatal(w) ==
    /\ "fatal" \in env.faults
    /\ Running(w)
    /\ bytesDone[w] < TaskLen(curTask[w])
    /\ Die(w, "real")

\* Mutation of Read: the read is not clamped to the range.
ReadPastEnd(w) ==
    /\ pc[w] = "body"
    /\ written' = written \cup {curTask[w].Start + bytesDone[w]}
    /\ bytesDone' = [bytesDone EXCEPT ![w] = @ + 1]
    /\ UNCHANGED <<env, ctxDone, queue, pc, curTask, stealFlag, errVal, cancelFn,
                   cancelled, attempt, covers, retryVars, monVars, supVars, mainVars,
                   completed, lost>>

\* pumpBody: one read lands in the file, then bytesDone is published.
Read(w) ==
    /\ pc[w] = "body"
    /\ bytesDone[w] < TaskLen(curTask[w])
    /\ written' = written \cup {curTask[w].Start + bytesDone[w]}
    /\ bytesDone' = [bytesDone EXCEPT ![w] = @ + 1]
    /\ UNCHANGED <<env, ctxDone, queue, pc, curTask, stealFlag, errVal, cancelFn,
                   cancelled, attempt, covers, retryVars, monVars, supVars, mainVars,
                   completed, lost>>

\* The range is full: a trailing error or cancel is ignored, the task recorded.
\* stealFlag keeps its value.
Finish(w) ==
    /\ pc[w] = "body"
    /\ bytesDone[w] = TaskLen(curTask[w])
    /\ Record(BytesOf(curTask[w]))
    /\ cancelFn' = [cancelFn EXCEPT ![w] = "nil"]
    /\ pc' = [pc EXCEPT ![w] = "loop"]
    /\ UNCHANGED <<env, ctxDone, queue, curTask, bytesDone, stealFlag, errVal, cancelled,
                   attempt, covers, retryVars, monVars, supVars, mainVars, written, lost>>

\* verifyTaskRange fails.
Corrupt(w) ==
    /\ "corrupt" \in env.faults
    /\ pc[w] = "body"
    /\ bytesDone[w] = TaskLen(curTask[w])
    /\ Die(w, "real")

\* Mutation of RetriesUsed: no progress counts as progress (>= for >).
RetriesForgotten(w) ==
    LET t == curTask[w] IN
    IF bytesDone[w] >= retryProgress[t] /\ retryCount[t] > 0 THEN 0 ELSE retryCount[t]

\* requeueUnfinished's budget: a requeue that made progress since the last one
\* of the same task starts counting again.
RetriesUsed(w) ==
    LET t == curTask[w] IN
    IF /\ retryProgress[t] >= 0
       /\ bytesDone[w] > retryProgress[t]
       /\ retryCount[t] > 0
    THEN 0 ELSE retryCount[t]

BudgetSpent(w) == RetryMax > 0 /\ RetriesUsed(w) >= RetryMax

\* The task failed with Canceled or a transient error and the monitor has
\* marked it as stolen: keep the prefix, leave the rest to the monitor.  If the
\* plan or the mark was meant for another task of this worker, it is lost.
SkipStolen(w) ==
    /\ stealFlag[w]
    /\ stealFlag' = [stealFlag EXCEPT ![w] = FALSE]
    /\ Record(Prefix(w))
    /\ lost' = IF covers[w] THEN lost ELSE lost \cup BytesOf(Remaining(w))
    /\ pc' = [pc EXCEPT ![w] = "loop"]
    /\ UNCHANGED <<queue, errVal, retryVars>>

\* Mutation of Requeue: the rest is pushed before the backoff as well.
RequeueTwice(w) ==
    LET t == curTask[w] IN
    /\ ~stealFlag[w]
    /\ Record(Prefix(w))
    /\ retryProgress' = [retryProgress EXCEPT ![t] = bytesDone[w]]
    /\ ~BudgetSpent(w)
    /\ retryCount' = [retryCount EXCEPT ![t] = RetriesUsed(w) + 1]
    /\ queue' = Append(queue, Remaining(w))
    /\ pc' = [pc EXCEPT ![w] = "backoff"]
    /\ UNCHANGED <<errVal, stealFlag, lost>>

\* requeueUnfinished up to its select: record the prefix, charge the budget;
\* give up with an error, push at once when ctx is done, or back off.
Requeue(w) ==
    LET t == curTask[w]
        n == RetriesUsed(w)
    IN
    /\ ~stealFlag[w]
    /\ Record(Prefix(w))
    /\ retryProgress' = [retryProgress EXCEPT ![t] = bytesDone[w]]
    /\ \/ /\ BudgetSpent(w)
          /\ SetErr(w, "real")
          /\ pc' = [pc EXCEPT ![w] = "loop"]
          /\ UNCHANGED <<queue, retryCount>>
       \/ /\ ~BudgetSpent(w)
          /\ retryCount' = [retryCount EXCEPT ![t] = n + 1]
          /\ queue' = IF ctxDone THEN Append(queue, Remaining(w)) ELSE queue
          /\ pc' = [pc EXCEPT ![w] = IF ctxDone THEN "loop" ELSE "backoff"]
          /\ UNCHANGED errVal
    /\ UNCHANGED <<stealFlag, lost>>

\* The failure branches of workerLoop.  The deferred cancelFn.Store(nil) has
\* run by then.  A task whose range is full never fails (pumpBody), and a
\* refused answer is not a transient error.
Abandon(w) ==
    /\ Running(w)
    /\ pc[w] # "drain"
    /\ bytesDone[w] < TaskLen(curTask[w])
    /\ cancelFn' = [cancelFn EXCEPT ![w] = "nil"]
    /\ SkipStolen(w) \/ Requeue(w)
    /\ UNCHANGED <<env, ctxDone, curTask, bytesDone, cancelled, attempt, covers, monVars,
                   supVars, mainVars, written>>

\* Mutation of Interrupted: the cancel of a steal is taken for a fatal error.
InterruptedFatal(w) ==
    /\ ctxDone \/ cancelled[w]
    /\ Running(w)
    /\ bytesDone[w] < TaskLen(curTask[w])
    /\ Die(w, "real")

Interrupted(w) == (ctxDone \/ cancelled[w]) /\ Abandon(w)

\* A reset connection, an early EOF, an idle body.
Transient(w) == "transient" \in env.faults /\ Abandon(w)

\* requeueUnfinished's timer: the rest goes back on the queue.
BackoffElapsed(w) ==
    /\ pc[w] = "backoff"
    /\ queue' = Append(queue, Remaining(w))
    /\ pc' = [pc EXCEPT ![w] = "loop"]
    /\ UNCHANGED <<env, ctxDone, workerVars, retryVars, monVars, supVars, mainVars,
                   dataVars>>

\* requeueUnfinished's ctx.Done: an error is noted and the rest is not pushed.
BackoffCancelled(w) ==
    /\ pc[w] = "backoff"
    /\ ctxDone
    /\ SetErr(w, "cancel")
    /\ lost' = lost \cup BytesOf(Remaining(w))
    /\ pc' = [pc EXCEPT ![w] = "loop"]
    /\ UNCHANGED <<env, ctxDone, queue, curTask, bytesDone, stealFlag, cancelFn,
                   cancelled, attempt, covers, retryVars, monVars, supVars, mainVars, written,
                   completed>>

Worker(w) ==
    \/ Take(w) \/ QuitCancelled(w) \/ QuitIdle(w)
    \/ Respond(w) \/ Refuse(w) \/ RetryStatus(w) \/ StatusExhausted(w) \/ NoRange(w) \/ Fatal(w)
    \/ Read(w) \/ Finish(w) \/ Corrupt(w)
    \/ Interrupted(w) \/ Transient(w)
    \/ BackoffElapsed(w) \/ BackoffCancelled(w)

----
(* The monitor. *)

\* stealPlan loads the task of worker w and finds it long enough.
PlanTask(w) ==
    /\ mon = "idle"
    /\ curTask[w] # NoTask
    /\ TaskLen(curTask[w]) >= 2 * MinChunk
    /\ planned' = curTask[w]
    /\ victim' = w
    /\ mon' = "plan"
    /\ UNCHANGED <<env, ctxDone, queue, pc, workerVars, retryVars, leftover, supVars,
                   mainVars, dataVars>>

\* ... then its progress, and between two equal loads of taskGen also that it
\* has a cancel function.  The task loaded before may be an earlier one.
PlanProgress ==
    LET newStart == planned.Start + bytesDone[victim] IN
    /\ mon = "plan"
    /\ bytesDone[victim] >= 1
    /\ cancelFn[victim] = "set"
    /\ newStart + MinChunk <= planned.End
    /\ leftover' = [Start |-> newStart, End |-> planned.End]
    /\ mon' = "claim"
    /\ UNCHANGED <<env, ctxDone, queue, pc, workerVars, retryVars, victim, planned,
                   supVars, mainVars, dataVars>>

\* ... and claims whatever cancel function the worker has by now.
Claim ==
    /\ mon = "claim"
    /\ ~stealFlag[victim]
    /\ cancelFn[victim] = "set"
    /\ cancelFn' = [cancelFn EXCEPT ![victim] = "claimed"]
    /\ covers' = [covers EXCEPT ![victim] = BytesOf(Remaining(victim)) \subseteq BytesOf(leftover)]
    /\ planned' = NoTask
    /\ mon' = "mark"
    /\ UNCHANGED <<env, ctxDone, queue, pc, curTask, bytesDone, stealFlag, errVal,
                   cancelled, attempt, retryVars, victim, leftover, supVars, mainVars,
                   dataVars>>

\* One of stealPlan's tests fails (grace period and slowness among them).
PlanDrop ==
    /\ mon \in {"plan", "claim"}
    /\ planned' = NoTask /\ leftover' = NoTask
    /\ mon' = "idle"
    /\ UNCHANGED <<env, ctxDone, queue, pc, workerVars, retryVars, victim, supVars,
                   mainVars, dataVars>>

\* ws.stealFlag.Store(true)
Mark ==
    /\ mon = "mark"
    /\ stealFlag' = [stealFlag EXCEPT ![victim] = TRUE]
    /\ mon' = "cancel"
    /\ UNCHANGED <<env, ctxDone, queue, pc, curTask, bytesDone, errVal, cancelFn,
                   cancelled, attempt, covers, retryVars, victim, planned, leftover, supVars, mainVars,
                   dataVars>>

\* cancel(): without effect on a runTask that has returned.
CancelVictim ==
    /\ mon = "cancel"
    /\ cancelled' = IF cancelFn[victim] = "claimed"
                    THEN [cancelled EXCEPT ![victim] = TRUE] ELSE cancelled
    /\ mon' = "push"
    /\ UNCHANGED <<env, ctxDone, queue, pc, curTask, bytesDone, stealFlag, errVal,
                   cancelFn, attempt, covers, retryVars, victim, planned, leftover, supVars, mainVars,
                   dataVars>>

\* queue.Push(leftover)
PushLeftover ==
    /\ mon = "push"
    /\ queue' = Append(queue, leftover)
    /\ leftover' = NoTask
    /\ mon' = "idle"
    /\ UNCHANGED <<env, ctxDone, pc, workerVars, retryVars, victim, planned, supVars, mainVars,
                   dataVars>>

\* Mutation of MonitorExit: nobody calls stopMonitor.
MonitorExitOnCtx ==
    /\ mon = "idle"
    /\ ctxDone
    /\ mon' = "exited"
    /\ UNCHANGED <<env, ctxDone, queue, pc, workerVars, retryVars, victim, planned, leftover,
                   supVars, mainVars, dataVars>>

\* monitorCtx is done: ctx is, or stopMonitor was called.
MonitorExit ==
    /\ mon = "idle"
    /\ ctxDone \/ sup # "workers"
    /\ mon' = "exited"
    /\ UNCHANGED <<env, ctxDone, queue, pc, workerVars, retryVars, victim, planned, leftover,
                   supVars, mainVars, dataVars>>

MonitorStep ==
    PlanProgress \/ Claim \/ PlanDrop \/ Mark \/ CancelVictim \/ PushLeftover \/ MonitorExit

----
(* The goroutine that waits for the workers and the monitor. *)

\* workers.Wait(); stopMonitor()
WorkersDone ==
    /\ sup = "workers"
    /\ \A w \in Workers : pc[w] = "exited"
    /\ sup' = "monitor"
    /\ UNCHANGED <<env, ctxDone, queue, pc, workerVars, retryVars, monVars, fully,
                   drainTask, mainVars, dataVars>>

\* Mutation of AllTasksDone: a worker's error does not count.
QueueDrained == ~ctxDone \/ queue = <<>>

\* allTasksDone
AllTasksDone == (~ctxDone \/ queue = <<>>) /\ ~RealError

\* Mutation of Assess: monitorWG.Wait() is missing.
AssessEarly ==
    /\ sup = "monitor"
    /\ fully' = AllTasksDone
    /\ sup' = IF AllTasksDone THEN "drain" ELSE "announce"
    /\ UNCHANGED <<env, ctxDone, queue, pc, workerVars, retryVars, monVars, drainTask,
                   mainVars, dataVars>>

\* monitorWG.Wait(); fully := allTasksDone(...)
Assess ==
    /\ sup = "monitor"
    /\ mon = "exited"
    /\ fully' = AllTasksDone
    /\ sup' = IF AllTasksDone THEN "drain" ELSE "announce"
    /\ UNCHANGED <<env, ctxDone, queue, pc, workerVars, retryVars, monVars, drainTask,
                   mainVars, dataVars>>

\* drainLeftovers pops a task and runs it with ws = nil ...
DrainTake ==
    /\ sup = "drain"
    /\ drainTask = NoTask
    /\ queue # <<>>
    /\ drainTask' = Head(queue)
    /\ queue' = Tail(queue)
    /\ UNCHANGED <<env, ctxDone, pc, workerVars, retryVars, monVars, sup, fully,
                   mainVars, dataVars>>

\* ... to success ...
DrainOk ==
    /\ sup = "drain"
    /\ drainTask # NoTask
    /\ written' = written \cup BytesOf(drainTask)
    /\ Record(BytesOf(drainTask))
    /\ drainTask' = NoTask
    /\ UNCHANGED <<env, ctxDone, queue, pc, workerVars, retryVars, monVars, sup, fully,
                   mainVars, lost>>

\* ... or to any error, after part of the bytes: failAll, and no retry.
DrainFail ==
    /\ sup = "drain"
    /\ drainTask # NoTask
    /\ \E k \in 0..TaskLen(drainTask), e \in {"cancel", "norange", "real"} :
        /\ CASE e = "cancel" -> ctxDone /\ k < TaskLen(drainTask)
             [] e = "norange" -> "norange" \in env.faults /\ k = 0
             [] e = "real" -> \/ env.faults \ {"norange", "corrupt", "stall"} # {} /\ k < TaskLen(drainTask)
                              \/ "corrupt" \in env.faults /\ k = TaskLen(drainTask)
        /\ written' = written \cup drainTask.Start..(drainTask.Start + k - 1)
        /\ errVal' = [w \in Workers |-> IF errVal[w] = "none" THEN e ELSE errVal[w]]
    /\ drainTask' = NoTask
    /\ fully' = FALSE
    /\ sup' = "announce"
    /\ UNCHANGED <<env, ctxDone, queue, pc, curTask, bytesDone, stealFlag, cancelFn,
                   cancelled, attempt, covers, retryVars, monVars, mainVars, completed, lost>>

DrainEnd ==
    /\ sup = "drain"
    /\ drainTask = NoTask
    /\ queue = <<>>
    /\ sup' = "announce"
    /\ UNCHANGED <<env, ctxDone, queue, pc, workerVars, retryVars, monVars, fully,
                   drainTask, mainVars, dataVars>>

Supervisor == WorkersDone \/ Assess \/ DrainTake \/ DrainOk \/ DrainFail \/ DrainEnd

----
(* The select loop of rangeDownload. *)

\* The in-progress pairs saveResume may end up with.  It loads a worker's task,
\* then its progress between two equal loads of taskGen: both of one task, or,
\* torn by a reset(), the new task with the progress of the one before (taskGen
\* is bumped last) or the task before with the progress of the new one (taskGen
\* is loaded after the task).  There is none when no worker has progress.
Pair(t, k, torn) == [task |-> t, done |-> k, torn |-> torn]
TruePairs == {Pair(curTask[w], bytesDone[w], FALSE) : w \in Workers}
TornPairs ==
    {Pair(curTask[w], before[w].done, TRUE) : w \in Workers}
    \cup {Pair(before[w].task, bytesDone[w], TRUE) : w \in Workers}
Pairs == {Pair(NoTask, 0, FALSE)} \cup TruePairs \cup TornPairs

\* What resolveResume makes of a pair: a completed range, if it stays in its task.
Promoted(p) ==
    IF p.done \in 1..TaskLen(p.task)
    THEN p.task.Start..(p.task.Start + p.done - 1) ELSE {}

\* saveResume(snapshotCompleted(), states)
SaveResume ==
    /\ \E p \in Pairs :
        sidecar' = [unfetched |-> (completed \cup Promoted(p)) \ written,
                    torn |-> p.torn /\ Promoted(p) # {}]
    /\ before' = NoneBefore

\* saveC or the 5 s ticker (maybeSaveResume's throttle may also skip it).
Save ==
    /\ main = "select"
    /\ Resume
    /\ SaveResume
    /\ UNCHANGED <<env, ctxDone, queue, pc, workerVars, retryVars, monVars, supVars,
                   main, result, dataVars>>

\* ctx.Done: the forced save, then wait for the answer.
Signalled ==
    /\ main = "select"
    /\ ctxDone
    /\ IF Resume THEN SaveResume ELSE UNCHANGED <<sidecar, before>>
    /\ main' = "await"
    /\ UNCHANGED <<env, ctxDone, queue, pc, workerVars, retryVars, monVars, supVars,
                   result, dataVars>>

FirstFailed(w) ==
    errVal[w] # "none" /\ \A u \in Workers : u < w => errVal[u] = "none"

\* firstWorkerError(states, false), or ctx.Err() when no worker has one (nil
\* when ctx is not done either).
FailureResult ==
    IF \E w \in Workers : FirstFailed(w)
    THEN errVal[CHOOSE w \in Workers : FirstFailed(w)]
    ELSE IF ctxDone THEN "cancel" ELSE "ok"

\* <-done in either branch of the select: what rangeDownload returns.
Return ==
    /\ main \in {"select", "await"}
    /\ sup = "announce"
    /\ result' = IF fully THEN "ok"
                 ELSE IF main = "await" THEN "cancel" ELSE FailureResult
    /\ main' = "returned"
    /\ sup' = "gone"
    /\ UNCHANGED <<env, ctxDone, queue, pc, workerVars, retryVars, monVars, fully,
                   drainTask, sidecar, before, dataVars>>

\* Ctrl-C, or the caller's deadline.
CtxCancel ==
    /\ env.cancellable
    /\ ~ctxDone
    /\ main # "returned"
    /\ ctxDone' = TRUE
    /\ UNCHANGED <<env, queue, pc, workerVars, retryVars, monVars, supVars, mainVars,
                   dataVars>>

Returned == main = "returned" /\ UNCHANGED vars

Next ==
    \/ \E w \in Workers : Worker(w) \/ PlanTask(w)
    \/ MonitorStep
    \/ Supervisor
    \/ Save \/ Signalled \/ Return
    \/ CtxCancel
    \/ Returned

\* drainAndClose has no timeout: in the body of a refused answer that stalls,
\* only a cancel of the request's context ends it.  drainLeftovers makes its
\* requests with the supervisor's ctx.
WorkerHangs(w) ==
    "stall" \in env.faults /\ pc[w] = "drain" /\ ~ctxDone /\ ~cancelled[w]
DrainHangs == "stall" \in env.faults /\ drainTask # NoTask /\ ~ctxDone

\* Every goroutine keeps running.  A request ends with headers or a timeout
\* (ResponseHeaderTimeout), and so does a read of a body that is downloaded
\* (idleReadCloser); timers fire, and both ends of done are ready.  The
\* monitor's select takes a ready ctx.Done sooner or later, however often the
\* ticker is ready too.  Nothing is assumed of plans, saves, Ctrl-C or the
\* bodies of refused answers.
Fairness ==
    /\ \A w \in Workers : WF_vars(~WorkerHangs(w) /\ Worker(w))
    /\ WF_vars(MonitorStep)
    /\ SF_vars(MonitorExit)
    /\ WF_vars(~DrainHangs /\ Supervisor)
    /\ WF_vars(Signalled)
    /\ WF_vars(Return)

Spec == Init /\ [][Next]_vars /\ Fairness

----
(* Correctness. *)

WorkerTypes ==
    /\ pc \in [Workers -> {"loop", "request", "drain", "body", "backoff", "exited"}]
    /\ curTask \in [Workers -> Tasks \cup {NoTask}]
    /\ bytesDone \in [Workers -> 0..Size]
    /\ stealFlag \in [Workers -> BOOLEAN]
    /\ errVal \in [Workers -> Errors]
    /\ cancelFn \in [Workers -> {"nil", "set", "claimed"}]
    /\ cancelled \in [Workers -> BOOLEAN]
    /\ attempt \in [Workers -> 0..RetryMax]
    /\ covers \in [Workers -> BOOLEAN]

SharedTypes ==
    /\ env \in Scenarios /\ ctxDone \in BOOLEAN
    /\ queue \in Seq(Tasks)
    /\ retryCount \in [Tasks -> Nat] /\ retryProgress \in [Tasks -> -1..Size]

SupervisionTypes ==
    /\ mon \in {"idle", "plan", "claim", "mark", "cancel", "push", "exited"}
    /\ victim \in Workers
    /\ planned \in Tasks \cup {NoTask} /\ leftover \in Tasks \cup {NoTask}
    /\ sup \in {"workers", "monitor", "drain", "announce", "gone"}
    /\ fully \in BOOLEAN /\ drainTask \in Tasks \cup {NoTask}
    /\ main \in {"select", "await", "returned"}
    /\ result \in {"none", "ok"} \cup (Errors \ {"none"})

DataTypes ==
    /\ written \subseteq Bytes /\ completed \subseteq Bytes /\ lost \subseteq Bytes
    /\ sidecar \in [unfetched: SUBSET Bytes, torn: BOOLEAN]
    /\ before \in [Workers -> [task: Tasks \cup {NoTask}, done: 0..Size]]

\* A worker's progress never leaves its task (pumpBody clamps every read).
ProgressInTask == \A w \in Workers : bytesDone[w] <= TaskLen(curTask[w])

\* Type correctness of the engine's state; a progress is one of its task.
TypeOK ==
    WorkerTypes /\ SharedTypes /\ SupervisionTypes /\ DataTypes /\ ProgressInTask

\* What the accumulator claims is in the file.  So is what a resume from any
\* saved sidecar would skip, its recorded ranges and its in-progress pair, unless
\* the save loaded that pair across its worker's change of task: a torn pair is
\* the one way a sidecar claims a byte nobody fetched (recordCompleted, saveResume).
ClaimsWritten ==
    /\ completed \subseteq written
    /\ sidecar.unfetched # {} => sidecar.torn

\* rangeDownload returns nil only when every byte was fetched, or was given up
\* in one of two ways: a backoff cut short by ctx (requeueUnfinished), or a
\* steal that was planned for one task and marked another (monitor, stealPlan).
\* No other interleaving of retries, steals, errors and shutdown leaves a hole.
SuccessAccounted == result = "ok" => written \cup lost = Bytes

\* allTasksDone "reports whether every byte was written".
SuccessComplete == result = "ok" => written = Bytes

\* The environments in which a success may hide a hole.
HoleProne == env.stealing \/ ("transient" \in env.faults /\ env.cancellable)

\* In all others allTasksDone's promise holds: under --limit-rate, with faults
\* of every kind but no Ctrl-C, or with Ctrl-C but no transient error.
CompleteOtherwise == HoleProne \/ SuccessComplete

\* The tasks in somebody's hands: queued, running, backing off, pending in the
\* monitor, or being drained.
InHand(w) == Running(w) \/ pc[w] = "backoff"
Held == [w \in Workers |-> IF InHand(w) THEN Remaining(w) ELSE NoTask]

\* Without the monitor, no two goroutines hold the same byte: a byte is queued
\* at most once, or in one worker's hands, never both.  A retry pushes only
\* what its worker stops holding.
NoDoubleWork ==
    ~env.stealing =>
        /\ \A i, j \in 1..Len(queue) :
              i # j => BytesOf(queue[i]) \cap BytesOf(queue[j]) = {}
        /\ \A u, w \in Workers : u # w => BytesOf(Held[u]) \cap BytesOf(Held[w]) = {}
        /\ \A i \in 1..Len(queue), w \in Workers :
              BytesOf(queue[i]) \cap BytesOf(Held[w]) = {}

\* rangeDownload returns, however often the network fails: workers, monitor,
\* waiter and supervisor never wait for one another forever, and a task that
\* makes no progress spends its budget.  Where the body of a refused answer
\* stalls, it returns if Ctrl-C comes.
Termination ==
    "stall" \notin env.faults \/ ctxDone ~> main = "returned"

\* On a network without faults, and without Ctrl-C, the download succeeds:
\* stealing never starves or fails it.
CleanSuccess ==
    env.faults = {} /\ ~env.cancellable => <>(result = "ok")
====
