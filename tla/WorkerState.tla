---- MODULE WorkerState ----
(***************************************************************************)
(* The atomics of one workerState (internal/fetch/worker.go), one load or  *)
(* store at a time: the worker that runs task after task, the monitor that *)
(* plans a steal from it and the saver that puts its task in a sidecar.    *)
(*                                                                         *)
(* A task is known by its number, a range by how many bytes of it are      *)
(* meant.  startedAt and stealFlag are left out: no other field is read    *)
(* relative to them, and module RangeEngine has the mark.                  *)
(***************************************************************************)
EXTENDS Integers, Sequences

CONSTANT TaskLens   \* the lengths of the tasks this worker pops, in order

ASSUME LensAssumption == TaskLens \in Seq(Nat \ {0}) /\ TaskLens # <<>>

TaskIds == 1..Len(TaskLens)
None == 0           \* a nil pointer

VARIABLES
    pc,             \* the worker: between tasks, inside reset(), or in runTask
    task,           \* the task it popped last
    curTask, bytesDone, taskGen, cancelFn,   \* the fields of workerState
    written,        \* history: how much of each task is in the file
    owner,          \* history: the task whose progress bytesDone counts
    mon,            \* the monitor's place and locals in stealPlan
    claimed,        \* the tasks whose cancel function the monitor has called
    sav,            \* the saver's place and locals in saveResume
    sidecar         \* the in-progress pair of the last sidecar

workerVars == <<pc, task, curTask, bytesDone, taskGen, cancelFn, written, owner>>
vars == <<workerVars, mon, claimed, sav, sidecar>>

IdleMonitor == [at |-> "idle", gen |-> 0, done |-> 0, of |-> None, cancel |-> None]
IdleSaver == [at |-> "idle", task |-> None, gen |-> 0, done |-> 0]
NoPair == [task |-> None, done |-> 0]

Init ==
    /\ pc = "loop" /\ task = 0
    /\ curTask = None /\ bytesDone = 0 /\ taskGen = 0 /\ cancelFn = None
    /\ written = [t \in TaskIds |-> 0] /\ owner = None
    /\ mon = IdleMonitor /\ claimed = {}
    /\ sav = IdleSaver /\ sidecar = NoPair

----
(* The worker: reset() stores curTask, clears bytesDone, then bumps taskGen. *)

StoreTask ==
    /\ pc = "loop"
    /\ task < Len(TaskLens)
    /\ task' = task + 1
    /\ curTask' = task + 1
    /\ pc' = "stored"
    /\ UNCHANGED <<bytesDone, taskGen, cancelFn, written, owner, mon, claimed, sav, sidecar>>

\* Mutation of Reset: taskGen is bumped before bytesDone is cleared.
ResetBumpFirst ==
    /\ \/ /\ pc = "stored" /\ pc' = "cleared"
          /\ taskGen' = taskGen + 1
          /\ UNCHANGED <<bytesDone, owner>>
       \/ /\ pc = "cleared" /\ pc' = "reset"
          /\ bytesDone' = 0 /\ owner' = task
          /\ UNCHANGED taskGen
    /\ UNCHANGED <<task, curTask, cancelFn, written, mon, claimed, sav, sidecar>>

Reset ==
    /\ \/ /\ pc = "stored" /\ pc' = "cleared"
          /\ bytesDone' = 0 /\ owner' = task
          /\ UNCHANGED taskGen
       \/ /\ pc = "cleared" /\ pc' = "reset"
          /\ taskGen' = taskGen + 1
          /\ UNCHANGED <<bytesDone, owner>>
    /\ UNCHANGED <<task, curTask, cancelFn, written, mon, claimed, sav, sidecar>>

\* ws.cancelFn.Store(&cancel)
StoreCancel ==
    /\ pc = "reset"
    /\ cancelFn' = task
    /\ pc' = "run"
    /\ UNCHANGED <<task, curTask, bytesDone, taskGen, written, owner, mon, claimed, sav,
                   sidecar>>

\* Mutation of Write: the read is not clamped to the range.
WritePastEnd ==
    /\ pc = "run"
    /\ written' = [written EXCEPT ![task] = bytesDone + 1]
    /\ pc' = "wrote"
    /\ UNCHANGED <<task, curTask, bytesDone, taskGen, cancelFn, owner, mon, claimed, sav,
                   sidecar>>

\* pumpBody: the bytes are in the file before bytesDone counts them.
Write ==
    /\ pc = "run"
    /\ bytesDone < TaskLens[task]
    /\ written' = [written EXCEPT ![task] = bytesDone + 1]
    /\ pc' = "wrote"
    /\ UNCHANGED <<task, curTask, bytesDone, taskGen, cancelFn, owner, mon, claimed, sav,
                   sidecar>>

Publish ==
    /\ pc = "wrote"
    /\ bytesDone' = bytesDone + 1
    /\ pc' = "run"
    /\ UNCHANGED <<task, curTask, taskGen, cancelFn, written, owner, mon, claimed, sav,
                   sidecar>>

\* runTask returns, finished or not: the deferred cancelFn.Store(nil).
EndTask ==
    /\ pc = "run"
    /\ cancelFn' = None
    /\ pc' = "loop"
    /\ UNCHANGED <<task, curTask, bytesDone, taskGen, written, owner, mon, claimed, sav,
                   sidecar>>

Worker ==
    StoreTask \/ Reset \/ StoreCancel \/ Write \/ Publish \/ EndTask

----
(* The monitor: stealPlan, from its first load of taskGen. *)

\* Any of stealPlan's tests fails, or the steal is over.
GiveUp ==
    /\ mon.at # "idle"
    /\ mon' = IdleMonitor
    /\ UNCHANGED <<workerVars, claimed, sav, sidecar>>

PlanGen ==
    /\ mon.at = "idle"
    /\ curTask # None
    /\ mon' = [mon EXCEPT !.at = "gen", !.gen = taskGen]
    /\ UNCHANGED <<workerVars, claimed, sav, sidecar>>

PlanDone ==
    /\ mon.at = "gen"
    /\ mon' = [mon EXCEPT !.at = "done", !.done = bytesDone, !.of = owner]
    /\ UNCHANGED <<workerVars, claimed, sav, sidecar>>

PlanCancel ==
    /\ mon.at = "done"
    /\ mon.done >= 1
    /\ cancelFn # None
    /\ mon' = [mon EXCEPT !.at = "cancel"]
    /\ UNCHANGED <<workerVars, claimed, sav, sidecar>>

PlanRecheck ==
    /\ mon.at = "cancel"
    /\ taskGen = mon.gen
    /\ mon' = [mon EXCEPT !.at = "checked"]
    /\ UNCHANGED <<workerVars, claimed, sav, sidecar>>

LoadCancel ==
    /\ mon.at = "checked"
    /\ cancelFn # None
    /\ mon' = [mon EXCEPT !.at = "loaded", !.cancel = cancelFn]
    /\ UNCHANGED <<workerVars, claimed, sav, sidecar>>

\* Mutation of ClaimCancel: a store of nil instead of the compare-and-swap.
ClaimBlindly ==
    /\ mon.at = "loaded"
    /\ cancelFn' = None
    /\ claimed' = claimed \cup {mon.cancel}
    /\ mon' = IdleMonitor
    /\ UNCHANGED <<pc, task, curTask, bytesDone, taskGen, written, owner, sav, sidecar>>

\* CompareAndSwap(cfPtr, nil), then cancel().
ClaimCancel ==
    /\ mon.at = "loaded"
    /\ cancelFn = mon.cancel
    /\ cancelFn' = None
    /\ claimed' = claimed \cup {mon.cancel}
    /\ mon' = IdleMonitor
    /\ UNCHANGED <<pc, task, curTask, bytesDone, taskGen, written, owner, sav, sidecar>>

Monitor ==
    \/ GiveUp \/ PlanGen \/ PlanDone \/ PlanCancel \/ PlanRecheck
    \/ LoadCancel \/ ClaimCancel

----
(* The saver: saveResume's look at this worker. *)

SaveTask ==
    /\ sav.at = "idle"
    /\ curTask # None
    /\ sav' = [sav EXCEPT !.at = "task", !.task = curTask]
    /\ UNCHANGED <<workerVars, mon, claimed, sidecar>>

SaveGen ==
    /\ sav.at = "task"
    /\ sav' = [sav EXCEPT !.at = "gen", !.gen = taskGen]
    /\ UNCHANGED <<workerVars, mon, claimed, sidecar>>

SaveDone ==
    /\ sav.at = "gen"
    /\ sav' = [sav EXCEPT !.at = "done", !.done = bytesDone]
    /\ UNCHANGED <<workerVars, mon, claimed, sidecar>>

\* The re-check and the progress decide whether the pair is persisted.
SavePair ==
    /\ sav.at = "done"
    /\ sidecar' = IF taskGen = sav.gen /\ sav.done > 0
                  THEN [task |-> sav.task, done |-> sav.done] ELSE NoPair
    /\ sav' = IdleSaver
    /\ UNCHANGED <<workerVars, mon, claimed>>

Saver == SaveTask \/ SaveGen \/ SaveDone \/ SavePair

Next == Worker \/ Monitor \/ Saver

Spec == Init /\ [][Next]_vars

----
(* Correctness. *)

MaybeTask == TaskIds \cup {None}

\* Types of the atomics and of the locals of their readers.
TypeOK ==
    /\ pc \in {"loop", "stored", "cleared", "reset", "run", "wrote"}
    /\ task \in MaybeTask /\ curTask = task /\ cancelFn \in MaybeTask /\ owner \in MaybeTask
    /\ bytesDone \in Nat /\ taskGen \in Nat
    /\ written \in [TaskIds -> Nat] /\ \A t \in TaskIds : written[t] <= TaskLens[t]
    /\ mon \in [at: {"idle", "gen", "done", "cancel", "checked", "loaded"}, gen: Nat,
                done: Nat, of: MaybeTask, cancel: MaybeTask]
    /\ claimed \subseteq TaskIds
    /\ sav \in [at: {"idle", "task", "gen", "done"}, task: MaybeTask, gen: Nat, done: Nat]
    /\ sidecar \in [task: MaybeTask, done: Nat]

\* A progress that passes the monitor's tests belongs to the generation loaded
\* before it: a stale bytesDone is never paired with a new taskGen (reset,
\* stealPlan).  Generation g is the worker's g-th task.
ProgressMatchesGen ==
    mon.at \in {"checked", "loaded"} => mon.of = mon.gen /\ mon.done <= written[mon.gen]

\* A steal takes the cancel function of the task it loaded it for and no other:
\* a running task that was not claimed can still be cancelled (stealPlan's
\* compare-and-swap against runTask's stores).
CancelKept == pc \in {"run", "wrote"} /\ task \notin claimed => cancelFn = task

\* The re-check of taskGen makes the saved pair true: that much of that task
\* is in the file (saveResume).
SavedPairTrue == sidecar # NoPair => sidecar.done <= written[sidecar.task]
====
