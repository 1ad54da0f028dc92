---- MODULE SharedStateProofs ----
(* What the workers share with the others: theorems about the atomics of a    *)
(* worker (WorkerState), for any tasks it runs, and about the work queue      *)
(* (TaskQueue), for any tasks, batches and capacities.                        *)
EXTENDS WorkerState, TaskQueue, SequenceTheorems, WellFoundedInduction, TLAPS

----
(* WorkerState *)

\* How far taskGen and the progress counter lag behind the popped task.
OwnerInv ==
    /\ pc = "loop" => taskGen = task /\ owner = task
    /\ pc = "stored" => taskGen = task - 1 /\ owner = task - 1
    /\ pc = "cleared" => taskGen = task - 1 /\ owner = task /\ bytesDone = 0
    /\ pc \in {"reset", "run", "wrote"} => taskGen = task /\ owner = task
    /\ pc # "loop" => task \in TaskIds

\* The bytes counted are in the file, one more of them between Write and Publish.
WrittenInv ==
    /\ owner # None => bytesDone <= written[owner]
    /\ owner = None => bytesDone = 0
    /\ pc \in {"cleared", "reset", "run"} => written[task] = bytesDone
    /\ pc = "wrote" => written[task] = bytesDone + 1
    /\ \A t \in TaskIds : t > owner => written[t] = 0

\* As long as taskGen has not moved on, the progress the monitor read is that of
\* the generation it read; once it has passed the re-check, this is settled.
Fresh == mon.of = mon.gen /\ mon.of \in TaskIds /\ mon.done <= written[mon.gen]
PlanInv ==
    /\ mon.at # "idle" => mon.gen <= taskGen
    /\ mon.at \in {"done", "cancel"} /\ mon.gen = taskGen /\ mon.done >= 1 => Fresh
    /\ mon.at \in {"cancel", "checked", "loaded"} => mon.done >= 1
    /\ mon.at \in {"checked", "loaded"} => Fresh
    /\ mon.at = "loaded" => mon.cancel # None

IInv == TypeOK /\ OwnerInv /\ WrittenInv /\ PlanInv /\ CancelKept

LEMMA Lens ==
    /\ Len(TaskLens) \in Nat \ {0}
    /\ \A t \in TaskIds : TaskLens[t] \in Nat \ {0}
    /\ None \notin TaskIds
    /\ TaskIds \subseteq Nat
  <1>1. Len(TaskLens) \in Nat
    BY LensAssumption
  <1>2. Len(TaskLens) # 0
    BY LensAssumption
  <1> QED BY <1>1, <1>2, LensAssumption DEF TaskIds, None

LEMMA InitInv == Init => IInv
  <1> SUFFICES ASSUME Init PROVE IInv
    OBVIOUS
  <1>1. TypeOK
    BY Lens DEF Init, TypeOK, MaybeTask, None, IdleMonitor, IdleSaver, NoPair
  <1>2. OwnerInv /\ WrittenInv /\ PlanInv /\ CancelKept
    BY DEF Init, OwnerInv, WrittenInv, PlanInv, CancelKept, IdleMonitor, None
  <1> QED BY <1>1, <1>2 DEF IInv

LEMMA WorkerStep == IInv /\ Worker => IInv'
  <1> SUFFICES ASSUME IInv, Worker PROVE IInv'
    OBVIOUS
  <1> USE Lens DEF None
  <1>t. TypeOK /\ OwnerInv /\ WrittenInv /\ PlanInv /\ CancelKept
    BY DEF IInv
  <1>1. CASE StoreTask
    <2>1. task + 1 \in TaskIds
      BY <1>t, <1>1 DEF StoreTask, TypeOK, MaybeTask, TaskIds
    <2>2. TypeOK'
      BY <1>t, <1>1, <2>1, SMTT(60) DEF StoreTask, TypeOK, MaybeTask
    <2>3. OwnerInv' /\ WrittenInv' /\ PlanInv' /\ CancelKept'
      BY <1>t, <1>1, <2>1
         DEF StoreTask, TypeOK, MaybeTask, OwnerInv, WrittenInv, PlanInv, Fresh, CancelKept
    <2> QED BY <2>2, <2>3 DEF IInv
  <1>2. CASE Reset
    <2>0. /\ task \in TaskIds /\ taskGen \in Nat /\ taskGen = task - 1
          /\ UNCHANGED <<task, curTask, cancelFn, written, mon, claimed, sav, sidecar>>
      BY <1>t, <1>2 DEF Reset, OwnerInv, TypeOK
    <2>1. CASE pc = "stored"
      <3>1. /\ pc' = "cleared" /\ bytesDone' = 0 /\ owner' = task /\ taskGen' = taskGen
            /\ owner = task - 1
        BY <1>t, <1>2, <2>1 DEF Reset, OwnerInv
      <3>2. TypeOK'
        BY <1>t, <2>0, <3>1 DEF TypeOK, MaybeTask
      <3>3. OwnerInv' /\ WrittenInv' /\ CancelKept'
        BY <1>t, <2>0, <2>1, <3>1 DEF TypeOK, OwnerInv, WrittenInv, CancelKept
      <3>4. PlanInv'
        BY <1>t, <2>0, <3>1 DEF PlanInv, Fresh
      <3> QED BY <3>2, <3>3, <3>4 DEF IInv
    <2>2. CASE pc = "cleared"
      <3>1. /\ pc' = "reset" /\ bytesDone' = bytesDone /\ owner' = owner
            /\ taskGen' = taskGen + 1 /\ owner = task
        BY <1>t, <1>2, <2>2 DEF Reset, OwnerInv
      <3>2. TypeOK'
        BY <1>t, <2>0, <3>1 DEF TypeOK, MaybeTask
      <3>3. OwnerInv' /\ WrittenInv' /\ CancelKept'
        BY <1>t, <2>0, <2>2, <3>1 DEF TypeOK, OwnerInv, WrittenInv, CancelKept
      <3>4. mon.gen \in Nat
        BY <1>t DEF TypeOK
      <3>5. PlanInv'
        BY <1>t, <2>0, <3>1, <3>4 DEF PlanInv, Fresh
      <3> QED BY <3>2, <3>3, <3>5 DEF IInv
    <2> QED BY <1>2, <2>1, <2>2 DEF Reset
  <1>3. CASE StoreCancel
    BY <1>t, <1>3
       DEF StoreCancel, IInv, TypeOK, MaybeTask, OwnerInv, WrittenInv, PlanInv, Fresh, CancelKept
  <1>4. CASE Write
    <2>0. /\ task \in TaskIds /\ owner = task /\ bytesDone \in Nat
          /\ written[task] = bytesDone /\ bytesDone < TaskLens[task]
          /\ written' = [written EXCEPT ![task] = bytesDone + 1]
          /\ pc' = "wrote" /\ UNCHANGED <<task, curTask, bytesDone, taskGen, cancelFn, owner>>
          /\ UNCHANGED <<mon, claimed, sav, sidecar>>
      BY <1>t, <1>4 DEF Write, OwnerInv, WrittenInv, TypeOK
    <2>1. \A t \in TaskIds : /\ written'[t] \in Nat /\ written'[t] <= TaskLens[t]
                             /\ written[t] <= written'[t]
      BY <1>t, <2>0, SMTT(60) DEF TypeOK
    <2>2. TypeOK'
      BY <1>t, <2>0, <2>1 DEF TypeOK
    <2>3. OwnerInv' /\ WrittenInv' /\ CancelKept'
      BY <1>t, <1>4, <2>0 DEF Write, TypeOK, OwnerInv, WrittenInv, CancelKept
    <2>4. Fresh => Fresh'
      BY <1>t, <2>0, <2>1 DEF TypeOK, Fresh
    <2>5. PlanInv'
      BY <1>t, <2>0, <2>4 DEF PlanInv
    <2> QED BY <2>2, <2>3, <2>5 DEF IInv
  <1>5. CASE Publish
    BY <1>t, <1>5
       DEF Publish, IInv, TypeOK, MaybeTask, OwnerInv, WrittenInv, PlanInv, Fresh, CancelKept
  <1>6. CASE EndTask
    BY <1>t, <1>6
       DEF EndTask, IInv, TypeOK, MaybeTask, OwnerInv, WrittenInv, PlanInv, Fresh, CancelKept
  <1> QED BY <1>1, <1>2, <1>3, <1>4, <1>5, <1>6 DEF Worker

LEMMA MonitorStep == IInv /\ Monitor => IInv'
  <1> SUFFICES ASSUME IInv, Monitor PROVE IInv'
    OBVIOUS
  <1> USE Lens DEF None
  <1>t. TypeOK /\ OwnerInv /\ WrittenInv /\ PlanInv /\ CancelKept
    BY DEF IInv
  \* The monitor's reads leave the worker alone.
  <1>r. ASSUME UNCHANGED <<workerVars, claimed, sav, sidecar>>, TypeOK', PlanInv'
        PROVE  IInv'
    BY <1>t, <1>r DEF IInv, OwnerInv, WrittenInv, CancelKept, workerVars
  <1>1. CASE GiveUp
    <2>1. TypeOK' /\ PlanInv'
      BY <1>t, <1>1 DEF GiveUp, IdleMonitor, TypeOK, MaybeTask, PlanInv, workerVars
    <2> QED BY <1>1, <1>r, <2>1 DEF GiveUp
  <1>2. CASE PlanGen
    <2>1. mon' = [mon EXCEPT !.at = "gen", !.gen = taskGen]
      BY <1>2 DEF PlanGen
    <2>2. TypeOK'
      BY <1>t, <1>2, <2>1 DEF PlanGen, TypeOK, workerVars
    <2>3. mon'.at = "gen" /\ mon'.gen = taskGen' /\ taskGen' \in Nat
      BY <1>t, <1>2, <2>1 DEF PlanGen, TypeOK, workerVars
    <2>4. PlanInv'
      BY <2>3 DEF PlanInv
    <2> QED BY <1>2, <1>r, <2>2, <2>4 DEF PlanGen
  <1>3. CASE PlanDone
    <2>1. mon' = [mon EXCEPT !.at = "done", !.done = bytesDone, !.of = owner]
      BY <1>3 DEF PlanDone
    <2>2. TypeOK'
      BY <1>t, <1>3 DEF PlanDone, TypeOK, workerVars
    <2>3. mon.gen = taskGen /\ bytesDone >= 1
          => owner = mon.gen /\ owner \in TaskIds /\ bytesDone <= written[owner]
      BY <1>t DEF OwnerInv, WrittenInv, TypeOK, MaybeTask
    <2>4. PlanInv'
      BY <1>t, <1>3, <2>1, <2>3 DEF PlanDone, TypeOK, PlanInv, Fresh, workerVars
    <2> QED BY <1>3, <1>r, <2>2, <2>4 DEF PlanDone
  <1>4. CASE PlanCancel
    <2>1. TypeOK' /\ PlanInv'
      BY <1>t, <1>4 DEF PlanCancel, TypeOK, PlanInv, Fresh, workerVars
    <2> QED BY <1>4, <1>r, <2>1 DEF PlanCancel
  <1>5. CASE PlanRecheck
    <2>1. TypeOK' /\ PlanInv'
      BY <1>t, <1>5 DEF PlanRecheck, TypeOK, PlanInv, Fresh, workerVars
    <2> QED BY <1>5, <1>r, <2>1 DEF PlanRecheck
  <1>6. CASE LoadCancel
    <2>1. TypeOK' /\ PlanInv'
      BY <1>t, <1>6 DEF LoadCancel, TypeOK, PlanInv, Fresh, workerVars
    <2> QED BY <1>6, <1>r, <2>1 DEF LoadCancel
  <1>7. CASE ClaimCancel
    <2>1. /\ mon.at = "loaded" /\ mon.cancel \in TaskIds /\ cancelFn = mon.cancel
          /\ cancelFn' = None /\ claimed' = claimed \cup {mon.cancel} /\ mon' = IdleMonitor
          /\ UNCHANGED <<pc, task, curTask, bytesDone, taskGen, written, owner, sav, sidecar>>
      BY <1>t, <1>7 DEF ClaimCancel, PlanInv, TypeOK, MaybeTask
    <2>2. TypeOK' /\ PlanInv'
      BY <1>t, <2>1 DEF IdleMonitor, TypeOK, MaybeTask, PlanInv
    <2>3. CancelKept'
      BY <1>t, <2>1 DEF CancelKept
    <2>4. OwnerInv' /\ WrittenInv'
      BY <1>t, <2>1 DEF OwnerInv, WrittenInv
    <2> QED BY <2>2, <2>3, <2>4 DEF IInv
  <1> QED BY <1>1, <1>2, <1>3, <1>4, <1>5, <1>6, <1>7 DEF Monitor

LEMMA SaverStep == IInv /\ (Saver \/ UNCHANGED vars) => IInv'
  <1> SUFFICES ASSUME IInv, Saver \/ UNCHANGED vars PROVE IInv'
    OBVIOUS
  <1>t. TypeOK /\ OwnerInv /\ WrittenInv /\ PlanInv /\ CancelKept
    BY DEF IInv
  <1>1. UNCHANGED <<workerVars, mon, claimed>>
    BY DEF Saver, SaveTask, SaveGen, SaveDone, SavePair, vars
  <1>2. TypeOK'
    <2>1. CASE SaveTask
      <3>1. curTask \in MaybeTask /\ sav' = [sav EXCEPT !.at = "task", !.task = curTask]
        BY <1>t, <2>1 DEF SaveTask, TypeOK
      <3>2. sav' \in [at: {"idle", "task", "gen", "done"}, task: MaybeTask, gen: Nat, done: Nat]
        BY <1>t, <3>1 DEF TypeOK
      <3>3. sidecar' = sidecar
        BY <2>1 DEF SaveTask
      <3> QED BY <1>t, <1>1, <3>2, <3>3 DEF workerVars, TypeOK
    <2>2. CASE SaveGen
      BY <1>t, <2>2 DEF SaveGen, workerVars, TypeOK
    <2>3. CASE SaveDone
      BY <1>t, <2>3 DEF SaveDone, workerVars, TypeOK
    <2>4. CASE SavePair
      BY <1>t, <2>4 DEF SavePair, workerVars, TypeOK, MaybeTask, IdleSaver, NoPair, None
    <2>5. CASE UNCHANGED vars
      BY <1>t, <2>5 DEF vars, workerVars, TypeOK
    <2> QED BY <2>1, <2>2, <2>3, <2>4, <2>5 DEF Saver
  <1> QED BY <1>t, <1>1, <1>2
          DEF IInv, OwnerInv, WrittenInv, PlanInv, Fresh, CancelKept, workerVars

LEMMA Inductive == Spec => []IInv
  <1>1. IInv /\ [Next]_vars => IInv'
    BY WorkerStep, MonitorStep, SaverStep DEF Next
  <1> QED BY InitInv, <1>1, PTL DEF Spec

\* Every variable keeps its type, whatever the tasks and however worker, monitor and
\* saver interleave (reset, runTask, stealPlan, saveResume).
THEOREM TypeCorrect == Spec => []TypeOK
  <1>1. IInv => TypeOK
    BY DEF IInv
  <1> QED BY <1>1, Inductive, PTL

\* A steal is never planned with the progress of another task than the one whose
\* generation was loaded: storing bytesDone before taskGen, and loading taskGen
\* before and after bytesDone, is enough (reset, stealPlan).
THEOREM StealPlanSound == Spec => []ProgressMatchesGen
  <1>1. IInv => ProgressMatchesGen
    BY DEF IInv, PlanInv, Fresh, ProgressMatchesGen
  <1> QED BY <1>1, Inductive, PTL

\* The compare-and-swap never takes away the cancel function of a task it was
\* not loaded from (stealPlan, runTask).
THEOREM CancelNeverClobbered == Spec => []CancelKept
  <1>1. IInv => CancelKept
    BY DEF IInv
  <1> QED BY <1>1, Inductive, PTL

----
(* TaskQueue *)

\* Induction up to a bound, for a set in place of a predicate.
LEMMA UpTo ==
    ASSUME NEW N \in Nat, NEW T, 0 \in T,
           \A n \in 1..N : n - 1 \in T => n \in T
    PROVE  \A n \in 0..N : n \in T
  <1> DEFINE Bad == (0..N) \ T
             R == OpToRel(<, Nat)
  <1> SUFFICES ASSUME Bad # {} PROVE FALSE
    OBVIOUS
  <1>1. PICK x \in Bad : \A y \in Bad : ~(<<y, x>> \in R)
    <2>1. IsWellFoundedOn(R, Nat)
      BY NatLessThanWellFounded DEF R
    <2>2. Bad \subseteq Nat
      OBVIOUS
    <2> HIDE DEF Bad, R
    <2> QED BY <2>1, <2>2, WFMin, Zenon
  <1>2. x \in 1..N /\ x - 1 \in Nat /\ x \in Nat
    OBVIOUS
  <1>3. x - 1 \in Bad
    BY <1>2
  <1>4. <<x - 1, x>> \in R
    BY <1>2 DEF OpToRel
  <1> QED BY <1>1, <1>3, <1>4

\* The remainder of an index that went round the ring at most once, or back.
Wraps(r, x, n) ==
    /\ r \in 0..(n - 1)
    /\ 0 <= x /\ x < n => r = x
    /\ n <= x /\ x < 2 * n => r = x - n
    /\ -n <= x /\ x < 0 => r = x + n

LEMMA Around ==
    ASSUME NEW n \in Nat \ {0}, NEW x \in Int
    PROVE  Wraps(x % n, x, n)
  <1> DEFINE q == x \div n
             r == x % n
  <1>1. q \in Int /\ r \in 0..(n - 1) /\ x = n * q + r
    OBVIOUS
  <1> HIDE DEF q, r
  <1>2. q >= 2 => n * q >= 2 * n
    BY <1>1
  <1>3. q <= -2 => n * q <= -(2 * n)
    BY <1>1
  <1>4. q \in {-1, 0, 1} \/ q >= 2 \/ q <= -2
    BY <1>1
  <1>5. /\ q = -1 => x = r - n
        /\ q = 0 => x = r
        /\ q = 1 => x = r + n
    BY <1>1
  <1>6. /\ 0 <= x /\ x < n => r = x
        /\ n <= x /\ x < 2 * n => r = x - n
        /\ -n <= x /\ x < 0 => r = x + n
    BY <1>1, <1>2, <1>3, <1>4, <1>5
  <1> QED BY <1>1, <1>6 DEF r, Wraps

\* The sizes that the doubling loop goes through, as a function of its turns.
DoubledBy(g, m, n, needed) ==
    /\ g \in [0..m -> Nat]
    /\ g[0] = n
    /\ \A turn \in 1..m :
          g[turn] = IF g[turn - 1] < needed THEN 2 * g[turn - 1] ELSE g[turn - 1]

LEMMA DoublingExists ==
    ASSUME NEW n \in Nat, NEW needed \in Nat
    PROVE  \E g : DoubledBy(g, needed, n, needed)
  <1> DEFINE T == {m \in 0..needed : \E g : DoubledBy(g, m, n, needed)}
  <1>1. 0 \in T
    <2> DEFINE g == [turn \in 0..0 |-> n]
    <2>1. g \in [0..0 -> Nat] /\ g[0] = n /\ 1..0 = {}
      OBVIOUS
    <2>2. DoubledBy(g, 0, n, needed)
      BY <2>1 DEF DoubledBy
    <2> HIDE DEF g
    <2>3. 0 \in 0..needed
      OBVIOUS
    <2> QED BY <2>2, <2>3
  <1>2. ASSUME NEW m \in 1..needed, m - 1 \in T PROVE m \in T
    <2>1. PICK f : DoubledBy(f, m - 1, n, needed)
      BY <1>2
    <2> DEFINE last == IF f[m - 1] < needed THEN 2 * f[m - 1] ELSE f[m - 1]
               g == [turn \in 0..m |-> IF turn = m THEN last ELSE f[turn]]
    <2>2. /\ f \in [0..(m - 1) -> Nat] /\ f[0] = n /\ m - 1 \in 0..(m - 1) /\ f[m - 1] \in Nat
          /\ \A turn \in 1..(m - 1) :
                f[turn] = IF f[turn - 1] < needed THEN 2 * f[turn - 1] ELSE f[turn - 1]
      BY <2>1 DEF DoubledBy
    <2>3. last \in Nat
      BY <2>2
    <2> HIDE DEF last
    <2>4. g \in [0..m -> Nat]
      BY <2>2, <2>3
    <2>5. g[0] = n /\ g[m] = last /\ \A turn \in 0..(m - 1) : g[turn] = f[turn]
      BY <2>2
    <2> HIDE DEF g
    <2>6. ASSUME NEW turn \in 1..m
          PROVE  g[turn] = IF g[turn - 1] < needed THEN 2 * g[turn - 1] ELSE g[turn - 1]
      <3>1. CASE turn = m
        <4>1. g[turn] = last /\ g[turn - 1] = f[m - 1]
          BY <2>2, <2>5, <3>1
        <4> QED BY <4>1 DEF last
      <3>2. CASE turn # m
        <4>1. turn \in 1..(m - 1) /\ turn \in 0..(m - 1) /\ turn - 1 \in 0..(m - 1)
          BY <3>2
        <4>2. g[turn] = f[turn] /\ g[turn - 1] = f[turn - 1]
          BY <2>5, <4>1
        <4>3. f[turn] = IF f[turn - 1] < needed THEN 2 * f[turn - 1] ELSE f[turn - 1]
          BY <2>2, <4>1
        <4> QED BY <4>2, <4>3, Zenon
      <3> QED BY <3>1, <3>2
    <2>7. DoubledBy(g, m, n, needed)
      BY <2>4, <2>5, <2>6 DEF DoubledBy
    <2> QED BY <2>7
  <1> HIDE DEF T
  <1>3. needed \in T
    BY <1>1, <1>2, UpTo
  <1> QED BY <1>3 DEF T

LEMMA DoublingIs ==
    ASSUME NEW n \in Nat, NEW needed \in Nat
    PROVE  \E g : DoubledBy(g, needed, n, needed) /\ DoubledTo(n, needed) = g[needed]
  <1> DEFINE Body(g) == [turn \in 0..needed |->
                           IF turn = 0 THEN n
                           ELSE IF g[turn - 1] < needed THEN 2 * g[turn - 1] ELSE g[turn - 1]]
             size == CHOOSE g : g = Body(g)
  <1>1. DoubledTo(n, needed) = size[needed]
    BY DEF DoubledTo
  <1>2. PICK g : DoubledBy(g, needed, n, needed)
    BY DoublingExists
  <1>3. g = Body(g)
    <2>1. /\ g \in [0..needed -> Nat] /\ g[0] = n
          /\ \A turn \in 1..needed :
                g[turn] = IF g[turn - 1] < needed THEN 2 * g[turn - 1] ELSE g[turn - 1]
      BY <1>2 DEF DoubledBy
    <2>2. \A turn \in 0..needed : turn = 0 \/ turn \in 1..needed
      OBVIOUS
    <2>3. \A turn \in 0..needed : g[turn] = Body(g)[turn]
      BY <2>1, <2>2
    <2>4. g = [turn \in 0..needed |-> g[turn]] /\ Body(g) = [turn \in 0..needed |-> Body(g)[turn]]
      BY <2>1
    <2> QED BY <2>3, <2>4
  <1>4. size = Body(size)
    <2> HIDE DEF Body
    <2> QED BY <1>3
  <1> HIDE DEF size
  <1>5. /\ DOMAIN size = 0..needed /\ size[0] = n
        /\ \A turn \in 1..needed :
              size[turn] = IF size[turn - 1] < needed THEN 2 * size[turn - 1] ELSE size[turn - 1]
    BY <1>4
  <1>6. \A turn \in 0..needed : size[turn] \in Nat
    <2> DEFINE T == {turn \in 0..needed : size[turn] \in Nat}
    <2>1. 0 \in T
      BY <1>5
    <2>2. \A m \in 1..needed : m - 1 \in T => m \in T
      BY <1>5, SMTT(60)
    <2> HIDE DEF T
    <2>3. \A m \in 0..needed : m \in T
      BY <2>1, <2>2, UpTo
    <2> QED BY <2>3 DEF T
  <1>7. size \in [0..needed -> Nat]
    BY <1>4, <1>6
  <1>8. DoubledBy(size, needed, n, needed)
    BY <1>5, <1>7 DEF DoubledBy
  <1> QED BY <1>1, <1>8

\* The doubled capacity is large enough.
LEMMA DoubledFacts ==
    ASSUME NEW n \in Nat \ {0}, NEW needed \in Nat
    PROVE  /\ DoubledTo(n, needed) \in Nat
           /\ DoubledTo(n, needed) >= needed /\ DoubledTo(n, needed) >= n
  <1>1. PICK g : DoubledBy(g, needed, n, needed) /\ DoubledTo(n, needed) = g[needed]
    BY DoublingIs
  <1>2. /\ g \in [0..needed -> Nat] /\ g[0] = n
        /\ \A turn \in 1..needed :
              g[turn] = IF g[turn - 1] < needed THEN 2 * g[turn - 1] ELSE g[turn - 1]
    BY <1>1 DEF DoubledBy
  <1> DEFINE T == {turn \in 0..needed : g[turn] >= n /\ (g[turn] >= needed \/ g[turn] >= n + turn)}
  <1>3. 0 \in T
    BY <1>2
  <1>4. ASSUME NEW m \in 1..needed, m - 1 \in T PROVE m \in T
    <2>1. /\ g[m - 1] \in Nat /\ g[m - 1] >= n
          /\ g[m - 1] >= needed \/ g[m - 1] >= n + (m - 1)
          /\ g[m] = IF g[m - 1] < needed THEN 2 * g[m - 1] ELSE g[m - 1]
      BY <1>2, <1>4
    <2>2. g[m] >= n /\ (g[m] >= needed \/ g[m] >= n + m)
      BY <2>1
    <2> QED BY <2>2
  <1> HIDE DEF T
  <1>5. needed \in T
    BY <1>3, <1>4, UpTo
  <1>6. g[needed] \in Nat /\ g[needed] >= n /\ (g[needed] >= needed \/ g[needed] >= n + needed)
    BY <1>2, <1>5 DEF T
  <1> QED BY <1>1, <1>6
\* m tasks, read from slot h on round the ring b.
Reads(b, h, m) == [i \in 1..m |-> b[((h + i - 1) % Len(b)) + 1]]

Reading(s, S, b, h, m) ==
    /\ s \in Seq(S) /\ Len(s) = m
    /\ \A i \in 1..m : s[i] = b[((h + i - 1) % Len(b)) + 1]

LEMMA ReadsSeq ==
    ASSUME NEW S, NEW b \in Seq(S), Len(b) >= 1, NEW h \in Nat, NEW m \in Nat
    PROVE  Reading(Reads(b, h, m), S, b, h, m)
  <1>1. Len(b) \in Nat \ {0}
    BY LenProperties
  <1>2. \A i \in 1..m : ((h + i - 1) % Len(b)) + 1 \in 1..Len(b)
    <2> SUFFICES ASSUME NEW i \in 1..m PROVE ((h + i - 1) % Len(b)) + 1 \in 1..Len(b)
      OBVIOUS
    <2>1. h + i - 1 \in Int
      OBVIOUS
    <2>2. (h + i - 1) % Len(b) \in 0..(Len(b) - 1)
      BY <1>1, <2>1, Around, Zenon DEF Wraps
    <2> QED BY <1>1, <2>2
  <1>3. \A i \in 1..m : b[((h + i - 1) % Len(b)) + 1] \in S
    BY <1>2, ElementOfSeq
  <1>4. Reads(b, h, m) \in [1..m -> S]
    BY <1>3 DEF Reads
  <1> QED BY <1>4 DEF Reads, Reading

\* Two sequences of the same length that agree everywhere.
LEMMA SameSeq ==
    ASSUME NEW S, NEW R, NEW s \in Seq(S), NEW r \in Seq(R), Len(s) = Len(r),
           \A i \in 1..Len(s) : s[i] = r[i]
    PROVE  s = r
  <1>1. PICK n \in Nat : /\ n = Len(s) /\ DOMAIN s = 1..n /\ DOMAIN r = 1..n
                         /\ s = [i \in 1..n |-> s[i]] /\ r = [i \in 1..n |-> r[i]]
    BY LenProperties
  <1> QED BY <1>1

\* A batch written behind the m tasks from slot h on: they stay, it follows.
Appends(w, S, b, batch, h, m, t) ==
    /\ w \in Seq(S) /\ Len(w) = Len(b)
    /\ Reads(w, h, m + Len(batch)) = Reads(b, h, m) \o batch
    /\ (t + Len(batch)) % Len(b) = (h + m + Len(batch)) % Len(b)

LEMMA WrittenFacts ==
    ASSUME NEW S, NEW b \in Seq(S), NEW batch \in Seq(S), NEW h \in Nat, h < Len(b),
           NEW m \in Nat, m + Len(batch) <= Len(b), NEW t, Wraps(t, h + m, Len(b))
    PROVE  Appends(Written(b, t, batch), S, b, batch, h, m, t)
  <1> DEFINE n == Len(b)
             l == Len(batch)
             w == Written(b, t, batch)
             p(i) == (h + i - 1) % n
  <1>1. n \in Nat \ {0} /\ l \in Nat /\ m + l <= n /\ h < n
    BY LenProperties
  <1>2. \A j \in 1..n : b[j] \in S
    BY ElementOfSeq
  <1>3. \A k \in 1..l : batch[k] \in S
    BY ElementOfSeq
  <1>4. t \in 0..(n - 1) /\ (h + m < n => t = h + m) /\ (h + m >= n => t = h + m - n)
    <2>1. h + m \in Int /\ 0 <= h + m /\ h + m < 2 * n
      <3> HIDE DEF n, l
      <3> QED BY <1>1
    <2>2. Wraps(t, h + m, n)
      OBVIOUS
    <2> HIDE DEF n
    <2> QED BY <1>1, <2>1, <2>2 DEF Wraps
  <1> HIDE DEF n, l
  <1>5. /\ w = [j \in 1..n |-> IF (j - 1 - t) % n < l THEN batch[((j - 1 - t) % n) + 1] ELSE b[j]]
    BY DEF Written, n, l
  <1>6. \A j \in 1..n : /\ (j - 1 - t) % n \in 0..(n - 1)
                        /\ (j - 1 >= t => (j - 1 - t) % n = j - 1 - t)
                        /\ (j - 1 < t => (j - 1 - t) % n = j - 1 - t + n)
    <2> SUFFICES ASSUME NEW j \in 1..n
                 PROVE  /\ (j - 1 - t) % n \in 0..(n - 1)
                        /\ (j - 1 >= t => (j - 1 - t) % n = j - 1 - t)
                        /\ (j - 1 < t => (j - 1 - t) % n = j - 1 - t + n)
      OBVIOUS
    <2>1. j - 1 - t \in Int /\ -n <= j - 1 - t /\ j - 1 - t < n
      BY <1>1, <1>4
    <2> DEFINE r == (j - 1 - t) % n
    <2>2. Wraps(r, j - 1 - t, n)
      BY <1>1, <2>1, Around, Zenon
    <2> HIDE DEF r
    <2>3. /\ r \in 0..(n - 1)
          /\ (j - 1 >= t => r = j - 1 - t)
          /\ (j - 1 < t => r = j - 1 - t + n)
      BY <1>1, <1>4, <2>1, <2>2 DEF Wraps
    <2> QED BY <2>3 DEF r
  <1>7. \A j \in 1..n : w[j] \in S
    <2> SUFFICES ASSUME NEW j \in 1..n PROVE w[j] \in S
      OBVIOUS
    <2> DEFINE r == (j - 1 - t) % n
    <2>1. r \in 0..(n - 1) /\ w[j] = IF r < l THEN batch[r + 1] ELSE b[j]
      BY <1>5, <1>6, Zenon
    <2> HIDE DEF r, w
    <2>2. r < l => r + 1 \in 1..l
      BY <1>1, <2>1
    <2> QED BY <1>2, <1>3, <2>1, <2>2
  <1>8. w \in [1..n -> S]
    BY <1>5, <1>7
  <1>9. w \in Seq(S) /\ Len(w) = n
    BY <1>1, <1>8
  <1> HIDE DEF w
  <1>10. \A i \in 1..n : /\ p(i) \in 0..(n - 1)
                         /\ (h + i - 1 < n => p(i) = h + i - 1)
                         /\ (h + i - 1 >= n => p(i) = h + i - 1 - n)
    <2> SUFFICES ASSUME NEW i \in 1..n
                 PROVE  /\ p(i) \in 0..(n - 1)
                        /\ (h + i - 1 < n => p(i) = h + i - 1)
                        /\ (h + i - 1 >= n => p(i) = h + i - 1 - n)
      OBVIOUS
    <2>1. h + i - 1 \in Int /\ 0 <= h + i - 1 /\ h + i - 1 < 2 * n
      BY <1>1
    <2>2. Wraps(p(i), h + i - 1, n)
      BY <1>1, <2>1, Around, Zenon
    <2> HIDE DEF p
    <2> QED BY <1>1, <2>1, <2>2 DEF Wraps
  <1> DEFINE k(i) == (p(i) - t) % n
  <1>11. \A i \in 1..n : /\ w[p(i) + 1] = IF k(i) < l THEN batch[k(i) + 1] ELSE b[p(i) + 1]
                         /\ (p(i) >= t => k(i) = p(i) - t)
                         /\ (p(i) < t => k(i) = p(i) - t + n)
    <2> SUFFICES ASSUME NEW i \in 1..n
                 PROVE  /\ w[p(i) + 1] = IF k(i) < l THEN batch[k(i) + 1] ELSE b[p(i) + 1]
                        /\ (p(i) >= t => k(i) = p(i) - t)
                        /\ (p(i) < t => k(i) = p(i) - t + n)
      OBVIOUS
    <2> DEFINE j == p(i) + 1
    <2>1. p(i) \in 0..(n - 1) /\ j \in 1..n /\ j - 1 - t = p(i) - t /\ j - 1 = p(i)
      BY <1>1, <1>4, <1>10
    <2> HIDE DEF j, p
    <2>2. w[j] = IF k(i) < l THEN batch[k(i) + 1] ELSE b[j]
      BY <1>5, <2>1
    <2>3. /\ (p(i) >= t => k(i) = p(i) - t)
          /\ (p(i) < t => k(i) = p(i) - t + n)
      BY <1>6, <2>1
    <2> QED BY <2>2, <2>3 DEF j
  <1> HIDE DEF p, k
  <1>12. \A i \in 1..m : w[p(i) + 1] = b[p(i) + 1]
    <2> SUFFICES ASSUME NEW i \in 1..m PROVE w[p(i) + 1] = b[p(i) + 1]
      OBVIOUS
    <2>1. /\ i \in 1..n /\ p(i) \in 0..(n - 1)
          /\ (h + i - 1 < n => p(i) = h + i - 1)
          /\ (h + i - 1 >= n => p(i) = h + i - 1 - n)
      BY <1>1, <1>10
    <2>2. w[p(i) + 1] = IF k(i) < l THEN batch[k(i) + 1] ELSE b[p(i) + 1]
      BY <1>11, <2>1
    <2>k. (p(i) >= t => k(i) = p(i) - t) /\ (p(i) < t => k(i) = p(i) - t + n)
      BY <1>11, <2>1
    <2>3. ~(k(i) < l)
      <3>1. CASE h + m < n
        BY <1>1, <1>4, <2>1, <2>k, <3>1, SMTT(60)
      <3>2. CASE h + m >= n
        BY <1>1, <1>4, <2>1, <2>k, <3>2, SMTT(60)
      <3> QED BY <1>1, <3>1, <3>2
    <2> QED BY <2>2, <2>3
  <1>13. \A i \in (m + 1)..(m + l) : w[p(i) + 1] = batch[i - m]
    <2> SUFFICES ASSUME NEW i \in (m + 1)..(m + l) PROVE w[p(i) + 1] = batch[i - m]
      OBVIOUS
    <2>1. /\ i \in 1..n /\ p(i) \in 0..(n - 1)
          /\ (h + i - 1 < n => p(i) = h + i - 1)
          /\ (h + i - 1 >= n => p(i) = h + i - 1 - n)
      BY <1>1, <1>10
    <2>2. w[p(i) + 1] = IF k(i) < l THEN batch[k(i) + 1] ELSE b[p(i) + 1]
      BY <1>11, <2>1
    <2>k. (p(i) >= t => k(i) = p(i) - t) /\ (p(i) < t => k(i) = p(i) - t + n)
      BY <1>11, <2>1
    <2>3. k(i) = i - m - 1
      <3>1. CASE h + m < n
        BY <1>1, <1>4, <2>1, <2>k, <3>1, SMTT(60)
      <3>2. CASE h + m >= n
        BY <1>1, <1>4, <2>1, <2>k, <3>2
      <3> QED BY <1>1, <3>1, <3>2
    <2>4. k(i) < l /\ k(i) + 1 = i - m
      BY <1>1, <2>3
    <2> QED BY <2>2, <2>4
  <1>14. Reads(w, h, m + l) = Reads(b, h, m) \o batch
    <2>1. /\ Reads(b, h, m) \in Seq(S) /\ Len(Reads(b, h, m)) = m
          /\ \A i \in 1..m : Reads(b, h, m)[i] = b[p(i) + 1]
      <3>1. Len(b) >= 1 /\ m \in Nat
        BY <1>1 DEF n
      <3>2. Reading(Reads(b, h, m), S, b, h, m)
        BY <3>1, ReadsSeq, Zenon
      <3> QED BY <3>2, Zenon DEF Reading, n, p
    <2>2. /\ Reads(w, h, m + l) \in Seq(S) /\ Len(Reads(w, h, m + l)) = m + l
          /\ \A i \in 1..(m + l) : Reads(w, h, m + l)[i] = w[p(i) + 1]
      <3>1. Len(w) >= 1 /\ m + l \in Nat
        BY <1>1, <1>9
      <3>2. /\ Reads(w, h, m + l) \in Seq(S) /\ Len(Reads(w, h, m + l)) = m + l
            /\ \A i \in 1..(m + l) : Reads(w, h, m + l)[i] = w[((h + i - 1) % Len(w)) + 1]
        <4>1. Reading(Reads(w, h, m + l), S, w, h, m + l)
          BY <1>9, <3>1, ReadsSeq, Zenon
        <4> QED BY <4>1, Zenon DEF Reading
      <3> QED BY <1>9, <3>2, Zenon DEF p
    <2>3. /\ Reads(b, h, m) \o batch \in Seq(S) /\ Len(Reads(b, h, m) \o batch) = m + l
          /\ \A i \in 1..(m + l) : (Reads(b, h, m) \o batch)[i] =
                IF i <= m THEN Reads(b, h, m)[i] ELSE batch[i - m]
      <3> DEFINE a == Reads(b, h, m)
      <3>1. a \in Seq(S) /\ Len(a) = m
        BY <2>1
      <3> HIDE DEF a
      <3>2. /\ a \o batch \in Seq(S) /\ Len(a \o batch) = m + l
            /\ \A i \in 1..(m + l) : (a \o batch)[i] = IF i <= m THEN a[i] ELSE batch[i - m]
        BY <3>1, ConcatProperties DEF l
      <3> QED BY <3>2 DEF a
    <2>4. \A i \in 1..(m + l) : Reads(w, h, m + l)[i] = (Reads(b, h, m) \o batch)[i]
      <3> SUFFICES ASSUME NEW i \in 1..(m + l)
                   PROVE  Reads(w, h, m + l)[i] = (Reads(b, h, m) \o batch)[i]
        OBVIOUS
      <3>1. CASE i <= m
        <4>1. i \in 1..m
          BY <1>1, <3>1
        <4> QED BY <1>12, <2>1, <2>2, <2>3, <3>1, <4>1
      <3>2. CASE ~(i <= m)
        <4>1. i \in (m + 1)..(m + l)
          BY <1>1, <3>2
        <4> QED BY <1>13, <2>2, <2>3, <3>2, <4>1
      <3> QED BY <3>1, <3>2
    <2> DEFINE x == Reads(w, h, m + l)
               y == Reads(b, h, m) \o batch
    <2>5. /\ x \in Seq(S) /\ y \in Seq(S) /\ Len(x) = m + l /\ Len(y) = m + l
          /\ \A i \in 1..(m + l) : x[i] = y[i]
      BY <2>2, <2>3, <2>4, Zenon
    <2> HIDE DEF x, y
    <2>6. x = y
      BY <2>5, SameSeq
    <2> QED BY <2>6 DEF x, y
  <1>15. (t + l) % n = (h + m + l) % n
    <2>1. /\ t + l \in Int /\ 0 <= t + l /\ t + l < 2 * n
          /\ h + m + l \in Int /\ 0 <= h + m + l /\ h + m + l < 2 * n
      BY <1>1, <1>4
    <2> DEFINE x == (t + l) % n
               y == (h + m + l) % n
    <2>2. Wraps(x, t + l, n) /\ Wraps(y, h + m + l, n)
      BY <1>1, <2>1, Around, Zenon
    <2> HIDE DEF x, y
    <2>3. x = y
      BY <1>1, <1>4, <2>1, <2>2 DEF Wraps
    <2> QED BY <2>3 DEF x, y
  <1> QED BY <1>9, <1>14, <1>15 DEF n, l, w, Appends
Slots == Values \cup {Nothing}

LEMMA RingFacts ==
    ASSUME QueueTypeOK
    PROVE  /\ buf \in Seq(Slots) /\ Cap \in Nat \ {0} /\ Cap = Len(buf)
           /\ head \in Nat /\ head < Cap /\ count \in Nat /\ count <= Cap
           /\ Wraps(tail, head + count, Cap) /\ tail = (head + count) % Cap
           /\ Contents = Reads(buf, head, count) /\ Contents \in Seq(Slots) /\ Len(Contents) = count
           /\ \A i \in 1..count : Contents[i] = buf[((head + i - 1) % Cap) + 1]
  <1>1. /\ buf \in Seq(Slots) /\ Cap \in Nat \ {0} /\ Cap = Len(buf)
        /\ head \in Nat /\ head < Cap /\ count \in Nat /\ count <= Cap
        /\ tail = (head + count) % Cap
    <2>1. buf \in Seq(Slots) /\ Cap \in Nat /\ Cap >= 1
      BY LenProperties DEF QueueTypeOK, Slots, Cap
    <2>2. head \in 0..(Cap - 1) /\ count \in 0..Cap /\ tail = (head + count) % Cap
      BY DEF QueueTypeOK
    <2> HIDE DEF Cap
    <2>3. head \in Nat /\ head < Cap /\ count \in Nat /\ count <= Cap
      BY <2>1, <2>2
    <2> QED BY <2>1, <2>2, <2>3 DEF Cap
  <1>2. head + count \in Int
    BY <1>1
  <1>3. Wraps(tail, head + count, Cap)
    BY <1>1, <1>2, Around, Zenon
  <1>4. Contents = Reads(buf, head, count)
    BY DEF Contents, Reads, Slot, Cap
  <1>5. Reading(Contents, Slots, buf, head, count)
    <2>1. Len(buf) >= 1
      BY <1>1
    <2> QED BY <1>1, <1>4, <2>1, ReadsSeq, Zenon
  <1>6. /\ Contents \in Seq(Slots) /\ Len(Contents) = count
        /\ \A i \in 1..count : Contents[i] = buf[((head + i - 1) % Cap) + 1]
    BY <1>1, <1>5, Zenon DEF Reading
  <1> QED BY <1>1, <1>3, <1>4, <1>6

\* growForced copies the tasks in the order in which Pop would return them.
LEMMA CopyFacts ==
    ASSUME QueueTypeOK
    PROVE  InOrder = Contents
  <1> DEFINE n == Cap
  <1>1. /\ buf \in Seq(Slots) /\ n \in Nat \ {0} /\ n = Len(buf)
        /\ head \in Nat /\ head < n /\ count \in Nat /\ count <= n
        /\ Wraps(tail, head + count, n)
        /\ Contents \in Seq(Slots) /\ Len(Contents) = count
        /\ \A i \in 1..count : Contents[i] = buf[((head + i - 1) % n) + 1]
    BY RingFacts, Zenon
  <1> HIDE DEF n
  <1>2. /\ tail \in 0..(n - 1) /\ (head + count < n => tail = head + count)
        /\ (head + count >= n => tail = head + count - n)
    BY <1>1 DEF Wraps
  <1>3. ASSUME NEW i \in 1..count
        PROVE  Contents[i] = IF head + i <= n THEN buf[head + i] ELSE buf[head + i - n]
    <2> DEFINE r == (head + i - 1) % n
    <2>1. head + i - 1 \in Int /\ 0 <= head + i - 1 /\ head + i - 1 < 2 * n
      BY <1>1
    <2>2. Wraps(r, head + i - 1, n)
      BY <1>1, <2>1, Around, Zenon
    <2>3. Contents[i] = buf[r + 1]
      BY <1>1, Zenon
    <2> HIDE DEF r
    <2>4. r + 1 = IF head + i <= n THEN head + i ELSE head + i - n
      BY <1>1, <2>1, <2>2 DEF Wraps
    <2> QED BY <2>3, <2>4
  <1>4. CASE count = 0
    <2>1. InOrder = <<>> /\ <<>> \in Seq(Slots) /\ Len(<<>>) = 0
      BY <1>4 DEF InOrder
    <2> QED BY <1>1, <1>4, <2>1
  <1>5. CASE count # 0 /\ head < tail
    <2>1. InOrder = SubSeq(buf, head + 1, tail) /\ tail = head + count
      BY <1>1, <1>2, <1>5 DEF InOrder
    <2> DEFINE s == SubSeq(buf, head + 1, tail)
    <2>2. s \in Seq(Slots) /\ Len(s) = count /\ \A i \in 1..count : s[i] = buf[head + i]
      <3>1. head + 1 \in 1..(Len(buf) + 1) /\ tail \in head..Len(buf)
            /\ \A i \in 1..(tail - (head + 1) + 1) : (head + 1) + i - 1 = head + i
        BY <1>1, <1>2, <2>1
      <3>2. /\ SubSeq(buf, head + 1, tail) \in Seq(Slots)
            /\ Len(SubSeq(buf, head + 1, tail)) = tail - (head + 1) + 1
            /\ \A i \in 1..(tail - (head + 1) + 1) :
                  SubSeq(buf, head + 1, tail)[i] = buf[(head + 1) + i - 1]
        BY <1>1, <1>2, <2>1
      <3>3. tail - (head + 1) + 1 = count
        BY <1>1, <2>1
      <3> QED BY <3>1, <3>2, <3>3
    <2> HIDE DEF s
    <2>3. ASSUME NEW i \in 1..count PROVE s[i] = Contents[i]
      <3>1. head + i <= n
        BY <1>1, <1>2, <2>1
      <3> QED BY <1>3, <2>2, <3>1
    <2>4. s = Contents
      BY <1>1, <2>2, <2>3, SameSeq
    <2> QED BY <2>1, <2>4 DEF s
  <1>6. CASE count # 0 /\ ~(head < tail)
    <2>1. InOrder = SubSeq(buf, head + 1, n) \o SubSeq(buf, 1, tail)
      BY <1>6 DEF InOrder, n
    <2>2. tail = head + count - n
      BY <1>1, <1>2, <1>6
    <2> DEFINE a == SubSeq(buf, head + 1, n)
               c == SubSeq(buf, 1, tail)
    <2>3. a \in Seq(Slots) /\ Len(a) = n - head /\ \A i \in 1..(n - head) : a[i] = buf[head + i]
      BY <1>1
    <2>4. c \in Seq(Slots) /\ Len(c) = tail /\ \A i \in 1..tail : c[i] = buf[i]
      BY <1>1, <1>2
    <2> HIDE DEF a, c
    <2>5. /\ a \o c \in Seq(Slots) /\ Len(a \o c) = count
          /\ \A i \in 1..count : (a \o c)[i] = IF i <= n - head THEN a[i] ELSE c[i - (n - head)]
      <3>1. /\ a \o c \in Seq(Slots) /\ Len(a \o c) = Len(a) + Len(c)
            /\ \A i \in 1..(Len(a) + Len(c)) :
                  (a \o c)[i] = IF i <= Len(a) THEN a[i] ELSE c[i - Len(a)]
        BY <2>3, <2>4, ConcatProperties
      <3>2. Len(a) + Len(c) = count /\ Len(a) = n - head
        BY <1>1, <1>2, <2>2, <2>3, <2>4
      <3> QED BY <3>1, <3>2
    <2>6. ASSUME NEW i \in 1..count PROVE (a \o c)[i] = Contents[i]
      <3>1. CASE i <= n - head
        <4>1. i \in 1..(n - head) /\ head + i <= n
          BY <1>1, <3>1
        <4> QED BY <1>3, <2>3, <2>5, <3>1, <4>1
      <3>2. CASE ~(i <= n - head)
        <4>1. i - (n - head) \in 1..tail /\ ~(head + i <= n) /\ i - (n - head) = head + i - n
          BY <1>1, <2>2, <3>2
        <4> QED BY <1>3, <2>4, <2>5, <3>2, <4>1
      <3> QED BY <3>1, <3>2
    <2> DEFINE x == a \o c
    <2>7. x \in Seq(Slots) /\ Len(x) = count /\ \A i \in 1..count : x[i] = Contents[i]
      BY <2>5, <2>6
    <2> HIDE DEF x
    <2>8. x = Contents
      BY <1>1, <2>7, SameSeq
    <2> QED BY <2>1, <2>8 DEF x, a, c
  <1> QED BY <1>4, <1>5, <1>6
\* A buffer that growForced made has room for the batch, and its first slots
\* hold the tasks in order.
LEMMA GrownFacts ==
    ASSUME QueueTypeOK, NEW needed \in Nat, needed > Cap
    PROVE  /\ GrownTo(needed) \in Seq(Slots) /\ Len(GrownTo(needed)) >= needed
           /\ Reads(GrownTo(needed), 0, count) = Contents
  <1> DEFINE first == IF 2 * Cap < MinCap THEN MinCap ELSE 2 * Cap
             size == DoubledTo(first, needed)
             rest == EmptySlots(size - count)
             b == GrownTo(needed)
  <1>1. /\ Cap \in Nat \ {0} /\ count \in Nat /\ count <= Cap
        /\ Contents \in Seq(Slots) /\ Len(Contents) = count
    BY RingFacts
  <1>2. first \in Nat \ {0}
    BY <1>1, CapAssumption
  <1> HIDE DEF first
  <1>3. size \in Nat /\ size >= needed
    BY <1>2, DoubledFacts
  <1>4. b = Contents \o rest
    BY CopyFacts DEF GrownTo, first
  <1> HIDE DEF size, b
  <1>5. size - count \in Nat /\ needed > count
    BY <1>1, <1>3
  <1>6. rest \in Seq(Slots) /\ Len(rest) = size - count
    <2> DEFINE l == size - count
    <2> HIDE DEF l
    <2>1. l \in Nat
      BY <1>5 DEF l
    <2>2. EmptySlots(l) \in Seq(Slots) /\ Len(EmptySlots(l)) = l
      BY <2>1 DEF EmptySlots, Slots
    <2> QED BY <2>2 DEF l
  <1> HIDE DEF rest
  <1>7. /\ b \in Seq(Slots) /\ Len(b) = size
        /\ \A i \in 1..count : b[i] = Contents[i]
    <2>1. /\ b \in Seq(Slots) /\ Len(b) = Len(Contents) + Len(rest)
          /\ \A i \in 1..(Len(Contents) + Len(rest)) : b[i] =
                IF i <= Len(Contents) THEN Contents[i] ELSE rest[i - Len(Contents)]
      BY <1>1, <1>4, <1>6, ConcatProperties
    <2>2. Len(Contents) + Len(rest) = size /\ \A i \in 1..count : i \in 1..size /\ i <= count
      BY <1>1, <1>3, <1>5, <1>6
    <2> QED BY <1>1, <2>1, <2>2
  <1>8. Reads(b, 0, count) = Contents
    <2> DEFINE r == Reads(b, 0, count)
    <2>1. Len(b) >= 1 /\ Len(b) \in Nat \ {0}
      <3>1. size \in Nat /\ needed >= 1 /\ size >= needed
        BY <1>1, <1>3, <1>5
      <3>2. size >= 1
        BY <3>1
      <3> QED BY <1>7, <3>1, <3>2
    <2>0. 0 \in Nat
      OBVIOUS
    <2>2. Reading(r, Slots, b, 0, count)
      BY <1>1, <1>7, <2>0, <2>1, ReadsSeq, Zenon
    <2> HIDE DEF r
    <2>3. r \in Seq(Slots) /\ Len(r) = count
      BY <2>2 DEF Reading
    <2>4. ASSUME NEW i \in 1..count PROVE r[i] = Contents[i]
      <3> DEFINE k == (0 + i - 1) % Len(b)
      <3>1. r[i] = b[k + 1]
        BY <2>2, <2>4, Zenon DEF Reading
      <3>2. 0 + i - 1 \in Int /\ 0 <= 0 + i - 1 /\ 0 + i - 1 < Len(b) /\ Len(b) \in Nat \ {0}
        BY <1>1, <1>3, <1>5, <1>7
      <3>3. Wraps(k, 0 + i - 1, Len(b))
        BY <3>2, Around, Zenon
      <3> HIDE DEF k
      <3>4. k + 1 = i
        BY <3>2, <3>3 DEF Wraps
      <3> QED BY <1>7, <3>1, <3>4
    <2>5. r = Contents
      BY <1>1, <2>3, <2>4, SameSeq
    <2> QED BY <2>5 DEF r
  <1>9. Len(b) >= needed
    BY <1>3, <1>7
  <1> QED BY <1>7, <1>8, <1>9 DEF b

\* A batch that fits is written behind what the queue holds.
LEMMA StoreFacts ==
    ASSUME QueueTypeOK, NEW b \in Seq(Slots), NEW h \in Nat, h < Len(b),
           NEW batch \in Batches, count + Len(batch) <= Len(b),
           Reads(b, h, count) = Contents,
           NEW t, Wraps(t, h + count, Len(b)), Store(b, h, t, batch)
    PROVE  QueueTypeOK' /\ Contents' = Contents \o batch
  <1> DEFINE n == Len(b)
             l == Len(batch)
             w == Written(b, t, batch)
  <1>1. batch \in Seq(Slots) /\ l \in Nat
    <2>1. PICK k \in 1..MaxBatch : batch \in [1..k -> Values]
      BY DEF Batches
    <2>2. k \in Nat
      BY <2>1
    <2>3. batch \in Seq(Slots)
      BY <2>1, <2>2 DEF Slots
    <2> QED BY <2>3, LenProperties
  <1>2. n \in Nat \ {0} /\ count \in Nat
    <2>1. Len(b) \in Nat
      BY LenProperties
    <2> QED BY <2>1, RingFacts
  <1>3. /\ w \in Seq(Slots) /\ Len(w) = n
        /\ Reads(w, h, count + l) = Contents \o batch
        /\ (t + l) % n = (h + count + l) % n
    <2>1. /\ w \in Seq(Slots) /\ Len(w) = n
          /\ Reads(w, h, count + l) = Reads(b, h, count) \o batch
          /\ (t + l) % n = (h + count + l) % n
      <3>1. Appends(Written(b, t, batch), Slots, b, batch, h, count, t)
        BY <1>1, <1>2, WrittenFacts, Zenon
      <3> QED BY <3>1, Zenon DEF Appends
    <2> QED BY <2>1, Zenon
  <1>4. /\ buf' = w /\ head' = h /\ tail' = (t + l) % n /\ count' = count + l
        /\ call' = [pushed |-> batch]
    BY DEF Store
  <1> HIDE DEF n, l, w
  <1>5. Contents' = Reads(w, h, count + l)
    <2>1. Contents' = Reads(buf', head', count')
      BY DEF Contents, Reads, Slot, Cap
    <2> QED BY <1>4, <2>1
  <1>6. Cap' = n
    BY <1>3, <1>4 DEF Cap
  <1>7. QueueTypeOK'
    <2>1. buf' \in Seq(Values \cup {Nothing}) /\ Cap' >= 1
      BY <1>2, <1>3, <1>4, <1>6 DEF Slots
    <2>2. head' \in 0..(Cap' - 1) /\ count' \in 0..Cap'
      BY <1>1, <1>2, <1>4, <1>6 DEF n, l
    <2>3. tail' = (head' + count') % Cap'
      <3>1. h + count + l = h + (count + l)
        BY <1>1, <1>2
      <3> QED BY <1>3, <1>4, <1>6, <3>1, Zenon
    <2>4. call' \in [pushed : Batches]
      BY <1>4
    <2> QED BY <2>1, <2>2, <2>3, <2>4 DEF QueueTypeOK
  <1> QED BY <1>3, <1>5, <1>7

LEMMA PutFacts ==
    ASSUME QueueTypeOK, NEW batch \in Batches, Put(batch)
    PROVE  QueueTypeOK' /\ Contents' = Contents \o batch /\ call' = [pushed |-> batch]
  <1>1. /\ buf \in Seq(Slots) /\ Cap \in Nat \ {0} /\ Cap = Len(buf)
        /\ head \in Nat /\ head < Cap /\ count \in Nat /\ count <= Cap
        /\ Wraps(tail, head + count, Cap)
        /\ Contents = Reads(buf, head, count)
    BY RingFacts, Zenon
  <1>2. Len(batch) \in Nat /\ Len(batch) >= 1
    BY DEF Batches
  <1> DEFINE needed == count + Len(batch)
  <1>3. CASE Cap < needed
    <2> DEFINE b == GrownTo(needed)
    <2>1. needed \in Nat /\ needed > Cap /\ needed > count
      BY <1>1, <1>2, <1>3
    <2>2. Store(b, 0, count, batch)
      BY <1>3 DEF Put
    <2>3. b \in Seq(Slots) /\ Len(b) >= needed /\ Reads(b, 0, count) = Contents
      BY <2>1, GrownFacts
    <2> HIDE DEF b
    <2>4. Len(b) \in Nat /\ 0 < Len(b) /\ count < Len(b)
      BY <1>1, <2>1, <2>3
    <2>5. Wraps(count, 0 + count, Len(b))
      BY <1>1, <2>4 DEF Wraps
    <2>6. 0 \in Nat /\ count + Len(batch) <= Len(b)
      BY <1>1, <1>2, <2>3, <2>4
    <2>7. QueueTypeOK' /\ Contents' = Contents \o batch
      BY <2>2, <2>3, <2>4, <2>5, <2>6, StoreFacts, Zenon
    <2> QED BY <2>2, <2>7 DEF Store
  <1>4. CASE ~(Cap < needed)
    <2>1. Store(buf, head, tail, batch)
      BY <1>4 DEF Put
    <2>2. count + Len(batch) <= Len(buf) /\ head < Len(buf) /\ Wraps(tail, head + count, Len(buf))
      BY <1>1, <1>2, <1>4
    <2>3. QueueTypeOK' /\ Contents' = Contents \o batch
      <3>1. Reads(buf, head, count) = Contents
        BY <1>1
      <3> QED BY <1>1, <2>1, <2>2, <3>1, StoreFacts, Zenon
    <2> QED BY <2>1, <2>3 DEF Store
  <1> QED BY <1>3, <1>4

LEMMA PopFacts ==
    ASSUME QueueTypeOK, Pop
    PROVE  /\ QueueTypeOK'
           /\ count = 0 => Contents = <<>> /\ Contents' = Contents /\ call' = [popped |-> Nothing]
           /\ count # 0 => /\ Contents # <<>> /\ call' = [popped |-> Head(Contents)]
                           /\ Contents' = Tail(Contents)
  <1>1. /\ buf \in Seq(Slots) /\ Cap \in Nat \ {0} /\ Cap = Len(buf)
        /\ head \in Nat /\ head < Cap /\ count \in Nat /\ count <= Cap
        /\ Wraps(tail, head + count, Cap) /\ tail = (head + count) % Cap
        /\ Contents \in Seq(Slots) /\ Len(Contents) = count
        /\ \A i \in 1..count : Contents[i] = buf[((head + i - 1) % Cap) + 1]
    BY RingFacts, Zenon
  <1>2. CASE count = 0
    <2>1. UNCHANGED <<buf, head, tail, count>> /\ call' = [popped |-> Nothing]
      BY <1>2 DEF Pop
    <2>2. Contents' = Contents
      BY <2>1 DEF Contents, Slot, Cap
    <2>3. Contents = <<>>
      BY <1>1, <1>2, EmptySeq
    <2>4. QueueTypeOK'
      BY <2>1 DEF QueueTypeOK, Cap
    <2> QED BY <1>2, <2>1, <2>2, <2>3, <2>4
  <1>3. CASE count # 0
    <2> DEFINE n == Cap
               h == (head + 1) % n
    <2>1. /\ call' = [popped |-> Slot(head)] /\ head' = h /\ count' = count - 1
          /\ buf' = buf /\ tail' = tail /\ Cap' = n
      BY <1>3 DEF Pop, Cap
    <2>3. Wraps(h, head + 1, n)
      <3>1. head + 1 \in Int
        BY <1>1
      <3> QED BY <1>1, <3>1, Around, Zenon
    <2>h. /\ buf \in Seq(Slots) /\ n \in Nat \ {0} /\ n = Len(buf)
          /\ head \in Nat /\ head < n /\ count \in Nat /\ count <= n /\ count >= 1
          /\ Wraps(tail, head + count, n)
          /\ \A i \in 1..count : Contents[i] = buf[((head + i - 1) % n) + 1]
      BY <1>1, <1>3
    <2> HIDE DEF n, h
    <2>4. h \in 0..(n - 1) /\ (head + 1 < n => h = head + 1) /\ (head + 1 = n => h = 0)
      BY <2>h, <2>3 DEF Wraps
    <2>5. tail = (h + (count - 1)) % n
      <3> DEFINE x == (h + (count - 1)) % n
      <3>1. /\ h + (count - 1) \in Int /\ 0 <= h + (count - 1) /\ h + (count - 1) < 2 * n
            /\ head + count >= 0 /\ head + count < 2 * n
        BY <2>h, <2>4
      <3>2. Wraps(x, h + (count - 1), n)
        BY <2>h, <3>1, Around, Zenon
      <3> HIDE DEF x
      <3>3. tail = x
        BY <2>h, <2>4, <3>1, <3>2, SMTT(60) DEF Wraps
      <3> QED BY <3>3 DEF x
    <2>6. Contents # <<>> /\ Head(Contents) = Slot(head)
      <3>1. Contents # <<>> /\ Head(Contents) = Contents[1] /\ 1 \in 1..count
        BY <1>1, <2>h, EmptySeq
      <3> DEFINE x == (head + 1 - 1) % n
      <3>2. Contents[1] = buf[x + 1]
        BY <2>h, <3>1, Zenon
      <3>3. head + 1 - 1 \in Int /\ 0 <= head + 1 - 1 /\ head + 1 - 1 < n /\ head + 1 - 1 = head
        BY <2>h
      <3>4. Wraps(x, head + 1 - 1, n)
        BY <2>h, <3>3, Around, Zenon
      <3> HIDE DEF x
      <3>5. x = head
        BY <3>3, <3>4 DEF Wraps
      <3> QED BY <3>1, <3>2, <3>5 DEF Slot
    <2>7. Contents' = Tail(Contents)
      <3> DEFINE r == Reads(buf, h, count - 1)
      <3>1. Contents' = r
        <4>1. Contents' = Reads(buf', head', count')
          BY DEF Contents, Reads, Slot, Cap
        <4> QED BY <2>1, <4>1
      <3>2. Len(buf) >= 1 /\ h \in Nat /\ count - 1 \in Nat
        BY <2>h, <2>4
      <3>3. Reading(r, Slots, buf, h, count - 1)
        BY <2>h, <3>2, ReadsSeq, Zenon
      <3> HIDE DEF r
      <3>4. /\ r \in Seq(Slots) /\ Len(r) = count - 1
            /\ \A i \in 1..(count - 1) : r[i] = buf[((h + i - 1) % n) + 1]
        BY <2>h, <3>3 DEF Reading
      <3>5. /\ Tail(Contents) \in Seq(Slots) /\ Len(Tail(Contents)) = count - 1
            /\ \A i \in 1..(count - 1) : Tail(Contents)[i] = Contents[i + 1]
        BY <1>1, <2>h, <2>6, HeadTailProperties
      <3>6. ASSUME NEW i \in 1..(count - 1) PROVE r[i] = Tail(Contents)[i]
        <4> DEFINE x == (h + i - 1) % n
                   y == (head + (i + 1) - 1) % n
        <4>1. i + 1 \in 1..count
          BY <2>h
        <4>2. r[i] = buf[x + 1] /\ Tail(Contents)[i] = buf[y + 1]
          BY <2>h, <3>4, <3>5, <4>1, Zenon
        <4>3. /\ h + i - 1 \in Int /\ 0 <= h + i - 1 /\ h + i - 1 < 2 * n
              /\ head + (i + 1) - 1 \in Int /\ 0 <= head + (i + 1) - 1
              /\ head + (i + 1) - 1 < 2 * n
          BY <2>h, <2>4, <3>2
        <4>4. Wraps(x, h + i - 1, n) /\ Wraps(y, head + (i + 1) - 1, n)
          BY <2>h, <4>3, Around, Zenon
        <4> HIDE DEF x, y
        <4>5. x = y
          BY <2>h, <2>4, <3>2, <4>3, <4>4, SMTT(60) DEF Wraps
        <4> QED BY <4>2, <4>5
      <3>7. r = Tail(Contents)
        BY <3>4, <3>5, <3>6, SameSeq
      <3> QED BY <3>1, <3>7
    <2>8. QueueTypeOK'
      <3>1. Slot(head) \in Slots
        <4>1. head + 1 \in 1..Len(buf)
          BY <2>h
        <4> QED BY <2>h, <4>1, ElementOfSeq DEF Slot
      <3>2. head' \in 0..(Cap' - 1) /\ count' \in 0..Cap' /\ Cap' >= 1
        BY <2>h, <2>1, <2>4
      <3>3. tail' = (head' + count') % Cap'
        BY <2>1, <2>5, Zenon
      <3>4. call' \in [popped : Values \cup {Nothing}] /\ buf' \in Seq(Values \cup {Nothing})
        BY <2>h, <2>1, <3>1 DEF Slots
      <3> QED BY <3>2, <3>3, <3>4 DEF QueueTypeOK
    <2> QED BY <1>3, <2>1, <2>6, <2>7, <2>8
  <1> QED BY <1>2, <1>3
LEMMA RingInit == QueueInit => QueueTypeOK /\ Contents = <<>> /\ call = [popped |-> Nothing]
  <1> SUFFICES ASSUME QueueInit
               PROVE  QueueTypeOK /\ Contents = <<>> /\ call = [popped |-> Nothing]
    OBVIOUS
  <1>1. PICK n \in 0..MaxSeeded, maxCap \in SoftCaps : buf = EmptySlots(FirstCap(n, maxCap))
    BY DEF QueueInit
  <1>2. head = 0 /\ tail = 0 /\ count = 0 /\ call = [popped |-> Nothing]
    BY DEF QueueInit
  <1> DEFINE c == FirstCap(n, maxCap)
             size == DoubledTo(MinCap, n)
  <1>3. c \in Nat \ {0}
    <2>1. n \in Nat /\ MinCap \in Nat \ {0} /\ maxCap \in Nat
      BY CapAssumption
    <2>2. size \in Nat /\ size >= MinCap
      BY <2>1, DoubledFacts
    <2>3. c = IF maxCap > 0 /\ size > maxCap THEN maxCap ELSE size
      BY DEF FirstCap
    <2> HIDE DEF c, size
    <2> QED BY <2>1, <2>2, <2>3
  <1> HIDE DEF c
  <1>4. buf \in Seq(Slots) /\ Cap = c
    BY <1>1, <1>3 DEF EmptySlots, Slots, Cap, c
  <1>5. tail = (head + count) % Cap
    <2> DEFINE r == 0 % c
    <2>1. Wraps(r, 0, c)
      BY <1>3, Around
    <2> HIDE DEF r
    <2>2. r = 0
      BY <1>3, <2>1 DEF Wraps
    <2>3. 0 + 0 = 0
      OBVIOUS
    <2> QED BY <1>2, <1>4, <2>2, <2>3, Zenon DEF r
  <1>6. QueueTypeOK
    BY <1>2, <1>3, <1>4, <1>5 DEF QueueTypeOK, Slots
  <1>7. Contents = <<>>
    BY <1>2, <1>6, RingFacts, EmptySeq
  <1> QED BY <1>2, <1>6, <1>7

LEMMA RingStep == QueueTypeOK /\ [QueueNext]_queueVars => QueueTypeOK'
  <1> SUFFICES ASSUME QueueTypeOK, [QueueNext]_queueVars PROVE QueueTypeOK'
    OBVIOUS
  <1>1. CASE UNCHANGED queueVars
    BY <1>1 DEF queueVars, QueueTypeOK, Cap
  <1> QED BY <1>1, PutFacts, PopFacts DEF QueueNext

\* Whatever is pushed and popped: head, tail and count stay those of one ring,
\* for any initial capacity and any growth (Push, PushMany, Pop, growForced).
THEOREM RingCorrect == QueueSpec => []QueueTypeOK
  BY RingInit, RingStep, PTL DEF QueueSpec

\* The ring is a FIFO: each task leaves it once, in the order it came in, none
\* is refused and none is lost when the buffer grows, wherever head and tail
\* are, however many tasks there are and however large a batch.
THEOREM RingIsFifo == QueueSpec => RefinesFifo
  <1>1. QueueInit => Abstract!Init
    BY RingInit DEF Abstract!Init
  <1>2. QueueTypeOK /\ [QueueNext]_queueVars => [Abstract!Next]_<<Contents, call>>
    <2> SUFFICES ASSUME QueueTypeOK, [QueueNext]_queueVars
                 PROVE  Abstract!Next \/ UNCHANGED <<Contents, call>>
      OBVIOUS
    <2>1. ASSUME NEW batch \in Batches, Put(batch) PROVE Abstract!Next
      <3>1. Abstract!Put(batch)
        BY <2>1, PutFacts DEF Abstract!Put
      <3> QED BY <3>1 DEF Abstract!Next
    <2>2. CASE Pop
      <3>1. CASE count = 0
        <4>1. Abstract!TakeNothing
          BY <2>2, <3>1, PopFacts DEF Abstract!TakeNothing
        <4> QED BY <4>1 DEF Abstract!Next
      <3>2. CASE count # 0
        <4>1. Abstract!Take
          BY <2>2, <3>2, PopFacts DEF Abstract!Take
        <4> QED BY <4>1 DEF Abstract!Next
      <3> QED BY <3>1, <3>2
    <2>3. CASE UNCHANGED queueVars
      BY <2>3 DEF queueVars, Contents, Slot, Cap
    <2> QED BY <2>1, <2>2, <2>3 DEF QueueNext
  <1> QED BY <1>1, <1>2, RingCorrect, PTL DEF QueueSpec, RefinesFifo, Abstract!Spec
====
