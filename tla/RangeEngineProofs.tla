---- MODULE RangeEngineProofs ----
(* Theorems about RangeEngine, for every value of its constants. *)
EXTENDS RangeEngine, SequenceTheorems, WellFoundedInduction, TLAPS

\* A worker's progress stays inside its task, and a worker that holds a task
\* holds a real one; cancelFn is set while runTask runs.
WorkerOK ==
    \A w \in Workers :
        /\ bytesDone[w] <= TaskLen(curTask[w])
        /\ InHand(w) => curTask[w] \in Tasks
        /\ pc[w] = "backoff" => bytesDone[w] < TaskLen(curTask[w])
        /\ cancelFn[w] # "nil" <=> Running(w)

\* The monitor holds a leftover from the test of the progress to the push, and
\* the task it planned for until the claim.
MonitorOK ==
    /\ IF mon \in {"claim", "mark", "cancel", "push"}
       THEN leftover \in Tasks ELSE leftover = NoTask
    /\ mon \in {"plan", "claim"} => planned \in Tasks

TypeInv ==
    /\ WorkerTypes /\ SharedTypes /\ SupervisionTypes /\ DataTypes
    /\ WorkerOK /\ MonitorOK

\* The bytes behind each worker's progress are in the file, and so are the
\* bytes claimed as complete.
PrefixWritten == \A w \in Workers : Prefix(w) \subseteq written
ClaimsInv == PrefixWritten /\ ClaimsWritten

\* A cancellation is recorded only by a worker that has let go of its task.
ErrorInv == \A w \in Workers : errVal[w] = "cancel" => ~InHand(w) /\ ctxDone

\* Until the mark, a leftover that covered the rest of the victim's task still
\* does, if the victim is still on the task whose cancel function was claimed.
StealInv ==
    \A w \in Workers :
        mon = "mark" /\ victim = w /\ covers[w] /\ Running(w)
        => BytesOf(Remaining(w)) \subseteq BytesOf(leftover)

\* The order in which the goroutines end, and what each has established.
ShutdownInv ==
    /\ sup # "workers" => \A w \in Workers : pc[w] = "exited"
    /\ sup \notin {"workers", "monitor"} => mon = "exited"
    /\ sup # "drain" => drainTask = NoTask
    /\ sup = "drain" => fully
    /\ sup \in {"drain", "announce", "gone"} /\ fully => ~RealError
    /\ sup \in {"announce", "gone"} =>
          IF fully THEN queue = <<>>
          ELSE ctxDone \/ \E w \in Workers : errVal[w] # "none"
    /\ result = "ok" => sup = "gone" /\ fully

\* A worker that will fetch or requeue the rest of its task.  A worker whose
\* current task is marked as stolen will not; if the steal was planned for
\* another task, nobody else will either.
Responsible(w) ==
    \/ pc[w] = "backoff"
    \/ Running(w) /\ ~(stealFlag[w] /\ covers[w])

\* What the monitor is committed to push.
Pushing == IF mon \in {"mark", "cancel", "push"} THEN BytesOf(leftover) ELSE {}

Queued(q, b) == \E i \in 1..Len(q) : b \in BytesOf(q[i])
InCharge(b) == \E w \in Workers : Responsible(w) /\ b \in BytesOf(Remaining(w))

Accounted(b) ==
    \/ b \in written \/ b \in lost
    \/ Queued(queue, b) \/ InCharge(b)
    \/ b \in Pushing \/ b \in BytesOf(drainTask)

\* Every byte is written, lost, or in the hands of somebody who will see to it,
\* until a failure is certain to be reported.
AccountInv ==
    \/ RealError
    \/ sup \in {"announce", "gone"} /\ ~fully
    \/ \A b \in Bytes : Accounted(b)

IInv == TypeInv /\ ClaimsInv /\ ErrorInv /\ StealInv /\ ShutdownInv /\ AccountInv

----
(* Tasks. *)

LEMMA TaskFields ==
    ASSUME NEW t \in Tasks
    PROVE  /\ t.Start \in Int /\ t.End \in Int
           /\ 0 <= t.Start /\ t.Start <= t.End /\ t.End < Size
           /\ t = [Start |-> t.Start, End |-> t.End]
           /\ t # NoTask
           /\ TaskLen(t) \in 1..Size
           /\ BytesOf(t) \subseteq Bytes
  BY SizeAssumption DEF Tasks, NoTask, TaskLen, BytesOf, Bytes

\* A task without a proper prefix of it is a task.
LEMMA RestIsTask ==
    ASSUME NEW t \in Tasks, NEW d \in Nat, d < TaskLen(t)
    PROVE  [Start |-> t.Start + d, End |-> t.End] \in Tasks
  BY TaskFields, SizeAssumption DEF Tasks, TaskLen, Bytes

LEMMA NoTaskFields == NoTask.Start = 0 /\ NoTask.End = -1 /\ TaskLen(NoTask) = 0
                      /\ BytesOf(NoTask) = {} /\ NoTask \notin Tasks
  BY DEF NoTask, TaskLen, BytesOf, Tasks, Bytes

LEMMA TaskOrNone ==
    ASSUME NEW t \in Tasks \cup {NoTask}
    PROVE  /\ t.Start \in Nat /\ t.End \in Int /\ TaskLen(t) \in 0..Size
           /\ BytesOf(t) \subseteq Bytes
  BY TaskFields, NoTaskFields, SizeAssumption

\* What a worker that holds a task has left.
LEMMA RemainingFields ==
    ASSUME TypeInv, NEW w \in Workers
    PROVE  /\ bytesDone[w] \in Nat
           /\ curTask[w].Start \in Nat /\ curTask[w].End \in Int
           /\ Prefix(w) \subseteq Bytes
           /\ InHand(w) => curTask[w] \in Tasks
           /\ bytesDone[w] < TaskLen(curTask[w]) => BytesOf(Remaining(w)) \subseteq Bytes
           /\ InHand(w) /\ bytesDone[w] < TaskLen(curTask[w]) => Remaining(w) \in Tasks
  <1>1. /\ curTask[w] \in Tasks \cup {NoTask} /\ bytesDone[w] \in 0..Size
        /\ bytesDone[w] <= TaskLen(curTask[w]) /\ (InHand(w) => curTask[w] \in Tasks)
    BY DEF TypeInv, WorkerTypes, WorkerOK
  <1>2. CASE curTask[w] = NoTask
    BY <1>1, <1>2, NoTaskFields, SizeAssumption DEF Prefix, Remaining, BytesOf
  <1>3. CASE curTask[w] \in Tasks
    <2>1. /\ curTask[w].Start \in Nat /\ curTask[w].End \in Nat
          /\ curTask[w].End < Size /\ bytesDone[w] \in Nat
          /\ bytesDone[w] <= curTask[w].End - curTask[w].Start + 1
      BY <1>1, <1>3, TaskFields, SizeAssumption DEF TaskLen
    <2>2. Prefix(w) \subseteq Bytes
      BY <2>1, SizeAssumption DEF Prefix, Bytes
    <2>3. bytesDone[w] < TaskLen(curTask[w]) => Remaining(w) \in Tasks
      BY <1>3, <2>1, RestIsTask DEF Remaining
    <2>4. bytesDone[w] < TaskLen(curTask[w]) => BytesOf(Remaining(w)) \subseteq Bytes
      <3> SUFFICES ASSUME bytesDone[w] < TaskLen(curTask[w])
                   PROVE  BytesOf(Remaining(w)) \subseteq Bytes
        OBVIOUS
      <3> QED BY <2>3, TaskFields
    <2>5. curTask[w].End \in Int
      BY <2>1
    <2> QED BY <1>1, <2>1, <2>2, <2>3, <2>4, <2>5, Zenon
  <1> QED BY <1>1, <1>2, <1>3

----
(* The type invariant. *)

LEMMA TypeInit == Init => TypeInv
  <1> SUFFICES ASSUME Init PROVE TypeInv
    OBVIOUS
  <1>1. WorkerTypes /\ SharedTypes /\ SupervisionTypes /\ DataTypes
    <2>1. WorkerTypes
      BY SizeAssumption, TuningAssumption DEF Init, WorkerTypes, Errors
    <2>2. SharedTypes
      <3>1. env \in Scenarios /\ ctxDone = FALSE /\ queue = Seeds
        BY DEF Init
      <3>2. retryCount = [t \in Tasks |-> 0] /\ retryProgress = [t \in Tasks |-> -1]
        BY DEF Init
      <3>3. Seeds \in Seq(Tasks)
        BY SeedsAssumption
      <3>4. retryCount \in [Tasks -> Nat] /\ retryProgress \in [Tasks -> -1..Size]
        BY <3>2, SizeAssumption
      <3> QED BY <3>1, <3>3, <3>4 DEF SharedTypes
    <2>3. SupervisionTypes
      <3>1. /\ mon = IF env.stealing THEN "idle" ELSE "exited"
            /\ victim = 1 /\ planned = NoTask /\ leftover = NoTask
            /\ sup = "workers" /\ fully = FALSE /\ drainTask = NoTask
            /\ main = "select" /\ result = "none"
        BY DEF Init
      <3>2. victim \in Workers
        BY <3>1, SizeAssumption DEF Workers
      <3> QED BY <3>1, <3>2 DEF SupervisionTypes
    <2>4. DataTypes
      BY SeedsAssumption, SizeAssumption DEF Init, DataTypes, NoneBefore
    <2> QED BY <2>1, <2>2, <2>3, <2>4
  <1>2. WorkerOK
    BY NoTaskFields DEF Init, WorkerOK, InHand, Running
  <1>3. MonitorOK
    BY DEF Init, MonitorOK
  <1> QED BY <1>1, <1>2, <1>3 DEF TypeInv

\* A fatal error keeps the types whatever raised it.
LEMMA DieTypes ==
    ASSUME TypeInv, NEW w \in Workers, NEW e \in Errors, Die(w, e)
    PROVE  TypeInv'
  <1>t. WorkerTypes /\ SharedTypes /\ SupervisionTypes /\ DataTypes /\ WorkerOK /\ MonitorOK
    BY DEF TypeInv
  <1>1. WorkerTypes'
    BY <1>t DEF Die, SetErr, WorkerTypes
  <1>2. (SharedTypes /\ SupervisionTypes /\ DataTypes)'
    BY <1>t, SMTT(60) DEF Die, SharedTypes, SupervisionTypes, DataTypes, retryVars, monVars,
                supVars, mainVars, dataVars
  <1>3. WorkerOK'
    BY <1>t DEF Die, WorkerTypes, WorkerOK, InHand, Running
  <1>4. MonitorOK'
    BY <1>t DEF Die, MonitorOK, monVars
  <1> QED BY <1>1, <1>2, <1>3, <1>4 DEF TypeInv

\* So does abandoning a task: the rest of it is still a task.
LEMMA AbandonTypes ==
    ASSUME TypeInv, NEW w \in Workers, Abandon(w)
    PROVE  TypeInv'
  <1>t. WorkerTypes /\ SharedTypes /\ SupervisionTypes /\ DataTypes /\ WorkerOK /\ MonitorOK
    BY DEF TypeInv
  <1>r. /\ curTask[w] \in Tasks /\ Remaining(w) \in Tasks
        /\ BytesOf(Remaining(w)) \subseteq Bytes /\ Prefix(w) \subseteq Bytes
    BY RemainingFields DEF Abandon, InHand
  <1>s. SkipStolen(w) \/ Requeue(w)
    BY DEF Abandon
  <1>n. RetriesUsed(w) \in Nat
    BY <1>t, <1>r DEF RetriesUsed, SharedTypes
  <1>1. WorkerTypes'
    BY <1>t, <1>s DEF Abandon, SkipStolen, Requeue, SetErr, WorkerTypes, Errors
  <1>2. SharedTypes'
    <2>1. env' = env /\ ctxDone' = ctxDone
      BY DEF Abandon
    <2>2. queue' \in Seq(Tasks)
      <3>1. queue' = queue \/ queue' = Append(queue, Remaining(w))
        BY <1>s DEF SkipStolen, Requeue
      <3>2. queue \in Seq(Tasks)
        BY <1>t DEF SharedTypes
      <3> QED BY <1>r, <3>1, <3>2, AppendProperties
    <2>3. retryCount' \in [Tasks -> Nat] /\ retryProgress' \in [Tasks -> -1..Size]
      <3>1. CASE SkipStolen(w)
        BY <1>t, <3>1 DEF SkipStolen, SharedTypes, retryVars
      <3>2. CASE Requeue(w)
        <4>1. bytesDone[w] \in 0..Size
          BY <1>t DEF WorkerTypes
        <4>2. retryProgress' \in [Tasks -> -1..Size]
          <5>1. retryProgress' = [retryProgress EXCEPT ![curTask[w]] = bytesDone[w]]
            BY <3>2 DEF Requeue
          <5>2. retryProgress \in [Tasks -> -1..Size] /\ bytesDone[w] \in -1..Size
            BY <1>t, <4>1 DEF SharedTypes
          <5> QED BY <5>1, <5>2
        <4>3. retryCount' \in [Tasks -> Nat]
          BY <1>t, <3>2, <1>n DEF Requeue, SharedTypes
        <4> QED BY <4>2, <4>3
      <3> QED BY <1>s, <3>1, <3>2
    <2> QED BY <1>t, <2>1, <2>2, <2>3 DEF SharedTypes
  <1>3. SupervisionTypes'
    BY <1>t DEF Abandon, SupervisionTypes, monVars, supVars, mainVars
  <1>4. DataTypes'
    BY <1>t, <1>s, <1>r
       DEF Abandon, SkipStolen, Requeue, Record, DataTypes, mainVars
  <1>5. WorkerOK'
    <2>1. /\ curTask' = curTask /\ bytesDone' = bytesDone
          /\ bytesDone[w] < TaskLen(curTask[w])
          /\ cancelFn' = [cancelFn EXCEPT ![w] = "nil"]
          /\ Running(w)
      BY DEF Abandon
    <2>2. pc' = [pc EXCEPT ![w] = "loop"] \/ pc' = [pc EXCEPT ![w] = "backoff"]
      BY <1>s DEF SkipStolen, Requeue
    <2> QED BY <1>t, <1>r, <2>1, <2>2 DEF WorkerTypes, WorkerOK, InHand, Running
  <1>6. MonitorOK'
    BY <1>t DEF Abandon, MonitorOK, monVars
  <1> QED BY <1>1, <1>2, <1>3, <1>4, <1>5, <1>6 DEF TypeInv

\* A save leaves the engine alone, and its sidecar is about bytes of the file.
LEMMA SaveTypes ==
    ASSUME TypeInv, SaveResume
    PROVE  /\ sidecar' \in [unfetched: SUBSET Bytes, torn: BOOLEAN]
           /\ before' \in [Workers -> [task: Tasks \cup {NoTask}, done: 0..Size]]
  <1>t. /\ completed \subseteq Bytes
        /\ curTask \in [Workers -> Tasks \cup {NoTask}]
        /\ before \in [Workers -> [task: Tasks \cup {NoTask}, done: 0..Size]]
    BY DEF TypeInv, DataTypes, WorkerTypes
  <1>1. PICK p \in Pairs :
          sidecar' = [unfetched |-> (completed \cup Promoted(p)) \ written,
                      torn |-> p.torn /\ Promoted(p) # {}]
    BY DEF SaveResume
  <1>2. p.task \in Tasks \cup {NoTask} /\ p.torn \in BOOLEAN
    <2>1. CASE p = Pair(NoTask, 0, FALSE)
      BY <2>1 DEF Pair
    <2>2. CASE p \in TruePairs
      <3>1. PICK w \in Workers : p = Pair(curTask[w], bytesDone[w], FALSE)
        BY <2>2 DEF TruePairs
      <3> QED BY <1>t, <3>1 DEF Pair
    <2>3. CASE p \in TornPairs
      <3>1. PICK w \in Workers : \/ p = Pair(curTask[w], before[w].done, TRUE)
                                 \/ p = Pair(before[w].task, bytesDone[w], TRUE)
        BY <2>3 DEF TornPairs
      <3>2. before[w].task \in Tasks \cup {NoTask} /\ curTask[w] \in Tasks \cup {NoTask}
        BY <1>t
      <3>3. (p.task = curTask[w] \/ p.task = before[w].task) /\ p.torn = TRUE
        BY <3>1 DEF Pair
      <3> QED BY <3>2, <3>3
    <2> QED BY <1>1, <2>1, <2>2, <2>3 DEF Pairs
  <1>3. Promoted(p) \subseteq Bytes
    <2>1. CASE p.task = NoTask
      BY <2>1, NoTaskFields DEF Promoted
    <2>2. CASE p.task \in Tasks
      <3>1. /\ p.task.Start \in Int /\ p.task.End \in Int
            /\ 0 <= p.task.Start /\ p.task.End < Size
        BY <2>2, TaskFields
      <3> QED BY <3>1, SizeAssumption DEF Promoted, TaskLen, Bytes
    <2> QED BY <1>2, <2>1, <2>2
  <1>4. before' = NoneBefore
    BY DEF SaveResume
  <1>5. (p.torn /\ Promoted(p) # {}) \in BOOLEAN
    BY Zenon
  <1> QED BY <1>t, <1>1, <1>3, <1>4, <1>5, SizeAssumption DEF NoneBefore

LEMMA TypeStep == TypeInv /\ [Next]_vars => TypeInv'
  <1> SUFFICES ASSUME TypeInv, [Next]_vars PROVE TypeInv'
    OBVIOUS
  <1> USE SizeAssumption, TuningAssumption
  <1>t. WorkerTypes /\ SharedTypes /\ SupervisionTypes /\ DataTypes /\ WorkerOK /\ MonitorOK
    BY DEF TypeInv
  <1>1. ASSUME NEW w \in Workers, Take(w) PROVE TypeInv'
    <2>1. Head(queue) \in Tasks /\ Tail(queue) \in Seq(Tasks)
      BY <1>t, <1>1, HeadTailProperties DEF Take, StartTask, SharedTypes
    <2>2. TaskLen(Head(queue)) \in 1..Size
      BY <2>1, TaskFields
    <2>3. WorkerTypes'
      BY <1>t, <1>1, <2>1 DEF Take, StartTask, WorkerTypes
    <2>4. SharedTypes'
      BY <1>t, <1>1, <2>1 DEF Take, SharedTypes, retryVars
    <2>7. SupervisionTypes'
      BY <1>t, <1>1 DEF Take, SupervisionTypes, monVars, supVars
    <2>8. DataTypes'
      <3>1. /\ before' = [before EXCEPT ![w] = [task |-> curTask[w], done |-> bytesDone[w]]]
            /\ UNCHANGED <<written, completed, lost, sidecar>>
        BY <1>1 DEF Take, StartTask, dataVars
      <3>2. [task |-> curTask[w], done |-> bytesDone[w]]
                \in [task: Tasks \cup {NoTask}, done: 0..Size]
        BY <1>t DEF WorkerTypes
      <3>3. before' \in [Workers -> [task: Tasks \cup {NoTask}, done: 0..Size]]
        BY <1>t, <3>1, <3>2 DEF DataTypes
      <3> QED BY <1>t, <3>1, <3>3 DEF DataTypes
    <2>5. WorkerOK'
      BY <1>t, <1>1, <2>1, <2>2 DEF Take, StartTask, WorkerTypes, WorkerOK, InHand, Running
    <2>6. MonitorOK'
      BY <1>t, <1>1, <2>1 DEF Take, StartTask, MonitorOK, monVars
    <2> QED BY <2>3, <2>4, <2>5, <2>6, <2>7, <2>8 DEF TypeInv
  <1>2. ASSUME NEW w \in Workers, QuitCancelled(w) PROVE TypeInv'
    <2>1. WorkerTypes'
      BY <1>t, <1>2 DEF QuitCancelled, WorkerTypes, SetErr, Errors
    <2>2. (SharedTypes /\ SupervisionTypes /\ DataTypes)'
      BY <1>t, <1>2, SMTT(60) DEF QuitCancelled, SharedTypes, SupervisionTypes, DataTypes,
         retryVars, monVars, supVars, mainVars, dataVars
    <2>3. WorkerOK'
      BY <1>t, <1>2 DEF QuitCancelled, WorkerTypes, WorkerOK, InHand, Running
    <2>4. MonitorOK'
      BY <1>t, <1>2 DEF QuitCancelled, MonitorOK, monVars
    <2> QED BY <2>1, <2>2, <2>3, <2>4 DEF TypeInv
  <1>3. ASSUME NEW w \in Workers, QuitIdle(w) PROVE TypeInv'
    <2>1. WorkerTypes'
      BY <1>t, <1>3 DEF QuitIdle, WorkerTypes, workerVars
    <2>2. (SharedTypes /\ SupervisionTypes /\ DataTypes)'
      BY <1>t, <1>3 DEF QuitIdle, SharedTypes, SupervisionTypes, DataTypes, retryVars,
         monVars, supVars, mainVars, dataVars
    <2>3. WorkerOK'
      BY <1>t, <1>3 DEF QuitIdle, WorkerTypes, WorkerOK, InHand, Running, workerVars
    <2>4. MonitorOK'
      BY <1>t, <1>3 DEF QuitIdle, MonitorOK, monVars
    <2> QED BY <2>1, <2>2, <2>3, <2>4 DEF TypeInv
  <1>4. ASSUME NEW w \in Workers, Respond(w) \/ Refuse(w) PROVE TypeInv'
    <2>1. WorkerTypes'
      BY <1>t, <1>4 DEF Respond, Refuse, WorkerTypes, workerVars
    <2>2. (SharedTypes /\ SupervisionTypes /\ DataTypes)'
      BY <1>t, <1>4, SMTT(60) DEF Respond, Refuse, SharedTypes, SupervisionTypes, DataTypes, retryVars,
         monVars, supVars, mainVars, dataVars
    <2>3. WorkerOK'
      BY <1>t, <1>4 DEF Respond, Refuse, WorkerTypes, WorkerOK, InHand, Running, workerVars
    <2>4. MonitorOK'
      BY <1>t, <1>4 DEF Respond, Refuse, MonitorOK, monVars
    <2> QED BY <2>1, <2>2, <2>3, <2>4 DEF TypeInv
  <1>5. ASSUME NEW w \in Workers, RetryStatus(w) PROVE TypeInv'
    <2>1. WorkerTypes'
      BY <1>t, <1>5 DEF RetryStatus, WorkerTypes
    <2>2. (SharedTypes /\ SupervisionTypes /\ DataTypes)'
      BY <1>t, <1>5, SMTT(60) DEF RetryStatus, SharedTypes, SupervisionTypes, DataTypes,
         retryVars, monVars, supVars, mainVars, dataVars
    <2>3. WorkerOK'
      BY <1>t, <1>5 DEF RetryStatus, WorkerTypes, WorkerOK, InHand, Running
    <2>4. MonitorOK'
      BY <1>t, <1>5 DEF RetryStatus, MonitorOK, monVars
    <2> QED BY <2>1, <2>2, <2>3, <2>4 DEF TypeInv
  <1>6. ASSUME NEW w \in Workers, StatusExhausted(w) PROVE TypeInv'
    BY <1>6, DieTypes DEF StatusExhausted, Errors
  <1>7. ASSUME NEW w \in Workers, NoRange(w) PROVE TypeInv'
    BY <1>7, DieTypes DEF NoRange, Errors
  <1>8. ASSUME NEW w \in Workers, Fatal(w) PROVE TypeInv'
    BY <1>8, DieTypes DEF Fatal, Errors
  <1>9. ASSUME NEW w \in Workers, Corrupt(w) PROVE TypeInv'
    BY <1>9, DieTypes DEF Corrupt, Errors
  <1>10. ASSUME NEW w \in Workers, Read(w) PROVE TypeInv'
    <2>1. /\ bytesDone[w] \in Nat /\ bytesDone[w] + 1 <= TaskLen(curTask[w])
          /\ curTask[w] \in Tasks /\ TaskLen(curTask[w]) \in 1..Size
          /\ BytesOf(curTask[w]) \subseteq Bytes
      BY <1>10, RemainingFields, TaskFields DEF Read, InHand, Running
    <2>2. curTask[w].Start + bytesDone[w] \in Bytes
      BY <2>1, TaskFields DEF TaskLen, Bytes
    <2>3. bytesDone[w] + 1 \in 0..Size
      BY <2>1
    <2>4. WorkerTypes'
      BY <1>t, <1>10, <2>3 DEF Read, WorkerTypes
    <2>5. (SharedTypes /\ SupervisionTypes /\ DataTypes)'
      BY <1>t, <1>10, <2>2, SMTT(60) DEF Read, SharedTypes, SupervisionTypes, DataTypes,
         retryVars, monVars, supVars, mainVars
    <2>6. WorkerOK'
      BY <1>t, <1>10, <2>1 DEF Read, WorkerTypes, WorkerOK, InHand, Running
    <2>7. MonitorOK'
      BY <1>t, <1>10 DEF Read, MonitorOK, monVars
    <2> QED BY <2>4, <2>5, <2>6, <2>7 DEF TypeInv
  <1>11. ASSUME NEW w \in Workers, Finish(w) PROVE TypeInv'
    <2>1. BytesOf(curTask[w]) \subseteq Bytes
      BY <1>11, RemainingFields, TaskFields DEF Finish, InHand, Running
    <2>2. WorkerTypes'
      BY <1>t, <1>11 DEF Finish, WorkerTypes
    <2>3. (SharedTypes /\ SupervisionTypes /\ DataTypes)'
      BY <1>t, <1>11, <2>1, SMTT(60) DEF Finish, SharedTypes, SupervisionTypes, DataTypes,
         retryVars, monVars, supVars, mainVars, Record
    <2>4. WorkerOK'
      BY <1>t, <1>11 DEF Finish, WorkerTypes, WorkerOK, InHand, Running
    <2>5. MonitorOK'
      BY <1>t, <1>11 DEF Finish, MonitorOK, monVars
    <2> QED BY <2>2, <2>3, <2>4, <2>5 DEF TypeInv
  <1>12. ASSUME NEW w \in Workers, Interrupted(w) PROVE TypeInv'
    BY <1>12, AbandonTypes DEF Interrupted
  <1>13. ASSUME NEW w \in Workers, Transient(w) PROVE TypeInv'
    BY <1>13, AbandonTypes DEF Transient
  <1>14. ASSUME NEW w \in Workers, BackoffElapsed(w) PROVE TypeInv'
    <2>1. Append(queue, Remaining(w)) \in Seq(Tasks)
      BY <1>t, <1>14, RemainingFields, AppendProperties
         DEF BackoffElapsed, SharedTypes, WorkerOK, InHand
    <2>2. WorkerTypes'
      BY <1>t, <1>14 DEF BackoffElapsed, WorkerTypes, workerVars
    <2>3. (SharedTypes /\ SupervisionTypes /\ DataTypes)'
      BY <1>t, <1>14, <2>1, SMTT(60) DEF BackoffElapsed, SharedTypes, SupervisionTypes, DataTypes,
         retryVars, monVars, supVars, mainVars, dataVars
    <2>4. WorkerOK'
      BY <1>t, <1>14 DEF BackoffElapsed, WorkerTypes, WorkerOK, InHand, Running,
         workerVars
    <2>5. MonitorOK'
      BY <1>t, <1>14 DEF BackoffElapsed, MonitorOK, monVars
    <2> QED BY <2>2, <2>3, <2>4, <2>5 DEF TypeInv
  <1>15. ASSUME NEW w \in Workers, BackoffCancelled(w) PROVE TypeInv'
    <2>1. BytesOf(Remaining(w)) \subseteq Bytes
      BY <1>t, <1>15, RemainingFields DEF BackoffCancelled, WorkerOK
    <2>2. WorkerTypes'
      BY <1>t, <1>15 DEF BackoffCancelled, WorkerTypes, SetErr, Errors
    <2>3. (SharedTypes /\ SupervisionTypes /\ DataTypes)'
      BY <1>t, <1>15, <2>1, SMTT(60) DEF BackoffCancelled, SharedTypes, SupervisionTypes,
         DataTypes, retryVars, monVars, supVars, mainVars
    <2>4. WorkerOK'
      BY <1>t, <1>15 DEF BackoffCancelled, WorkerTypes, WorkerOK, InHand, Running
    <2>5. MonitorOK'
      BY <1>t, <1>15 DEF BackoffCancelled, MonitorOK, monVars
    <2> QED BY <2>2, <2>3, <2>4, <2>5 DEF TypeInv
  <1>16. ASSUME NEW w \in Workers, PlanTask(w) PROVE TypeInv'
    <2>1. curTask[w] \in Tasks
      BY <1>t, <1>16 DEF PlanTask, WorkerTypes
    <2>2. WorkerTypes'
      BY <1>t, <1>16 DEF PlanTask, WorkerTypes, workerVars
    <2>3. (SharedTypes /\ SupervisionTypes /\ DataTypes)'
      BY <1>t, <1>16, <2>1, SMTT(60) DEF PlanTask, SharedTypes, SupervisionTypes, DataTypes,
         retryVars, supVars, mainVars, dataVars
    <2>4. WorkerOK'
      BY <1>t, <1>16 DEF PlanTask, WorkerTypes, WorkerOK, InHand, Running, workerVars
    <2>5. MonitorOK'
      BY <1>t, <1>16, <2>1 DEF PlanTask, MonitorOK
    <2> QED BY <2>2, <2>3, <2>4, <2>5 DEF TypeInv
  <1>32. ASSUME PlanProgress PROVE TypeInv'
    <2>1. leftover' \in Tasks
      <3>1. planned \in Tasks /\ bytesDone[victim] \in Nat
        BY <1>t, <1>32 DEF PlanProgress, MonitorOK, SupervisionTypes, WorkerTypes
      <3>2. /\ leftover' = [Start |-> planned.Start + bytesDone[victim], End |-> planned.End]
            /\ planned.Start + bytesDone[victim] + MinChunk <= planned.End
        BY <1>32 DEF PlanProgress
      <3>3. bytesDone[victim] < TaskLen(planned)
        BY <3>1, <3>2, TaskFields DEF TaskLen
      <3> QED BY <3>1, <3>2, <3>3, RestIsTask
    <2>2. WorkerTypes'
      BY <1>t, <1>32 DEF PlanProgress, WorkerTypes, workerVars
    <2>3. (SharedTypes /\ SupervisionTypes /\ DataTypes)'
      BY <1>t, <1>32, <2>1, SMTT(60) DEF PlanProgress, SharedTypes, SupervisionTypes, DataTypes,
         retryVars, supVars, mainVars, dataVars
    <2>4. WorkerOK'
      BY <1>t, <1>32 DEF PlanProgress, WorkerTypes, WorkerOK, InHand, Running, workerVars
    <2>5. MonitorOK'
      BY <1>t, <1>32, <2>1 DEF PlanProgress, MonitorOK
    <2> QED BY <2>2, <2>3, <2>4, <2>5 DEF TypeInv
  <1>33. ASSUME Claim PROVE TypeInv'
    <2>2. WorkerTypes'
      BY <1>t, <1>33 DEF Claim, WorkerTypes
    <2>3. (SharedTypes /\ SupervisionTypes /\ DataTypes)'
      BY <1>t, <1>33, SMTT(60) DEF Claim, SharedTypes, SupervisionTypes, DataTypes,
         retryVars, supVars, mainVars, dataVars
    <2>4. WorkerOK'
      BY <1>t, <1>33 DEF Claim, WorkerTypes, WorkerOK, InHand, Running
    <2>5. MonitorOK'
      BY <1>t, <1>33 DEF Claim, MonitorOK
    <2> QED BY <2>2, <2>3, <2>4, <2>5 DEF TypeInv
  <1>34. ASSUME PlanDrop PROVE TypeInv'
    <2>2. WorkerTypes'
      BY <1>t, <1>34 DEF PlanDrop, WorkerTypes, workerVars
    <2>3. (SharedTypes /\ SupervisionTypes /\ DataTypes)'
      BY <1>t, <1>34 DEF PlanDrop, SharedTypes, SupervisionTypes, DataTypes,
         retryVars, supVars, mainVars, dataVars
    <2>4. WorkerOK'
      BY <1>t, <1>34 DEF PlanDrop, WorkerTypes, WorkerOK, InHand, Running, workerVars
    <2>5. MonitorOK'
      BY <1>t, <1>34 DEF PlanDrop, MonitorOK
    <2> QED BY <2>2, <2>3, <2>4, <2>5 DEF TypeInv
  <1>17. ASSUME Mark PROVE TypeInv'
    <2>1. WorkerTypes'
      BY <1>t, <1>17 DEF Mark, WorkerTypes
    <2>2. (SharedTypes /\ SupervisionTypes /\ DataTypes)'
      BY <1>t, <1>17, SMTT(60) DEF Mark, SharedTypes, SupervisionTypes, DataTypes, retryVars,
         supVars, mainVars, dataVars
    <2>3. WorkerOK'
      BY <1>t, <1>17 DEF Mark, WorkerTypes, WorkerOK, InHand, Running
    <2>4. MonitorOK'
      BY <1>t, <1>17 DEF Mark, MonitorOK
    <2> QED BY <2>1, <2>2, <2>3, <2>4 DEF TypeInv
  <1>18. ASSUME CancelVictim PROVE TypeInv'
    <2>1. WorkerTypes'
      BY <1>t, <1>18 DEF CancelVictim, WorkerTypes
    <2>2. (SharedTypes /\ SupervisionTypes /\ DataTypes)'
      BY <1>t, <1>18, SMTT(60) DEF CancelVictim, SharedTypes, SupervisionTypes, DataTypes,
         retryVars, supVars, mainVars, dataVars
    <2>3. WorkerOK'
      BY <1>t, <1>18 DEF CancelVictim, WorkerTypes, WorkerOK, InHand, Running
    <2>4. MonitorOK'
      BY <1>t, <1>18 DEF CancelVictim, MonitorOK
    <2> QED BY <2>1, <2>2, <2>3, <2>4 DEF TypeInv
  <1>19. ASSUME PushLeftover PROVE TypeInv'
    <2>1. Append(queue, leftover) \in Seq(Tasks)
      BY <1>t, <1>19, AppendProperties DEF PushLeftover, SharedTypes, MonitorOK
    <2>2. WorkerTypes'
      BY <1>t, <1>19 DEF PushLeftover, WorkerTypes, workerVars
    <2>3. (SharedTypes /\ SupervisionTypes /\ DataTypes)'
      BY <1>t, <1>19, <2>1, SMTT(60) DEF PushLeftover, SharedTypes, SupervisionTypes, DataTypes,
         retryVars, supVars, mainVars, dataVars
    <2>4. WorkerOK'
      BY <1>t, <1>19 DEF PushLeftover, WorkerTypes, WorkerOK, InHand, Running,
         workerVars
    <2>5. MonitorOK'
      BY <1>t, <1>19 DEF PushLeftover, MonitorOK
    <2> QED BY <2>2, <2>3, <2>4, <2>5 DEF TypeInv
  <1>20. ASSUME MonitorExit PROVE TypeInv'
    <2>1. WorkerTypes'
      BY <1>t, <1>20 DEF MonitorExit, WorkerTypes, workerVars
    <2>2. (SharedTypes /\ SupervisionTypes /\ DataTypes)'
      BY <1>t, <1>20, SMTT(60) DEF MonitorExit, SharedTypes, SupervisionTypes, DataTypes,
         retryVars, supVars, mainVars, dataVars
    <2>3. WorkerOK'
      BY <1>t, <1>20 DEF MonitorExit, WorkerTypes, WorkerOK, InHand, Running, workerVars
    <2>4. MonitorOK'
      BY <1>t, <1>20 DEF MonitorExit, MonitorOK
    <2> QED BY <2>1, <2>2, <2>3, <2>4 DEF TypeInv
  <1>21. ASSUME WorkersDone PROVE TypeInv'
    <2>1. WorkerTypes'
      BY <1>t, <1>21 DEF WorkersDone, WorkerTypes, workerVars
    <2>2. (SharedTypes /\ SupervisionTypes /\ DataTypes)'
      BY <1>t, <1>21, SMTT(60) DEF WorkersDone, SharedTypes, SupervisionTypes, DataTypes,
         retryVars, monVars, mainVars, dataVars
    <2>3. WorkerOK'
      BY <1>t, <1>21 DEF WorkersDone, WorkerTypes, WorkerOK, InHand, Running, workerVars
    <2>4. MonitorOK'
      BY <1>t, <1>21 DEF WorkersDone, MonitorOK, monVars
    <2> QED BY <2>1, <2>2, <2>3, <2>4 DEF TypeInv
  <1>22. ASSUME Assess PROVE TypeInv'
    <2>1. WorkerTypes'
      BY <1>t, <1>22 DEF Assess, WorkerTypes, workerVars
    <2>2. (SharedTypes /\ SupervisionTypes /\ DataTypes)'
      BY <1>t, <1>22 DEF Assess, SharedTypes, SupervisionTypes, DataTypes, retryVars,
         monVars, mainVars, dataVars, AllTasksDone, RealError
    <2>3. WorkerOK'
      BY <1>t, <1>22 DEF Assess, WorkerTypes, WorkerOK, InHand, Running, workerVars
    <2>4. MonitorOK'
      BY <1>t, <1>22 DEF Assess, MonitorOK, monVars
    <2> QED BY <2>1, <2>2, <2>3, <2>4 DEF TypeInv
  <1>23. ASSUME DrainTake PROVE TypeInv'
    <2>1. Head(queue) \in Tasks /\ Tail(queue) \in Seq(Tasks)
      BY <1>t, <1>23, HeadTailProperties DEF DrainTake, SharedTypes
    <2>2. WorkerTypes'
      BY <1>t, <1>23 DEF DrainTake, WorkerTypes, workerVars
    <2>3. (SharedTypes /\ SupervisionTypes /\ DataTypes)'
      BY <1>t, <1>23, <2>1, SMTT(60) DEF DrainTake, SharedTypes, SupervisionTypes, DataTypes,
         retryVars, monVars, mainVars, dataVars
    <2>4. WorkerOK'
      BY <1>t, <1>23 DEF DrainTake, WorkerTypes, WorkerOK, InHand, Running, workerVars
    <2>5. MonitorOK'
      BY <1>t, <1>23 DEF DrainTake, MonitorOK, monVars
    <2> QED BY <2>2, <2>3, <2>4, <2>5 DEF TypeInv
  <1>24. ASSUME DrainOk PROVE TypeInv'
    <2>1. BytesOf(drainTask) \subseteq Bytes
      BY <1>t, TaskOrNone DEF SupervisionTypes
    <2>2. WorkerTypes'
      BY <1>t, <1>24 DEF DrainOk, WorkerTypes, workerVars
    <2>3. (SharedTypes /\ SupervisionTypes /\ DataTypes)'
      BY <1>t, <1>24, <2>1, SMTT(60) DEF DrainOk, SharedTypes, SupervisionTypes, DataTypes,
         retryVars, monVars, mainVars, Record
    <2>4. WorkerOK'
      BY <1>t, <1>24 DEF DrainOk, WorkerTypes, WorkerOK, InHand, Running, workerVars
    <2>5. MonitorOK'
      BY <1>t, <1>24 DEF DrainOk, MonitorOK, monVars
    <2> QED BY <2>2, <2>3, <2>4, <2>5 DEF TypeInv
  <1>25. ASSUME DrainFail PROVE TypeInv'
    <2>1. PICK k \in 0..TaskLen(drainTask), e \in {"cancel", "norange", "real"} :
            /\ written' = written \cup drainTask.Start..(drainTask.Start + k - 1)
            /\ errVal' = [w \in Workers |-> IF errVal[w] = "none" THEN e ELSE errVal[w]]
      BY <1>25 DEF DrainFail
    <2>2. drainTask \in Tasks
      BY <1>t, <1>25 DEF DrainFail, SupervisionTypes
    <2>3. drainTask.Start..(drainTask.Start + k - 1) \subseteq Bytes
      BY <2>2, TaskFields DEF TaskLen, Bytes
    <2>4. WorkerTypes'
      BY <1>t, <1>25, <2>1 DEF DrainFail, WorkerTypes, Errors
    <2>5. SharedTypes' /\ SupervisionTypes'
      <3>1. /\ drainTask' = NoTask /\ fully' = FALSE /\ sup' = "announce"
            /\ UNCHANGED <<env, ctxDone, queue, retryVars, monVars, mainVars>>
        BY <1>25 DEF DrainFail
      <3> QED BY <1>t, <3>1 DEF SharedTypes, SupervisionTypes, retryVars, monVars, mainVars
    <2>8. DataTypes'
      <3>1. written' \subseteq Bytes
        BY <1>t, <2>1, <2>3 DEF DataTypes
      <3> QED BY <1>t, <1>25, <3>1 DEF DrainFail, DataTypes, mainVars
    <2>6. WorkerOK'
      BY <1>t, <1>25 DEF DrainFail, WorkerTypes, WorkerOK, InHand, Running
    <2>7. MonitorOK'
      BY <1>t, <1>25 DEF DrainFail, MonitorOK, monVars
    <2> QED BY <2>4, <2>5, <2>6, <2>7, <2>8 DEF TypeInv
  <1>26. ASSUME DrainEnd PROVE TypeInv'
    <2>1. WorkerTypes'
      BY <1>t, <1>26 DEF DrainEnd, WorkerTypes, workerVars
    <2>2. (SharedTypes /\ SupervisionTypes /\ DataTypes)'
      BY <1>t, <1>26 DEF DrainEnd, SharedTypes, SupervisionTypes, DataTypes, retryVars,
         monVars, mainVars, dataVars
    <2>3. WorkerOK'
      BY <1>t, <1>26 DEF DrainEnd, WorkerTypes, WorkerOK, InHand, Running, workerVars
    <2>4. MonitorOK'
      BY <1>t, <1>26 DEF DrainEnd, MonitorOK, monVars
    <2> QED BY <2>1, <2>2, <2>3, <2>4 DEF TypeInv
  <1>27. ASSUME Save PROVE TypeInv'
    <2>1. /\ sidecar' \in [unfetched: SUBSET Bytes, torn: BOOLEAN]
          /\ before' \in [Workers -> [task: Tasks \cup {NoTask}, done: 0..Size]]
      BY <1>27, SaveTypes DEF Save
    <2>2. WorkerTypes'
      BY <1>t, <1>27 DEF Save, WorkerTypes, workerVars
    <2>3. (SharedTypes /\ SupervisionTypes)'
      BY <1>t, <1>27 DEF Save, SharedTypes, SupervisionTypes, retryVars, monVars, supVars
    <2>6. DataTypes'
      BY <1>t, <1>27, <2>1 DEF Save, DataTypes, dataVars
    <2>4. WorkerOK'
      BY <1>t, <1>27 DEF Save, WorkerTypes, WorkerOK, InHand, Running, workerVars
    <2>5. MonitorOK'
      BY <1>t, <1>27 DEF Save, MonitorOK, monVars
    <2> QED BY <2>2, <2>3, <2>4, <2>5, <2>6 DEF TypeInv
  <1>28. ASSUME Signalled PROVE TypeInv'
    <2>1. /\ sidecar' \in [unfetched: SUBSET Bytes, torn: BOOLEAN]
          /\ before' \in [Workers -> [task: Tasks \cup {NoTask}, done: 0..Size]]
      BY <1>t, <1>28, SaveTypes DEF Signalled, DataTypes
    <2>2. WorkerTypes'
      BY <1>t, <1>28 DEF Signalled, WorkerTypes, workerVars
    <2>3. (SharedTypes /\ SupervisionTypes)'
      BY <1>t, <1>28 DEF Signalled, SharedTypes, SupervisionTypes, retryVars, monVars, supVars
    <2>6. DataTypes'
      BY <1>t, <1>28, <2>1 DEF Signalled, DataTypes, dataVars
    <2>4. WorkerOK'
      BY <1>t, <1>28 DEF Signalled, WorkerTypes, WorkerOK, InHand, Running, workerVars
    <2>5. MonitorOK'
      BY <1>t, <1>28 DEF Signalled, MonitorOK, monVars
    <2> QED BY <2>2, <2>3, <2>4, <2>5, <2>6 DEF TypeInv
  <1>29. ASSUME Return PROVE TypeInv'
    <2>1. result' \in {"ok", "cancel"} \cup {errVal[w] : w \in {u \in Workers : FirstFailed(u)}}
      BY <1>29 DEF Return, FailureResult
    <2>2. \A w \in Workers : FirstFailed(w) => errVal[w] \in Errors \ {"none"}
      BY <1>t DEF WorkerTypes, FirstFailed
    <2>3. result' \in {"none", "ok"} \cup (Errors \ {"none"})
      BY <2>1, <2>2 DEF Errors
    <2>4. WorkerTypes'
      BY <1>t, <1>29 DEF Return, WorkerTypes, workerVars
    <2>5. (SharedTypes /\ SupervisionTypes /\ DataTypes)'
      BY <1>t, <1>29, <2>3 DEF Return, SharedTypes, SupervisionTypes, DataTypes,
         retryVars, monVars, dataVars
    <2>6. WorkerOK'
      BY <1>t, <1>29 DEF Return, WorkerTypes, WorkerOK, InHand, Running, workerVars
    <2>7. MonitorOK'
      BY <1>t, <1>29 DEF Return, MonitorOK, monVars
    <2> QED BY <2>4, <2>5, <2>6, <2>7 DEF TypeInv
  <1>30. ASSUME CtxCancel PROVE TypeInv'
    <2>1. WorkerTypes'
      BY <1>t, <1>30 DEF CtxCancel, WorkerTypes, workerVars
    <2>2. (SharedTypes /\ SupervisionTypes /\ DataTypes)'
      BY <1>t, <1>30, SMTT(60) DEF CtxCancel, SharedTypes, SupervisionTypes, DataTypes, retryVars,
         monVars, supVars, mainVars, dataVars
    <2>3. WorkerOK'
      BY <1>t, <1>30 DEF CtxCancel, WorkerTypes, WorkerOK, InHand, Running, workerVars
    <2>4. MonitorOK'
      BY <1>t, <1>30 DEF CtxCancel, MonitorOK, monVars
    <2> QED BY <2>1, <2>2, <2>3, <2>4 DEF TypeInv
  <1>31. ASSUME UNCHANGED vars PROVE TypeInv'
    BY <1>t, <1>31, SMTT(60)
       DEF vars, workerVars, retryVars, monVars, supVars, mainVars, dataVars, TypeInv,
           TypeOK, WorkerTypes, SharedTypes, SupervisionTypes, DataTypes, WorkerOK,
           MonitorOK, InHand, Running
  <1> QED
    BY <1>1, <1>2, <1>3, <1>4, <1>5, <1>6, <1>7, <1>8, <1>9, <1>10, <1>11, <1>12, <1>13,
       <1>14, <1>15, <1>16, <1>17, <1>18, <1>19, <1>20, <1>21, <1>22, <1>23, <1>24,
       <1>25, <1>26, <1>27, <1>28, <1>29, <1>30, <1>31, <1>32, <1>33, <1>34
       DEF Next, Worker, MonitorStep, Supervisor, Returned
----
(* Claims never run ahead of the file. *)

LEMMA ClaimsInit == Init => ClaimsInv
  <1> SUFFICES ASSUME Init PROVE ClaimsInv
    OBVIOUS
  <1>1. PrefixWritten
    BY NoTaskFields DEF Init, PrefixWritten, Prefix
  <1>2. ClaimsWritten
    BY DEF Init, ClaimsWritten
  <1> QED BY <1>1, <1>2 DEF ClaimsInv

LEMMA ClaimsStep == TypeInv /\ ClaimsInv /\ [Next]_vars => ClaimsInv'
  <1> SUFFICES ASSUME TypeInv, ClaimsInv, [Next]_vars PROVE ClaimsInv'
    OBVIOUS
  <1>t. WorkerTypes /\ PrefixWritten /\ ClaimsWritten
    BY DEF TypeInv, ClaimsInv
  <1>f. \A w \in Workers : /\ bytesDone[w] \in Nat /\ curTask[w].Start \in Nat
                           /\ curTask[w].End \in Int
    BY RemainingFields
  <1>p. completed \subseteq written
    BY <1>t DEF ClaimsWritten
  \* The steps that touch neither a task, nor the file, nor a claim.
  <1>q. ASSUME UNCHANGED <<curTask, bytesDone, written, completed, sidecar>>
        PROVE  ClaimsInv'
    BY <1>t, <1>q DEF ClaimsInv, PrefixWritten, ClaimsWritten, Prefix
  <1>1. ASSUME NEW w \in Workers, Take(w) PROVE ClaimsInv'
    <2>1. \A u \in Workers : Prefix(u)' \subseteq written
      <3> SUFFICES ASSUME NEW u \in Workers PROVE Prefix(u)' \subseteq written
        OBVIOUS
      <3>1. CASE u = w
        <4>1. bytesDone'[w] = 0 /\ curTask'[w] = Head(queue)
          BY <1>t, <1>1 DEF Take, StartTask, WorkerTypes
        <4>2. Head(queue).Start \in Int
          <5>1. queue \in Seq(Tasks) /\ queue # <<>>
            BY <1>1 DEF Take, StartTask, TypeInv, TypeOK, SharedTypes
          <5>2. Head(queue) \in Tasks
            BY <5>1, HeadTailProperties
          <5> QED BY <5>2 DEF Tasks, Bytes
        <4> QED BY <3>1, <4>1, <4>2 DEF Prefix
      <3>2. CASE u # w
        BY <1>t, <1>1, <3>2 DEF Take, StartTask, WorkerTypes, Prefix, PrefixWritten
      <3> QED BY <3>1, <3>2
    <2> QED BY <1>t, <1>1, <2>1
            DEF Take, StartTask, dataVars, mainVars, ClaimsInv, PrefixWritten, ClaimsWritten
  <1>2. ASSUME NEW w \in Workers, Read(w) PROVE ClaimsInv'
    <2>1. /\ written' = written \cup {curTask[w].Start + bytesDone[w]}
          /\ bytesDone' = [bytesDone EXCEPT ![w] = bytesDone[w] + 1]
          /\ UNCHANGED <<curTask, completed, sidecar>>
      BY <1>2 DEF Read, mainVars
    <2>2. \A u \in Workers : Prefix(u)' \subseteq written'
      <3> SUFFICES ASSUME NEW u \in Workers PROVE Prefix(u)' \subseteq written'
        OBVIOUS
      <3>1. CASE u = w
        <4>1. Prefix(w)' \subseteq Prefix(w) \cup {curTask[w].Start + bytesDone[w]}
          <5>1. bytesDone'[w] = bytesDone[w] + 1 /\ curTask'[w] = curTask[w]
            BY <1>t, <2>1 DEF WorkerTypes
          <5>2. bytesDone[w] \in Nat /\ curTask[w].Start \in Nat
            BY <1>f
          <5> QED BY <5>1, <5>2 DEF Prefix
        <4> QED BY <1>t, <2>1, <3>1, <4>1 DEF PrefixWritten
      <3>2. CASE u # w
        BY <1>t, <2>1, <3>2 DEF WorkerTypes, Prefix, PrefixWritten
      <3> QED BY <3>1, <3>2
    <2> QED BY <1>t, <2>1, <2>2 DEF ClaimsInv, PrefixWritten, ClaimsWritten
  <1>3. ASSUME NEW w \in Workers, Finish(w) PROVE ClaimsInv'
    <2>1. BytesOf(curTask[w]) \subseteq Prefix(w)
      BY <1>f, <1>3 DEF Finish, BytesOf, Prefix, TaskLen
    <2>2. completed' \subseteq completed \cup BytesOf(curTask[w])
      BY <1>3 DEF Finish, Record
    <2>3. UNCHANGED <<curTask, bytesDone, written, sidecar>>
      BY <1>3 DEF Finish, mainVars
    <2> QED BY <1>t, <2>1, <2>2, <2>3 DEF ClaimsInv, PrefixWritten, ClaimsWritten, Prefix
  <1>4. ASSUME NEW w \in Workers, Abandon(w) PROVE ClaimsInv'
    <2>1. completed' \subseteq completed \cup Prefix(w)
      BY <1>4 DEF Abandon, SkipStolen, Requeue, Record
    <2>2. UNCHANGED <<curTask, bytesDone, written, sidecar>>
      BY <1>4 DEF Abandon, mainVars
    <2> QED BY <1>t, <2>1, <2>2 DEF ClaimsInv, PrefixWritten, ClaimsWritten, Prefix
  <1>5. ASSUME DrainOk PROVE ClaimsInv'
    <2>1. /\ written' = written \cup BytesOf(drainTask)
          /\ completed' \subseteq completed \cup BytesOf(drainTask)
          /\ UNCHANGED <<curTask, bytesDone, sidecar>>
      BY <1>5 DEF DrainOk, Record, workerVars, mainVars
    <2> QED BY <1>t, <2>1 DEF ClaimsInv, PrefixWritten, ClaimsWritten, Prefix
  <1>6. ASSUME DrainFail PROVE ClaimsInv'
    <2>1. written \subseteq written' /\ UNCHANGED <<curTask, bytesDone, completed, sidecar>>
      BY <1>6 DEF DrainFail, mainVars
    <2> QED BY <1>t, <2>1 DEF ClaimsInv, PrefixWritten, ClaimsWritten, Prefix
  <1>7. ASSUME Save \/ Signalled PROVE ClaimsInv'
    <2>1. UNCHANGED <<curTask, bytesDone, written, completed>>
      BY <1>7 DEF Save, Signalled, workerVars, dataVars
    <2>2. CASE sidecar' = sidecar
      BY <1>q, <2>1, <2>2
    <2>3. CASE SaveResume
      <3>1. PICK p \in Pairs :
              sidecar' = [unfetched |-> (completed \cup Promoted(p)) \ written,
                          torn |-> p.torn /\ Promoted(p) # {}]
        BY <2>3 DEF SaveResume
      <3>2. CASE p = Pair(NoTask, 0, FALSE)
        <4>1. Promoted(p) = {}
          BY <3>2 DEF Promoted, Pair
        <4> QED BY <1>p, <1>t, <2>1, <3>1, <4>1
                DEF ClaimsInv, PrefixWritten, ClaimsWritten, Prefix
      \* A task and its own progress: the prefix behind it.
      <3>3. CASE p \in TruePairs
        <4>1. PICK w \in Workers : p = Pair(curTask[w], bytesDone[w], FALSE)
          BY <3>3 DEF TruePairs
        <4>2. Promoted(p) \subseteq Prefix(w)
          BY <4>1 DEF Promoted, Pair, Prefix
        <4>3. (completed \cup Promoted(p)) \ written = {}
          BY <1>p, <1>t, <4>2 DEF PrefixWritten
        <4>4. sidecar'.unfetched = {}
          BY <3>1, <4>3
        <4> QED BY <1>t, <2>1, <4>4 DEF ClaimsInv, PrefixWritten, ClaimsWritten, Prefix
      <3>4. CASE p \in TornPairs
        <4>1. p.torn = TRUE
          BY <3>4 DEF TornPairs, Pair
        <4>2. sidecar'.unfetched # {} => sidecar'.torn
          BY <1>p, <3>1, <4>1
        <4> QED BY <1>t, <2>1, <4>2 DEF ClaimsInv, PrefixWritten, ClaimsWritten, Prefix
      <3> QED BY <3>1, <3>2, <3>3, <3>4 DEF Pairs
    <2> QED BY <1>7, <2>2, <2>3 DEF Save, Signalled
  <1>8. ASSUME NEW w \in Workers,
               \/ QuitCancelled(w) \/ QuitIdle(w) \/ Respond(w) \/ Refuse(w) \/ RetryStatus(w)
               \/ StatusExhausted(w) \/ NoRange(w) \/ Fatal(w) \/ Corrupt(w)
               \/ BackoffElapsed(w) \/ BackoffCancelled(w) \/ PlanTask(w)
        PROVE  ClaimsInv'
    BY <1>q, <1>8
       DEF QuitCancelled, QuitIdle, Respond, Refuse, RetryStatus, StatusExhausted, NoRange, Fatal,
           Corrupt, Die, BackoffElapsed, BackoffCancelled, PlanTask, workerVars, dataVars,
           mainVars
  <1>9. ASSUME \/ MonitorStep \/ WorkersDone \/ Assess \/ DrainTake \/ DrainEnd
               \/ Return \/ CtxCancel \/ UNCHANGED vars
        PROVE  ClaimsInv'
    BY <1>q, <1>9
       DEF MonitorStep, PlanProgress, Claim, PlanDrop, Mark, CancelVictim, PushLeftover, MonitorExit, WorkersDone,
           Assess, DrainTake, DrainEnd, Return, CtxCancel, workerVars, dataVars, mainVars,
           vars
  <1> QED
    BY <1>1, <1>2, <1>3, <1>4, <1>5, <1>6, <1>7, <1>8, <1>9
       DEF Next, Worker, Interrupted, Transient, Supervisor, Returned

----
(* Errors, steal marks and the order of shutdown. *)

LEMMA ControlInit == Init => ErrorInv /\ StealInv /\ ShutdownInv
  <1> SUFFICES ASSUME Init PROVE ErrorInv /\ StealInv /\ ShutdownInv
    OBVIOUS
  <1>1. ErrorInv
    BY DEF Init, ErrorInv
  <1>2. mon # "mark" /\ sup = "workers" /\ drainTask = NoTask /\ result = "none"
    BY DEF Init
  <1> QED BY <1>1, <1>2 DEF StealInv, ShutdownInv

\* A worker's error, once set, stays; a fatal error of a worker that holds a
\* task is always recorded, because no cancellation was recorded before it.
LEMMA DieReports ==
    ASSUME TypeInv, ErrorInv, NEW w \in Workers, NEW e \in {"norange", "real"},
           InHand(w), SetErr(w, e)
    PROVE  RealError'
  <1>1. errVal \in [Workers -> Errors] /\ errVal[w] # "cancel"
    BY DEF TypeInv, WorkerTypes, ErrorInv
  <1>2. errVal'[w] \notin {"none", "cancel"}
    BY <1>1 DEF SetErr
  <1> QED BY <1>2 DEF RealError

LEMMA ErrorStep == TypeInv /\ ErrorInv /\ ShutdownInv /\ [Next]_vars => ErrorInv'
  <1> SUFFICES ASSUME TypeInv, ErrorInv, ShutdownInv, [Next]_vars PROVE ErrorInv'
    OBVIOUS
  <1>t. /\ pc \in [Workers -> {"loop", "request", "drain", "body", "backoff", "exited"}]
        /\ errVal \in [Workers -> Errors]
    BY DEF TypeInv, WorkerTypes
  <1>1. ASSUME NEW w \in Workers, QuitCancelled(w) \/ BackoffCancelled(w)
        PROVE  ErrorInv'
    BY <1>t, <1>1
       DEF QuitCancelled, BackoffCancelled, SetErr, ErrorInv, InHand, Running
  <1>2. ASSUME NEW w \in Workers, NEW e \in {"norange", "real"}, Die(w, e)
        PROVE  ErrorInv'
    BY <1>t, <1>2 DEF Die, SetErr, ErrorInv, InHand, Running
  <1>3. ASSUME NEW w \in Workers, Abandon(w) PROVE ErrorInv'
    <2>1. SetErr(w, "real") \/ UNCHANGED errVal
      BY <1>3 DEF Abandon, SkipStolen, Requeue
    <2>2. pc' = [pc EXCEPT ![w] = "loop"] \/ pc' = [pc EXCEPT ![w] = "backoff"]
      BY <1>3 DEF Abandon, SkipStolen, Requeue
    <2>3. ctxDone' = ctxDone /\ Running(w)
      BY <1>3 DEF Abandon
    <2> QED BY <1>t, <2>1, <2>2, <2>3 DEF SetErr, ErrorInv, InHand, Running
  <1>4. ASSUME DrainFail PROVE ErrorInv'
    <2>1. PICK e \in {"cancel", "norange", "real"} :
            /\ e = "cancel" => ctxDone
            /\ errVal' = [w \in Workers |-> IF errVal[w] = "none" THEN e ELSE errVal[w]]
      BY <1>4 DEF DrainFail
    <2>2. ctxDone' = ctxDone /\ pc' = pc /\ \A w \in Workers : pc[w] = "exited"
      BY <1>4 DEF DrainFail, ShutdownInv
    <2> QED BY <1>t, <2>1, <2>2 DEF ErrorInv, InHand, Running
  <1>5. ASSUME NEW w \in Workers,
               \/ Take(w) \/ QuitIdle(w) \/ Respond(w) \/ Refuse(w) \/ RetryStatus(w) \/ Read(w)
               \/ Finish(w) \/ BackoffElapsed(w)
        PROVE  ErrorInv'
    BY <1>t, <1>5
       DEF Take, StartTask, QuitIdle, Respond, Refuse, RetryStatus, Read, Finish, BackoffElapsed, workerVars,
           ErrorInv, InHand, Running
  <1>6. ASSUME NEW w \in Workers, PlanTask(w) PROVE ErrorInv'
    BY <1>6 DEF PlanTask, ErrorInv, InHand, Running, workerVars
  <1>7. ASSUME \/ MonitorStep \/ WorkersDone \/ Assess \/ DrainTake \/ DrainOk \/ DrainEnd
               \/ Save \/ Signalled \/ Return \/ CtxCancel \/ UNCHANGED vars
        PROVE  ErrorInv'
    <2>1. UNCHANGED <<pc, errVal>> /\ (ctxDone => ctxDone')
      BY <1>7
         DEF MonitorStep, PlanProgress, Claim, PlanDrop, Mark, CancelVictim, PushLeftover, MonitorExit, WorkersDone,
             Assess, DrainTake, DrainOk, DrainEnd, Save, Signalled, Return, CtxCancel,
             workerVars, vars
    <2> QED BY <2>1 DEF ErrorInv, InHand, Running
  <1> QED
    BY <1>1, <1>2, <1>3, <1>4, <1>5, <1>6, <1>7
       DEF Next, Worker, Interrupted, Transient, StatusExhausted, NoRange, Fatal, Corrupt,
           Supervisor, Returned

LEMMA StealStep == TypeInv /\ StealInv /\ [Next]_vars => StealInv'
  <1> SUFFICES ASSUME TypeInv, StealInv, [Next]_vars, NEW v \in Workers,
                      mon' = "mark", victim' = v, covers'[v], Running(v)'
               PROVE  (BytesOf(Remaining(v)) \subseteq BytesOf(leftover))'
    BY DEF StealInv
  <1>t. WorkerTypes
    BY DEF TypeInv
  <1> DEFINE Goal == (BytesOf(Remaining(v)) \subseteq BytesOf(leftover))'
  <1>1. ASSUME Claim PROVE Goal
    <2>1. /\ victim = v
          /\ covers' = [covers EXCEPT ![v] = BytesOf(Remaining(v)) \subseteq BytesOf(leftover)]
          /\ UNCHANGED <<curTask, bytesDone, leftover>>
      BY <1>1 DEF Claim, Remaining
    <2>2. BytesOf(Remaining(v)) \subseteq BytesOf(leftover)
      BY <1>t, <2>1 DEF WorkerTypes
    <2> QED BY <2>1, <2>2 DEF BytesOf, Remaining
  <1>2. ASSUME UNCHANGED monVars, UNCHANGED <<curTask, bytesDone>>,
               covers[v], Running(v)
        PROVE  Goal
    BY <1>2 DEF StealInv, monVars, BytesOf, Remaining
  <1>3. ASSUME NEW w \in Workers, Take(w) PROVE Goal
    <2>1. v # w
      BY <1>t, <1>3 DEF Take, StartTask, WorkerTypes
    <2> QED BY <1>t, <1>3, <2>1
            DEF Take, StartTask, WorkerTypes, StealInv, monVars, BytesOf, Remaining, Running
  <1>4. ASSUME NEW w \in Workers, Read(w) PROVE Goal
    <2>1. /\ UNCHANGED <<mon, victim, leftover, curTask, covers, pc>>
          /\ bytesDone' = [bytesDone EXCEPT ![w] = bytesDone[w] + 1]
      BY <1>4 DEF Read, monVars
    <2>2. BytesOf(Remaining(v)) \subseteq BytesOf(leftover)
      BY <2>1 DEF StealInv, Running
    <2>3. /\ bytesDone[v] \in Nat /\ curTask[v].Start \in Nat /\ curTask[v].End \in Int
      BY RemainingFields
    <2>4. bytesDone'[v] \in {bytesDone[v], bytesDone[v] + 1}
      BY <1>t, <2>1 DEF WorkerTypes
    <2>5. (curTask[v].Start + bytesDone'[v])..curTask[v].End
             \subseteq (curTask[v].Start + bytesDone[v])..curTask[v].End
      BY <2>3, <2>4
    <2> QED BY <2>1, <2>2, <2>5 DEF BytesOf, Remaining
  <1>5. ASSUME NEW w \in Workers,
               UNCHANGED <<curTask, bytesDone, covers>>, UNCHANGED monVars,
               \E l \in {"loop", "backoff", "exited"} : pc' = [pc EXCEPT ![w] = l]
        PROVE  Goal
    <2>1. Running(v)
      BY <1>t, <1>5 DEF WorkerTypes, Running
    <2> QED BY <1>2, <1>5, <2>1
  <1>6. ASSUME NEW w \in Workers,
               \/ QuitCancelled(w) \/ QuitIdle(w) \/ BackoffElapsed(w) \/ BackoffCancelled(w)
               \/ StatusExhausted(w) \/ NoRange(w) \/ Fatal(w) \/ Corrupt(w) \/ Finish(w)
        PROVE  Goal
    BY <1>5, <1>6
       DEF QuitCancelled, QuitIdle, BackoffElapsed, BackoffCancelled, StatusExhausted,
           NoRange, Fatal, Corrupt, Die, Finish, workerVars
  <1>7. ASSUME NEW w \in Workers, Abandon(w) PROVE Goal
    <2>1. \E l \in {"loop", "backoff", "exited"} : pc' = [pc EXCEPT ![w] = l]
      BY <1>7 DEF Abandon, SkipStolen, Requeue
    <2>2. UNCHANGED <<curTask, bytesDone, covers>> /\ UNCHANGED monVars
      BY <1>7 DEF Abandon
    <2> QED BY <1>5, <2>1, <2>2
  <1>8. ASSUME NEW w \in Workers, Respond(w) \/ Refuse(w) \/ RetryStatus(w) PROVE Goal
    <2>1. Running(v)
      BY <1>t, <1>8 DEF Respond, Refuse, RetryStatus, WorkerTypes, Running
    <2> QED BY <1>2, <1>8, <2>1 DEF Respond, Refuse, RetryStatus, workerVars
  <1>9. ASSUME \/ \E w \in Workers : PlanTask(w)
               \/ PlanProgress \/ PlanDrop \/ Mark \/ CancelVictim \/ PushLeftover
               \/ MonitorExit
        PROVE Goal
    BY <1>9 DEF PlanTask, PlanProgress, PlanDrop, Mark, CancelVictim, PushLeftover, MonitorExit
  <1>10. ASSUME \/ Supervisor \/ Save \/ Signalled \/ Return \/ CtxCancel \/ UNCHANGED vars
         PROVE  Goal
    <2>1. UNCHANGED <<pc, curTask, bytesDone, covers>> /\ UNCHANGED monVars
      BY <1>10
         DEF Supervisor, WorkersDone, Assess, DrainTake, DrainOk, DrainFail, DrainEnd, Save,
             Signalled, Return, CtxCancel, workerVars, vars
    <2> QED BY <1>2, <2>1 DEF Running
  <1> QED
    BY <1>1, <1>3, <1>4, <1>6, <1>7, <1>8, <1>9, <1>10
       DEF Next, Worker, MonitorStep, Interrupted, Transient, Returned

\* Some worker with an error is the first one: FailureResult is its error.
LEMMA FirstFailedExists ==
    ASSUME TypeInv, \E w \in Workers : errVal[w] # "none"
    PROVE  \E w \in Workers : FirstFailed(w)
  <1> DEFINE T == {w \in Workers : errVal[w] # "none"}
             R == OpToRel(<, Nat)
  <1>1. T \subseteq Nat /\ T # {}
    BY DEF Workers
  <1>2. PICK x \in T : \A y \in T : ~(<<y, x>> \in R)
    <2> HIDE DEF T, R
    <2>1. IsWellFoundedOn(R, Nat)
      BY NatLessThanWellFounded DEF R
    <2> QED BY <1>1, <2>1, WFMin, Zenon
  <1>3. \A y \in T : ~(y < x)
    <2> SUFFICES ASSUME NEW y \in T, y < x PROVE FALSE
      OBVIOUS
    <2>1. <<y, x>> \in R
      BY <1>1 DEF OpToRel
    <2> QED BY <1>2, <2>1, Zenon
  <1> QED BY <1>3 DEF FirstFailed

LEMMA FailureReported ==
    ASSUME TypeInv, ctxDone \/ \E w \in Workers : errVal[w] # "none"
    PROVE  FailureResult # "ok"
  <1>1. errVal \in [Workers -> Errors]
    BY DEF TypeInv, WorkerTypes
  <1>2. CASE \E w \in Workers : FirstFailed(w)
    <2>1. (CHOOSE w \in Workers : FirstFailed(w)) \in Workers
      BY <1>2
    <2> QED BY <1>1, <1>2, <2>1 DEF FailureResult, Errors
  <1>3. CASE ~\E w \in Workers : FirstFailed(w)
    BY <1>3, FirstFailedExists DEF FailureResult
  <1> QED BY <1>2, <1>3

LEMMA ShutdownStep == TypeInv /\ ErrorInv /\ ShutdownInv /\ [Next]_vars => ShutdownInv'
  <1> SUFFICES ASSUME TypeInv, ErrorInv, ShutdownInv, [Next]_vars PROVE ShutdownInv'
    OBVIOUS
  <1>t. /\ pc \in [Workers -> {"loop", "request", "drain", "body", "backoff", "exited"}]
        /\ errVal \in [Workers -> Errors]
        /\ sup \in {"workers", "monitor", "drain", "announce", "gone"}
        /\ fully \in BOOLEAN
        /\ queue \in Seq(Tasks) /\ drainTask \in Tasks \cup {NoTask}
    BY DEF TypeInv, WorkerTypes, SharedTypes, SupervisionTypes
  <1>s. \A w \in Workers : Running(w) \/ pc[w] \in {"loop", "backoff"} => sup = "workers"
    BY DEF ShutdownInv, Running
  <1>n. /\ sup = "workers" => drainTask = NoTask /\ result # "ok"
        /\ sup = "monitor" => drainTask = NoTask /\ result # "ok"
    BY DEF ShutdownInv
  \* While a worker lives, nothing has been promised yet.
  <1>w. ASSUME sup = "workers", UNCHANGED <<supVars, result>> PROVE ShutdownInv'
    BY <1>n, <1>w DEF ShutdownInv, supVars
  <1>1. ASSUME NEW w \in Workers, Worker(w) PROVE ShutdownInv'
    <2>1. pc[w] \in {"loop", "request", "drain", "body", "backoff"}
      BY <1>1 DEF Worker, Take, StartTask, QuitCancelled, QuitIdle, Respond, Refuse, RetryStatus,
         StatusExhausted, NoRange, Fatal, Read, Finish, Corrupt, Interrupted, Transient,
         Abandon, BackoffElapsed, BackoffCancelled, Running
    <2>2. UNCHANGED <<supVars, result>>
      BY <1>1 DEF Worker, Take, StartTask, QuitCancelled, QuitIdle, Respond, Refuse, RetryStatus,
         StatusExhausted, NoRange, Fatal, Read, Finish, Corrupt, Interrupted, Transient,
         Abandon, BackoffElapsed, BackoffCancelled, Die, mainVars
    <2> QED BY <1>s, <1>w, <2>1, <2>2 DEF Running
  \* The monitor lives, so the supervisor waits.
  <1>2. ASSUME mon # "exited", UNCHANGED <<pc, supVars, result>> PROVE ShutdownInv'
    <2>1. sup \in {"workers", "monitor"}
      BY <1>t, <1>2 DEF ShutdownInv
    <2> QED BY <1>n, <1>2, <2>1 DEF ShutdownInv, supVars
  <1>3. ASSUME MonitorStep \/ \E w \in Workers : PlanTask(w) PROVE ShutdownInv'
    BY <1>2, <1>3
       DEF PlanTask, MonitorStep, PlanProgress, Claim, PlanDrop, Mark, CancelVictim,
           PushLeftover, MonitorExit, mainVars, workerVars
  <1>4. ASSUME WorkersDone PROVE ShutdownInv'
    BY <1>4, <1>n DEF WorkersDone, ShutdownInv, mainVars
  <1>5. ASSUME Assess PROVE ShutdownInv'
    <2>1. /\ sup = "monitor" /\ mon = "exited" /\ fully' = AllTasksDone
          /\ sup' = IF AllTasksDone THEN "drain" ELSE "announce"
          /\ UNCHANGED <<ctxDone, queue, pc, errVal, mon, drainTask, result>>
      BY <1>5 DEF Assess, mainVars, workerVars, monVars
    <2>2. drainTask = NoTask /\ result # "ok" /\ \A w \in Workers : pc[w] = "exited"
      BY <1>n, <2>1 DEF ShutdownInv
    <2>3. CASE AllTasksDone
      BY <2>1, <2>2, <2>3 DEF ShutdownInv, AllTasksDone, RealError
    <2>4. CASE ~AllTasksDone
      BY <2>1, <2>2, <2>4 DEF ShutdownInv, AllTasksDone, RealError
    <2> QED BY <2>3, <2>4
  <1>6. ASSUME DrainTake \/ DrainOk PROVE ShutdownInv'
    <2>1. /\ sup = "drain"
          /\ UNCHANGED <<pc, errVal, mon, sup, fully, result>>
      BY <1>6 DEF DrainTake, DrainOk, mainVars, workerVars, monVars
    <2> QED BY <1>t, <2>1 DEF ShutdownInv, RealError
  <1>7. ASSUME DrainFail PROVE ShutdownInv'
    <2>1. /\ sup = "drain" /\ fully' = FALSE /\ sup' = "announce" /\ drainTask' = NoTask
          /\ UNCHANGED <<pc, mon, result>>
      BY <1>7 DEF DrainFail, mainVars, monVars
    <2>2. PICK e \in {"cancel", "norange", "real"} :
            errVal' = [w \in Workers |-> IF errVal[w] = "none" THEN e ELSE errVal[w]]
      BY <1>7 DEF DrainFail
    <2>3. 1 \in Workers
      BY SizeAssumption DEF Workers
    <2>4. errVal'[1] # "none"
      BY <2>2, <2>3
    <2> QED BY <1>t, <2>1, <2>3, <2>4 DEF ShutdownInv
  <1>8. ASSUME DrainEnd PROVE ShutdownInv'
    <2>1. /\ sup = "drain" /\ sup' = "announce" /\ queue = <<>> /\ drainTask = NoTask
          /\ UNCHANGED <<queue, drainTask, pc, errVal, mon, fully, result>>
      BY <1>8 DEF DrainEnd, mainVars, workerVars, monVars
    <2> QED BY <1>t, <2>1 DEF ShutdownInv, RealError
  <1>9. ASSUME Return PROVE ShutdownInv'
    <2>1. /\ sup = "announce" /\ sup' = "gone"
          /\ result' = IF fully THEN "ok"
                       ELSE IF main = "await" THEN "cancel" ELSE FailureResult
          /\ UNCHANGED <<ctxDone, queue, pc, errVal, mon, fully, drainTask>>
      BY <1>9 DEF Return, workerVars, monVars
    <2>2. ~fully => FailureResult # "ok"
      BY <2>1, FailureReported DEF ShutdownInv
    <2>3. result' = "ok" => fully
      BY <2>1, <2>2
    <2> QED BY <1>t, <2>1, <2>3 DEF ShutdownInv, RealError
  <1>10. ASSUME Save \/ Signalled \/ CtxCancel \/ UNCHANGED vars PROVE ShutdownInv'
    <2>1. /\ UNCHANGED <<queue, pc, errVal, mon, sup, fully, drainTask, result>>
          /\ ctxDone => ctxDone'
      BY <1>10 DEF Save, Signalled, CtxCancel, vars, mainVars, workerVars, monVars, supVars
    <2> QED BY <2>1 DEF ShutdownInv, RealError
  <1> QED
    BY <1>1, <1>3, <1>4, <1>5, <1>6, <1>7, <1>8, <1>9, <1>10
       DEF Next, Supervisor, Returned

----
(* No byte is dropped silently. *)

LEMMA QueuedAppend ==
    ASSUME NEW q \in Seq(Tasks), NEW t \in Tasks, NEW b
    PROVE  Queued(q, b) \/ b \in BytesOf(t) => Queued(Append(q, t), b)
  <1>1. /\ Len(Append(q, t)) = Len(q) + 1 /\ Len(q) \in Nat
        /\ \A i \in 1..Len(q) : Append(q, t)[i] = q[i]
        /\ Append(q, t)[Len(q) + 1] = t
    BY AppendProperties
  <1> QED BY <1>1 DEF Queued

LEMMA QueuedTail ==
    ASSUME NEW q \in Seq(Tasks), q # <<>>, NEW b, Queued(q, b)
    PROVE  b \in BytesOf(Head(q)) \/ Queued(Tail(q), b)
  <1>1. /\ Len(Tail(q)) = Len(q) - 1 /\ Len(q) \in Nat /\ Head(q) = q[1]
        /\ \A i \in 1..Len(Tail(q)) : Tail(q)[i] = q[i + 1]
    BY HeadTailProperties
  <1>2. PICK i \in 1..Len(q) : b \in BytesOf(q[i])
    BY DEF Queued
  <1>3. CASE i = 1
    BY <1>1, <1>2, <1>3
  <1>4. CASE i # 1
    <2>1. i - 1 \in 1..Len(Tail(q)) /\ Tail(q)[i - 1] = q[i]
      BY <1>1, <1>2, <1>4
    <2> QED BY <1>2, <2>1 DEF Queued
  <1> QED BY <1>3, <1>4

\* A step that leaves the other workers alone takes no byte out of their hands.
LEMMA OthersKeep ==
    ASSUME NEW w \in Workers, NEW b, InCharge(b),
           \A u \in Workers \ {w} :
              /\ pc'[u] = pc[u] /\ curTask'[u] = curTask[u] /\ bytesDone'[u] = bytesDone[u]
              /\ stealFlag'[u] = stealFlag[u] /\ covers'[u] = covers[u]
    PROVE  InCharge(b)' \/ (Responsible(w) /\ b \in BytesOf(Remaining(w)))
  <1>1. PICK u \in Workers : Responsible(u) /\ b \in BytesOf(Remaining(u))
    BY DEF InCharge
  <1>2. CASE u = w
    BY <1>1, <1>2
  <1>3. CASE u # w
    <2>1. Responsible(u)' /\ Remaining(u)' = Remaining(u)
      BY <1>1, <1>3 DEF Responsible, Running, Remaining
    <2>2. b \in BytesOf(Remaining(u)')
      BY <1>1, <2>1
    <2>3. \E v \in Workers : Responsible(v)' /\ b \in BytesOf(Remaining(v)')
      BY <2>1, <2>2
    <2> QED BY <2>3 DEF InCharge, BytesOf
  <1> QED BY <1>2, <1>3

\* A recorded failure is never forgotten.
LEMMA ErrorsStick == TypeInv /\ RealError /\ [Next]_vars => RealError'
  <1> SUFFICES ASSUME TypeInv, RealError, [Next]_vars PROVE RealError'
    OBVIOUS
  <1>t. errVal \in [Workers -> Errors]
    BY DEF TypeInv, WorkerTypes
  <1>k. ASSUME \A u \in Workers : errVal[u] # "none" => errVal'[u] = errVal[u]
        PROVE  RealError'
    BY <1>k DEF RealError
  <1>1. ASSUME NEW w \in Workers, NEW e, SetErr(w, e) PROVE RealError'
    BY <1>t, <1>k, <1>1 DEF SetErr
  <1>2. ASSUME DrainFail PROVE RealError'
    BY <1>t, <1>k, <1>2 DEF DrainFail
  <1>3. ASSUME UNCHANGED errVal PROVE RealError'
    BY <1>k, <1>3
  <1>4. ASSUME NEW w \in Workers, Worker(w) PROVE RealError'
    <2>1. (\E e \in {"cancel", "norange", "real"} : SetErr(w, e)) \/ UNCHANGED errVal
      BY <1>4
         DEF Worker, Take, StartTask, QuitCancelled, QuitIdle, Respond, Refuse, RetryStatus, StatusExhausted,
             NoRange, Fatal, Read, Finish, Corrupt, Interrupted, Transient, Abandon,
             SkipStolen, Requeue, BackoffElapsed, BackoffCancelled, Die, workerVars
    <2> QED BY <1>1, <1>3, <2>1
  <1>5. ASSUME \/ (\E w \in Workers : PlanTask(w)) \/ MonitorStep
               \/ WorkersDone \/ Assess \/ DrainTake \/ DrainOk \/ DrainEnd
               \/ Save \/ Signalled \/ Return \/ CtxCancel \/ UNCHANGED vars
        PROVE  RealError'
    <2>1. UNCHANGED errVal
      BY <1>5
         DEF PlanTask, MonitorStep, PlanProgress, Claim, PlanDrop, Mark, CancelVictim, PushLeftover, MonitorExit,
             WorkersDone, Assess, DrainTake, DrainOk, DrainEnd, Save, Signalled, Return,
             CtxCancel, workerVars, vars
    <2> QED BY <1>3, <2>1
  <1> QED BY <1>2, <1>4, <1>5 DEF Next, Supervisor, Returned

LEMMA AccountInit == Init => AccountInv
  <1> SUFFICES ASSUME Init, NEW b \in Bytes PROVE Accounted(b)
    BY DEF AccountInv
  <1>1. queue = Seeds /\ written = Done0
    BY DEF Init
  <1>2. b \in Done0 \/ \E i \in 1..Len(Seeds) : b \in BytesOf(Seeds[i])
    BY SeedsAssumption
  <1> QED BY <1>1, <1>2 DEF Accounted, Queued

\* The heart of the argument: every step of every goroutine hands a byte on to
\* somebody, or records a failure that will be reported.
LEMMA AccountStep ==
    TypeInv /\ ErrorInv /\ StealInv /\ ShutdownInv /\ AccountInv /\ [Next]_vars
    => AccountInv'
  <1> SUFFICES ASSUME TypeInv, ErrorInv, StealInv, ShutdownInv, AccountInv, [Next]_vars
               PROVE  AccountInv'
    OBVIOUS
  <1>t. WorkerTypes /\ SharedTypes /\ SupervisionTypes /\ WorkerOK /\ MonitorOK
    BY DEF TypeInv
  <1>1. CASE RealError
    BY <1>1, ErrorsStick DEF AccountInv
  <1>2. CASE sup \in {"announce", "gone"} /\ ~fully
    <2>1. sup' \in {"announce", "gone"} /\ fully' = fully
      <3>1. ASSUME UNCHANGED supVars PROVE sup' \in {"announce", "gone"} /\ fully' = fully
        BY <1>2, <3>1 DEF supVars
      <3>2. CASE Return
        BY <3>2 DEF Return
      <3>3. CASE Supervisor
        BY <1>2, <3>3 DEF Supervisor, WorkersDone, Assess, DrainTake, DrainOk, DrainFail,
                          DrainEnd
      <3>4. ASSUME NEW w \in Workers, Worker(w) \/ PlanTask(w) PROVE UNCHANGED supVars
        BY <3>4
           DEF Worker, PlanTask, Take, StartTask, QuitCancelled, QuitIdle, Respond, Refuse, RetryStatus,
               StatusExhausted, NoRange, Fatal, Read, Finish, Corrupt, Interrupted,
               Transient, Abandon, BackoffElapsed, BackoffCancelled, Die
      <3>5. CASE MonitorStep \/ Save \/ Signalled \/ CtxCancel \/ Returned \/ UNCHANGED vars
        <4>1. UNCHANGED supVars
          BY <3>5 DEF MonitorStep, PlanProgress, Claim, PlanDrop, Mark, CancelVictim, PushLeftover, MonitorExit, Save,
                      Signalled, CtxCancel, Returned, vars
        <4> QED BY <3>1, <4>1
      <3> QED BY <3>1, <3>2, <3>3, <3>4, <3>5 DEF Next
    <2> QED BY <1>2, <2>1 DEF AccountInv
  <1>3. CASE \A b \in Bytes : Accounted(b)
    <2> SUFFICES ASSUME NEW b \in Bytes, Accounted(b)
                 PROVE  RealError' \/ (sup' \in {"announce", "gone"} /\ ~fully') \/ Accounted(b)'
      BY <1>3 DEF AccountInv
    <2> DEFINE Goal == RealError' \/ (sup' \in {"announce", "gone"} /\ ~fully') \/ Accounted(b)'
    <2>q. queue \in Seq(Tasks)
      BY <1>t DEF SharedTypes
    \* What must be shown when only worker w moves.
    <2>w. ASSUME NEW w \in Workers,
                 written \subseteq written', lost \subseteq lost',
                 Queued(queue, b) => Queued(queue', b) \/ InCharge(b)',
                 UNCHANGED <<mon, leftover, drainTask>>,
                 \A u \in Workers \ {w} :
                    /\ pc'[u] = pc[u] /\ curTask'[u] = curTask[u]
                    /\ bytesDone'[u] = bytesDone[u]
                    /\ stealFlag'[u] = stealFlag[u] /\ covers'[u] = covers[u],
                 Responsible(w) /\ b \in BytesOf(Remaining(w)) => Accounted(b)'
          PROVE  Accounted(b)'
      <3>1. CASE InCharge(b)
        BY <2>w, <3>1, OthersKeep DEF Accounted
      <3>2. CASE ~InCharge(b)
        BY <2>w, <3>2 DEF Accounted, Pushing, BytesOf
      <3> QED BY <3>1, <3>2
    \* The steps that move no task and no byte.
    <2>u. ASSUME UNCHANGED <<pc, curTask, bytesDone, stealFlag, covers, queue, mon, leftover,
                             drainTask, written, lost>>
          PROVE  Accounted(b)'
      BY <2>u DEF Accounted, InCharge, Responsible, Running, Remaining, Pushing, BytesOf
    <2>1. ASSUME NEW w \in Workers, Take(w) PROVE Goal
      <3>1. /\ pc[w] = "loop" /\ pc'[w] = "request" /\ stealFlag'[w] = FALSE
            /\ curTask'[w] = Head(queue) /\ bytesDone'[w] = 0
            /\ queue # <<>> /\ queue' = Tail(queue)
        BY <1>t, <2>1 DEF Take, StartTask, WorkerTypes
      <3>2. Head(queue) \in Tasks
        BY <2>q, <3>1, HeadTailProperties
      <3>3. Remaining(w)' = Head(queue)
        BY <3>1, <3>2, TaskFields DEF Remaining
      <3>4. Responsible(w)'
        BY <3>1 DEF Responsible, Running
      <3>5. b \in BytesOf(Head(queue)) => InCharge(b)'
        <4> SUFFICES ASSUME b \in BytesOf(Head(queue)) PROVE InCharge(b)'
          OBVIOUS
        <4>1. b \in BytesOf(Remaining(w)')
          BY <3>3
        <4>2. \E v \in Workers : Responsible(v)' /\ b \in BytesOf(Remaining(v)')
          BY <3>4, <4>1
        <4> QED BY <4>2 DEF InCharge, BytesOf
      <3>6. Queued(queue, b) => Queued(queue', b) \/ InCharge(b)'
        BY <2>q, <3>1, <3>5, QueuedTail
      <3>7. ~Responsible(w)
        BY <3>1 DEF Responsible, Running
      <3>8. \A u \in Workers \ {w} :
               /\ pc'[u] = pc[u] /\ curTask'[u] = curTask[u] /\ bytesDone'[u] = bytesDone[u]
               /\ stealFlag'[u] = stealFlag[u] /\ covers'[u] = covers[u]
        BY <1>t, <2>1 DEF Take, StartTask, WorkerTypes
      <3>9. UNCHANGED <<mon, leftover, drainTask, written, lost>>
        BY <2>1 DEF Take, StartTask, monVars, supVars, dataVars
      <3> QED BY <2>w, <3>6, <3>7, <3>8, <3>9
    <2>2. ASSUME NEW w \in Workers, QuitCancelled(w) \/ QuitIdle(w) PROVE Goal
      <3>1. ~Responsible(w)
        BY <2>2 DEF QuitCancelled, QuitIdle, Responsible, Running
      <3>2. /\ \A u \in Workers \ {w} : pc'[u] = pc[u]
            /\ UNCHANGED <<curTask, bytesDone, stealFlag, covers, queue, mon, leftover, drainTask,
                           written, lost>>
        BY <1>t, <2>2
           DEF QuitCancelled, QuitIdle, WorkerTypes, workerVars, monVars, supVars, dataVars
      <3> QED BY <2>w, <3>1, <3>2
    <2>3. ASSUME NEW w \in Workers, Respond(w) \/ Refuse(w) \/ RetryStatus(w) PROVE Goal
      <3>1. /\ \A u \in Workers \ {w} : pc'[u] = pc[u]
            /\ pc[w] \in {"request", "drain"} /\ pc'[w] \in {"request", "drain", "body"}
            /\ UNCHANGED <<curTask, bytesDone, stealFlag, covers, queue, mon, leftover, drainTask,
                           written, lost>>
        BY <1>t, <2>3
           DEF Respond, Refuse, RetryStatus, WorkerTypes, workerVars, monVars, supVars, dataVars
      <3>2. Responsible(w) /\ b \in BytesOf(Remaining(w)) => InCharge(b)'
        BY <3>1 DEF Responsible, Running, Remaining, InCharge
      <3>3. Responsible(w) /\ b \in BytesOf(Remaining(w)) => Accounted(b)'
        BY <3>2 DEF Accounted
      <3> QED BY <2>w, <3>1, <3>3
    <2>4. ASSUME NEW w \in Workers,
                 StatusExhausted(w) \/ NoRange(w) \/ Fatal(w) \/ Corrupt(w)
          PROVE  Goal
      <3>1. Running(w) /\ \E e \in {"norange", "real"} : SetErr(w, e)
        BY <2>4 DEF StatusExhausted, NoRange, Fatal, Corrupt, Die, Running
      <3> QED BY <3>1, DieReports DEF InHand
    <2>5. ASSUME NEW w \in Workers, Read(w) PROVE Goal
      <3>1. /\ written' = written \cup {curTask[w].Start + bytesDone[w]}
            /\ bytesDone' = [bytesDone EXCEPT ![w] = bytesDone[w] + 1]
            /\ UNCHANGED <<pc, curTask, stealFlag, covers, queue, mon, leftover, drainTask, lost>>
        BY <2>5 DEF Read, monVars, supVars
      <3>2. bytesDone'[w] = bytesDone[w] + 1 /\ \A u \in Workers \ {w} : bytesDone'[u] = bytesDone[u]
        BY <1>t, <3>1 DEF WorkerTypes
      <3>3. Responsible(w) /\ b \in BytesOf(Remaining(w)) => b \in written' \/ InCharge(b)'
        <4> SUFFICES ASSUME Responsible(w), b \in BytesOf(Remaining(w)),
                            b # curTask[w].Start + bytesDone[w]
                     PROVE  InCharge(b)'
          BY <3>1
        <4>1. /\ bytesDone[w] \in Nat /\ curTask[w].Start \in Nat /\ curTask[w].End \in Int
          BY RemainingFields
        <4>2. b \in (curTask[w].Start + bytesDone[w] + 1)..curTask[w].End
          BY <4>1 DEF BytesOf, Remaining
        <4>3. Responsible(w)'
          BY <3>1 DEF Responsible, Running
        <4> QED BY <3>1, <3>2, <4>1, <4>2, <4>3 DEF InCharge, BytesOf, Remaining
      <3>4. Responsible(w) /\ b \in BytesOf(Remaining(w)) => Accounted(b)'
        BY <3>3 DEF Accounted
      <3> QED BY <2>w, <3>1, <3>2, <3>4
    <2>6. ASSUME NEW w \in Workers, Finish(w) PROVE Goal
      <3>1. BytesOf(Remaining(w)) = {}
        <4>1. /\ bytesDone[w] \in Nat /\ curTask[w].Start \in Nat /\ curTask[w].End \in Int
              /\ bytesDone[w] = curTask[w].End - curTask[w].Start + 1
          BY <2>6, RemainingFields DEF Finish, TaskLen
        <4>2. BytesOf(Remaining(w)) = (curTask[w].Start + bytesDone[w])..curTask[w].End
          BY DEF BytesOf, Remaining
        <4> QED BY <4>1, <4>2
      <3>2. \A u \in Workers \ {w} : pc'[u] = pc[u] /\ covers'[u] = covers[u]
        BY <1>t, <2>6 DEF Finish, WorkerTypes
      <3>3. UNCHANGED <<curTask, bytesDone, stealFlag, queue, mon, leftover, drainTask, written, lost>>
        BY <2>6 DEF Finish, monVars, supVars
      <3> QED BY <2>w, <3>1, <3>2, <3>3
    <2>7. ASSUME NEW w \in Workers, Abandon(w) PROVE Goal
      <3>0. /\ Running(w) /\ UNCHANGED <<curTask, bytesDone, covers, mon, leftover, drainTask, written>>
            /\ bytesDone[w] < TaskLen(curTask[w])
        BY <2>7 DEF Abandon, monVars, supVars
      <3>1. Remaining(w) \in Tasks
        BY <3>0, RemainingFields DEF InHand
      <3>2. CASE SkipStolen(w)
        <4>1. /\ stealFlag[w] /\ queue' = queue
              /\ stealFlag' = [stealFlag EXCEPT ![w] = FALSE]
              /\ pc' = [pc EXCEPT ![w] = "loop"]
              /\ lost' = IF covers[w] THEN lost ELSE lost \cup BytesOf(Remaining(w))
          BY <3>2 DEF SkipStolen
        <4>3. Responsible(w) /\ b \in BytesOf(Remaining(w)) => b \in lost'
          BY <3>0, <4>1 DEF Responsible, Running
        <4>4. \A u \in Workers \ {w} :
                 pc'[u] = pc[u] /\ stealFlag'[u] = stealFlag[u] /\ covers'[u] = covers[u]
          BY <1>t, <3>0, <4>1 DEF WorkerTypes
        <4>5. lost \subseteq lost'
          BY <4>1
        <4>6. Responsible(w) /\ b \in BytesOf(Remaining(w)) => Accounted(b)'
          BY <4>3 DEF Accounted
        <4> QED BY <2>w, <3>0, <4>1, <4>4, <4>5, <4>6
      <3>3. CASE Requeue(w) /\ BudgetSpent(w)
        <4>1. SetErr(w, "real")
          BY <3>3 DEF Requeue
        <4> QED BY <3>0, <4>1, DieReports DEF InHand
      <3>4. CASE Requeue(w) /\ ~BudgetSpent(w)
        <4>1. /\ queue' = IF ctxDone THEN Append(queue, Remaining(w)) ELSE queue
              /\ pc' = [pc EXCEPT ![w] = IF ctxDone THEN "loop" ELSE "backoff"]
              /\ UNCHANGED <<stealFlag, lost>>
          BY <3>4 DEF Requeue
        <4>2. Queued(queue, b) => Queued(queue', b)
          BY <2>q, <3>1, <4>1, QueuedAppend
        <4>3. b \in BytesOf(Remaining(w)) => Accounted(b)'
          <5>1. CASE ctxDone
            BY <2>q, <3>1, <4>1, <5>1, QueuedAppend DEF Accounted
          <5>2. CASE ~ctxDone
            <6>1. Responsible(w)' /\ Remaining(w)' = Remaining(w)
              BY <1>t, <3>0, <4>1, <5>2 DEF WorkerTypes, Responsible, Remaining
            <6>2. b \in BytesOf(Remaining(w)) => InCharge(b)'
              BY <6>1 DEF InCharge, BytesOf
            <6> QED BY <6>2 DEF Accounted
          <5> QED BY <5>1, <5>2
        <4>4. \A u \in Workers \ {w} : pc'[u] = pc[u] /\ covers'[u] = covers[u]
          BY <1>t, <3>0, <4>1 DEF WorkerTypes
        <4> QED BY <2>w, <3>0, <4>1, <4>2, <4>3, <4>4
      <3> QED BY <2>7, <3>2, <3>3, <3>4 DEF Abandon
    <2>8. ASSUME NEW w \in Workers, BackoffElapsed(w) PROVE Goal
      <3>1. /\ pc[w] = "backoff" /\ queue' = Append(queue, Remaining(w))
            /\ pc' = [pc EXCEPT ![w] = "loop"]
            /\ UNCHANGED <<curTask, bytesDone, stealFlag, covers, mon, leftover, drainTask,
                           written, lost>>
        BY <2>8 DEF BackoffElapsed, workerVars, monVars, supVars, dataVars
      <3>2. Remaining(w) \in Tasks
        BY <1>t, <3>1, RemainingFields DEF InHand, WorkerOK
      <3>3. Queued(queue, b) \/ b \in BytesOf(Remaining(w)) => Queued(queue', b)
        BY <2>q, <3>1, <3>2, QueuedAppend
      <3>4. \A u \in Workers \ {w} : pc'[u] = pc[u]
        BY <1>t, <3>1 DEF WorkerTypes
      <3>5. b \in BytesOf(Remaining(w)) => Accounted(b)'
        BY <3>3 DEF Accounted
      <3> QED BY <2>w, <3>1, <3>3, <3>4, <3>5
    <2>9. ASSUME NEW w \in Workers, BackoffCancelled(w) PROVE Goal
      <3>1. /\ lost' = lost \cup BytesOf(Remaining(w))
            /\ pc' = [pc EXCEPT ![w] = "loop"]
            /\ UNCHANGED <<curTask, bytesDone, stealFlag, covers, queue, mon, leftover, drainTask,
                           written>>
        BY <2>9 DEF BackoffCancelled, monVars, supVars
      <3>2. \A u \in Workers \ {w} : pc'[u] = pc[u]
        BY <1>t, <3>1 DEF WorkerTypes
      <3>3. b \in BytesOf(Remaining(w)) => Accounted(b)'
        BY <3>1 DEF Accounted
      <3> QED BY <2>w, <3>1, <3>2, <3>3
    <2>10. ASSUME Claim PROVE Goal
      <3>1. /\ mon = "claim" /\ mon' = "mark" /\ ~stealFlag[victim]
            /\ \E c \in BOOLEAN : covers' = [covers EXCEPT ![victim] = c]
            /\ UNCHANGED <<pc, curTask, bytesDone, stealFlag, queue, leftover, drainTask,
                           written, lost>>
        BY <2>10 DEF Claim, supVars, dataVars
      <3>2. Pushing = {}
        BY <3>1 DEF Pushing
      <3>3. InCharge(b) => InCharge(b)'
        <4>1. \A u \in Workers : Responsible(u) => Responsible(u)'
          BY <1>t, <3>1 DEF WorkerTypes, Responsible, Running
        <4>2. \A u \in Workers : Remaining(u)' = Remaining(u)
          BY <3>1 DEF Remaining
        <4> QED BY <4>1, <4>2 DEF InCharge, BytesOf
      <3> QED BY <3>1, <3>2, <3>3 DEF Accounted
    <2>p. ASSUME (\E w \in Workers : PlanTask(w)) \/ PlanProgress \/ PlanDrop PROVE Goal
      <3>1. /\ mon \in {"idle", "plan", "claim"} /\ mon' \in {"idle", "plan", "claim"}
            /\ UNCHANGED <<pc, curTask, bytesDone, stealFlag, covers, queue, drainTask,
                           written, lost>>
        BY <2>p DEF PlanTask, PlanProgress, PlanDrop, workerVars, supVars, dataVars
      <3>2. Pushing = {} /\ Pushing' = {}
        BY <3>1 DEF Pushing
      <3>3. InCharge(b) => InCharge(b)'
        BY <3>1 DEF InCharge, Responsible, Running, Remaining, BytesOf
      <3> QED BY <3>1, <3>2, <3>3 DEF Accounted
    <2>11. ASSUME Mark PROVE Goal
      <3>1. /\ mon = "mark" /\ mon' = "cancel"
            /\ stealFlag' = [stealFlag EXCEPT ![victim] = TRUE]
            /\ UNCHANGED <<pc, curTask, bytesDone, covers, queue, leftover, drainTask,
                           written, lost>>
        BY <2>11 DEF Mark, supVars, dataVars
      <3>2. Pushing' = Pushing /\ Pushing = BytesOf(leftover)
        BY <3>1 DEF Pushing, BytesOf
      <3>v. PICK v \in Workers : v = victim
        BY <1>t DEF SupervisionTypes
      <3>3. ASSUME InCharge(b) PROVE InCharge(b)' \/ b \in Pushing
        <4>1. PICK u \in Workers : Responsible(u) /\ b \in BytesOf(Remaining(u))
          BY <3>3 DEF InCharge
        <4>2. CASE u = v /\ covers[v] /\ Running(v)
          BY <3>1, <3>2, <3>v, <4>1, <4>2 DEF StealInv
        <4>3. CASE ~(u = v /\ covers[v] /\ Running(v))
          <5>1. Responsible(u)'
            BY <1>t, <3>1, <3>v, <4>1, <4>3 DEF WorkerTypes, Responsible, Running
          <5>2. b \in BytesOf(Remaining(u))'
            BY <3>1, <4>1 DEF Remaining, BytesOf
          <5> QED BY <5>1, <5>2 DEF InCharge
        <4> QED BY <4>2, <4>3
      <3> QED BY <3>1, <3>2, <3>3 DEF Accounted
    <2>12. ASSUME PushLeftover PROVE Goal
      <3>1. /\ mon = "push" /\ mon' = "idle" /\ queue' = Append(queue, leftover) /\ leftover' = NoTask
            /\ UNCHANGED <<pc, curTask, bytesDone, stealFlag, covers, drainTask, written, lost>>
        BY <2>12 DEF PushLeftover, workerVars, supVars, dataVars
      <3>2. leftover \in Tasks
        BY <1>t, <3>1 DEF MonitorOK
      <3>3. Queued(queue, b) \/ b \in BytesOf(leftover) => Queued(queue', b)
        BY <2>q, <3>1, <3>2, QueuedAppend
      <3>4. InCharge(b) => InCharge(b)'
        BY <3>1 DEF InCharge, Responsible, Running, Remaining, BytesOf
      <3>5. Pushing = BytesOf(leftover)
        BY <3>1 DEF Pushing
      <3> QED BY <3>1, <3>3, <3>4, <3>5 DEF Accounted
    <2>13. ASSUME DrainTake PROVE Goal
      <3>1. /\ drainTask = NoTask /\ queue # <<>> /\ drainTask' = Head(queue)
            /\ queue' = Tail(queue)
            /\ UNCHANGED <<pc, curTask, bytesDone, stealFlag, covers, mon, leftover, written, lost>>
        BY <2>13 DEF DrainTake, workerVars, monVars, dataVars
      <3>2. Queued(queue, b) => b \in BytesOf(drainTask)' \/ Queued(queue', b)
        BY <2>q, <3>1, QueuedTail
      <3>3. BytesOf(drainTask) = {}
        BY <3>1, NoTaskFields
      <3>4. InCharge(b) => InCharge(b)'
        BY <3>1 DEF InCharge, Responsible, Running, Remaining, BytesOf
      <3> QED BY <3>1, <3>2, <3>3, <3>4 DEF Accounted, Pushing, BytesOf
    <2>14. ASSUME DrainOk PROVE Goal
      <3>1. /\ written' = written \cup BytesOf(drainTask)
            /\ UNCHANGED <<pc, curTask, bytesDone, stealFlag, covers, queue, mon, leftover, lost>>
        BY <2>14 DEF DrainOk, workerVars, monVars
      <3>2. InCharge(b) => InCharge(b)'
        BY <3>1 DEF InCharge, Responsible, Running, Remaining, BytesOf
      <3>3. Pushing' = Pushing
        BY <3>1 DEF Pushing, BytesOf
      <3> QED BY <3>1, <3>2, <3>3 DEF Accounted
    <2>15. ASSUME DrainFail PROVE Goal
      BY <2>15 DEF DrainFail
    <2>16. ASSUME \/ WorkersDone \/ Assess \/ DrainEnd
                  \/ Save \/ Signalled \/ Return \/ CtxCancel \/ UNCHANGED vars
           PROVE  Goal
      BY <2>u, <2>16
         DEF WorkersDone, Assess, DrainEnd, Save, Signalled, Return, CtxCancel, vars,
             workerVars, monVars, supVars, dataVars
    <2>17. ASSUME CancelVictim \/ MonitorExit PROVE Goal
      <3>1. UNCHANGED <<pc, curTask, bytesDone, stealFlag, covers, queue, drainTask, written, lost>>
        BY <2>17 DEF CancelVictim, MonitorExit, workerVars, supVars, dataVars
      <3>2. Pushing' = Pushing
        BY <2>17 DEF CancelVictim, MonitorExit, Pushing, BytesOf
      <3>3. InCharge(b) => InCharge(b)'
        BY <3>1 DEF InCharge, Responsible, Running, Remaining, BytesOf
      <3> QED BY <3>1, <3>2, <3>3 DEF Accounted
    <2> QED
      BY <2>1, <2>2, <2>3, <2>4, <2>5, <2>6, <2>7, <2>8, <2>9, <2>10, <2>11, <2>12, <2>13,
         <2>14, <2>15, <2>16, <2>17, <2>p
         DEF Next, Worker, Interrupted, Transient, MonitorStep, Supervisor, Returned
  <1> QED BY <1>1, <1>2, <1>3 DEF AccountInv

----
(* When bytes can be given up. *)

\* A byte is given up only where a steal goes astray or a backoff is cut short.
LostInv ==
    /\ ctxDone => env.cancellable
    /\ ~env.stealing => mon = "exited" /\ \A w \in Workers : ~stealFlag[w] /\ ~cancelled[w]
    /\ \A w \in Workers : pc[w] = "backoff" => env.stealing \/ "transient" \in env.faults
    /\ lost # {} => HoleProne

LEMMA LostInit == Init => LostInv
  BY DEF Init, LostInv

LEMMA LostStep == TypeInv /\ LostInv /\ [Next]_vars => LostInv'
  <1> SUFFICES ASSUME TypeInv, LostInv, [Next]_vars PROVE LostInv'
    OBVIOUS
  <1>t. WorkerTypes
    BY DEF TypeInv
  <1>1. ASSUME UNCHANGED <<env, lost, stealFlag, cancelled>>,
               ctxDone' => env.cancellable,
               ~env.stealing => mon' = "exited",
               \A w \in Workers : pc'[w] = "backoff" => pc[w] = "backoff"
        PROVE  LostInv'
    BY <1>1 DEF LostInv, HoleProne
  <1>2. ASSUME NEW w \in Workers, Take(w) PROVE LostInv'
    <2>1. /\ UNCHANGED <<env, lost, ctxDone, mon>>
          /\ \A u \in Workers : (stealFlag'[u] => stealFlag[u]) /\ (cancelled'[u] => cancelled[u])
          /\ \A u \in Workers : pc'[u] = "backoff" => pc[u] = "backoff"
      BY <1>t, <1>2 DEF Take, StartTask, WorkerTypes, dataVars, monVars
    <2> QED BY <2>1 DEF LostInv, HoleProne
  <1>3. ASSUME NEW w \in Workers,
               \/ QuitCancelled(w) \/ QuitIdle(w) \/ Respond(w) \/ Refuse(w) \/ RetryStatus(w)
               \/ StatusExhausted(w) \/ NoRange(w) \/ Fatal(w) \/ Read(w) \/ Finish(w)
               \/ Corrupt(w) \/ BackoffElapsed(w)
        PROVE  LostInv'
    <2>1. UNCHANGED <<env, lost, stealFlag, cancelled, ctxDone, mon>>
      BY <1>3
         DEF QuitCancelled, QuitIdle, Respond, Refuse, RetryStatus, StatusExhausted, NoRange, Fatal,
             Read, Finish, Corrupt, BackoffElapsed, Die, workerVars, dataVars, monVars
    <2>2. \A u \in Workers : pc'[u] = "backoff" => pc[u] = "backoff"
      <3>1. \/ UNCHANGED pc
            \/ \E l \in {"loop", "request", "drain", "body", "exited"} : pc' = [pc EXCEPT ![w] = l]
        BY <1>3
           DEF QuitCancelled, QuitIdle, Respond, Refuse, RetryStatus, StatusExhausted, NoRange,
               Fatal, Read, Finish, Corrupt, BackoffElapsed, Die
      <3> QED BY <1>t, <3>1 DEF WorkerTypes
    <2> QED BY <1>1, <2>1, <2>2 DEF LostInv
  <1>4. ASSUME NEW w \in Workers, Interrupted(w) \/ Transient(w) PROVE LostInv'
    <2>1. /\ UNCHANGED <<env, ctxDone, mon, cancelled>>
          /\ ctxDone \/ cancelled[w] \/ "transient" \in env.faults
      BY <1>4 DEF Interrupted, Transient, Abandon, monVars
    <2>2. CASE SkipStolen(w)
      <3>1. /\ stealFlag[w]
            /\ stealFlag' = [stealFlag EXCEPT ![w] = FALSE]
            /\ pc' = [pc EXCEPT ![w] = "loop"]
        BY <2>2 DEF SkipStolen
      <3>2. env.stealing
        BY <3>1 DEF LostInv
      <3>3. \A u \in Workers : pc'[u] = "backoff" => pc[u] = "backoff"
        BY <1>t, <3>1 DEF WorkerTypes
      <3> QED BY <2>1, <3>2, <3>3 DEF LostInv, HoleProne
    <2>3. CASE Requeue(w)
      <3>1. /\ UNCHANGED <<stealFlag, lost>>
            /\ \/ pc' = [pc EXCEPT ![w] = "loop"]
               \/ ~ctxDone /\ pc' = [pc EXCEPT ![w] = "backoff"]
        BY <2>3 DEF Requeue
      <3>2. ~ctxDone => env.stealing \/ "transient" \in env.faults
        BY <2>1 DEF LostInv
      <3>3. \A u \in Workers : pc'[u] = "backoff" =>
               env.stealing \/ "transient" \in env.faults
        BY <1>t, <3>1, <3>2 DEF WorkerTypes, LostInv
      <3> QED BY <2>1, <3>1, <3>3 DEF LostInv, HoleProne
    <2> QED BY <1>4, <2>2, <2>3 DEF Interrupted, Transient, Abandon
  <1>5. ASSUME NEW w \in Workers, BackoffCancelled(w) PROVE LostInv'
    <2>1. /\ pc[w] = "backoff" /\ ctxDone /\ UNCHANGED <<env, ctxDone, mon, stealFlag, cancelled>>
          /\ pc' = [pc EXCEPT ![w] = "loop"]
      BY <1>5 DEF BackoffCancelled, monVars
    <2>2. HoleProne
      BY <2>1 DEF LostInv, HoleProne
    <2>3. \A u \in Workers : pc'[u] = "backoff" => pc[u] = "backoff"
      BY <1>t, <2>1 DEF WorkerTypes
    <2> QED BY <2>1, <2>2, <2>3 DEF LostInv, HoleProne
  <1>6. ASSUME \/ \E w \in Workers : PlanTask(w)
               \/ PlanProgress \/ Claim \/ PlanDrop \/ Mark \/ CancelVictim \/ PushLeftover
        PROVE  LostInv'
    <2>1. mon # "exited" /\ UNCHANGED <<env, lost, ctxDone, pc>>
      BY <1>6 DEF PlanTask, PlanProgress, Claim, PlanDrop, Mark, CancelVictim, PushLeftover,
                  dataVars
    <2> QED BY <2>1 DEF LostInv, HoleProne
  <1>7. ASSUME MonitorExit PROVE LostInv'
    BY <1>1, <1>7 DEF MonitorExit, LostInv, dataVars, workerVars
  <1>8. ASSUME CtxCancel PROVE LostInv'
    BY <1>1, <1>8 DEF CtxCancel, LostInv, dataVars, workerVars, monVars
  <1>9. ASSUME Supervisor \/ Save \/ Signalled \/ Return \/ UNCHANGED vars PROVE LostInv'
    <2>1. UNCHANGED <<env, lost, stealFlag, cancelled, ctxDone, mon, pc>>
      BY <1>9
         DEF Supervisor, WorkersDone, Assess, DrainTake, DrainOk, DrainFail, DrainEnd, Save,
             Signalled, Return, vars, workerVars, dataVars, monVars
    <2> QED BY <1>1, <2>1 DEF LostInv
  <1> QED
    BY <1>2, <1>3, <1>4, <1>5, <1>6, <1>7, <1>8, <1>9
       DEF Next, Worker, MonitorStep, Returned

----
(* The theorems. *)

LEMMA Inductive == Spec => []IInv
  <1>1. Init => IInv
    BY TypeInit, ClaimsInit, ControlInit, AccountInit DEF IInv
  <1>2. IInv /\ [Next]_vars => IInv'
    BY TypeStep, ClaimsStep, ErrorStep, StealStep, ShutdownStep, AccountStep DEF IInv
  <1> QED BY <1>1, <1>2, PTL DEF Spec

\* Every variable of the engine keeps its type: no task, planned, queued or
\* running, leaves its file, and no progress its task (runTask, pumpBody,
\* stealPlan, requeueUnfinished).
THEOREM TypeCorrect == Spec => []TypeOK
  <1>1. IInv => TypeOK
    BY DEF IInv, TypeInv, TypeOK, WorkerOK, ProgressInTask
  <1> QED BY <1>1, Inductive, PTL

\* Whatever fails, is stolen, retried or cancelled, the accumulator and every
\* saved sidecar claim only bytes that are in the file, except for a sidecar
\* whose in-progress pair was torn by its worker's change of task
\* (recordCompleted, saveResume).
THEOREM NoFalseClaims == Spec => []ClaimsWritten
  <1>1. IInv => ClaimsWritten
    BY DEF IInv, ClaimsInv
  <1> QED BY <1>1, Inductive, PTL

\* When the supervisor has returned nil nobody holds a byte any more.
LEMMA AccountedAtReturn == IInv => SuccessAccounted
  <1> SUFFICES ASSUME IInv, result = "ok" PROVE written \cup lost = Bytes
    BY DEF SuccessAccounted
  <1>1. /\ DataTypes /\ MonitorOK /\ ShutdownInv /\ AccountInv
    BY DEF IInv, TypeInv
  <1>2. /\ sup = "gone" /\ fully /\ ~RealError /\ queue = <<>>
        /\ drainTask = NoTask /\ mon = "exited"
        /\ \A w \in Workers : pc[w] = "exited"
    BY <1>1 DEF ShutdownInv
  <1>3. Pushing = {}
    BY <1>2 DEF Pushing
  <1>4. \A w \in Workers : ~Responsible(w)
    BY <1>2 DEF Responsible, Running
  <1>5. ASSUME NEW b \in Bytes PROVE b \in written \cup lost
    <2>1. Accounted(b)
      BY <1>1, <1>2 DEF AccountInv
    <2>2. ~InCharge(b) /\ ~Queued(queue, b)
      BY <1>2, <1>4 DEF InCharge, Queued
    <2> QED BY <1>2, <1>3, <2>1, <2>2, NoTaskFields DEF Accounted
  <1>6. written \cup lost \subseteq Bytes
    BY <1>1 DEF DataTypes
  <1> QED BY <1>5, <1>6

\* rangeDownload returns nil only when every byte is in the file or was given up
\* in one of the two places of requeueUnfinished's and workerLoop's that lose
\* one; no other interleaving leaves a hole.
THEOREM NoSilentHole == Spec => []SuccessAccounted
  BY AccountedAtReturn, Inductive, PTL

\* Without the monitor, and without a transient error and a cancellable context
\* together, rangeDownload returns nil only when the file is complete.
THEOREM CompleteUnlessHoleProne == Spec => []CompleteOtherwise
  <1>1. Spec => [](TypeInv /\ LostInv)
    <2>1. Init => TypeInv /\ LostInv
      BY TypeInit, LostInit
    <2>2. TypeInv /\ LostInv /\ [Next]_vars => (TypeInv /\ LostInv)'
      BY TypeStep, LostStep
    <2> QED BY <2>1, <2>2, PTL DEF Spec
  <1>2. SuccessAccounted /\ LostInv => CompleteOtherwise
    BY DEF SuccessAccounted, LostInv, SuccessComplete, CompleteOtherwise
  <1> QED BY <1>1, <1>2, NoSilentHole, PTL

----
(* Ownership: without the monitor no byte is in two hands. *)

\* The bytes in each worker's hands.
HeldBytes == [w \in Workers |-> BytesOf(Held[w])]

\* No byte is twice in the queue, in two hands, or in a hand and in the queue.
Apart(q, h) ==
    /\ \A i, j \in 1..Len(q) : i # j => BytesOf(q[i]) \cap BytesOf(q[j]) = {}
    /\ \A u, w \in Workers : u # w => h[u] \cap h[w] = {}
    /\ \A i \in 1..Len(q), w \in Workers : BytesOf(q[i]) \cap h[w] = {}

\* NoDoubleWork with what keeps it: a run without stealing has no monitor.
OwnInv == ~env.stealing => mon = "exited" /\ Apart(queue, HeldBytes)

----
(* The three ways in which work moves. *)

\* Nobody takes up anything new.
LEMMA ApartShrinks ==
    ASSUME NEW q, NEW g, NEW h, Apart(q, g), \A w \in Workers : h[w] \subseteq g[w]
    PROVE  Apart(q, h)
  BY DEF Apart

\* The head of the queue is taken, by a worker or by the drain.
LEMMA ApartPop ==
    ASSUME NEW q \in Seq(Tasks), q # <<>>, NEW g, NEW h, NEW w \in Workers,
           Apart(q, g), h[w] \subseteq BytesOf(Head(q)) \cup g[w],
           \A u \in Workers \ {w} : h[u] \subseteq g[u]
    PROVE  Apart(Tail(q), h)
  <1>1. /\ Len(q) \in Nat /\ Len(q) >= 1 /\ Head(q) = q[1]
        /\ Len(Tail(q)) = Len(q) - 1
        /\ \A i \in 1..Len(Tail(q)) : Tail(q)[i] = q[i + 1]
    BY HeadTailProperties, EmptySeq, LenProperties
  <1>2. \A i \in 1..Len(Tail(q)) : i + 1 \in 1..Len(q) /\ i + 1 # 1
    BY <1>1
  <1>3. ASSUME NEW i \in 1..Len(Tail(q)), NEW j \in 1..Len(Tail(q)), i # j
        PROVE  BytesOf(Tail(q)[i]) \cap BytesOf(Tail(q)[j]) = {}
    <2>1. i + 1 # j + 1
      BY <1>1, <1>3
    <2> QED BY <1>1, <1>2, <2>1 DEF Apart
  <1>4. ASSUME NEW u \in Workers, NEW v \in Workers, u # v
        PROVE  h[u] \cap h[v] = {}
    <2>1. 1 \in 1..Len(q)
      BY <1>1
    <2>2. CASE u = w
      BY <1>1, <1>4, <2>1, <2>2 DEF Apart
    <2>3. CASE v = w
      BY <1>1, <1>4, <2>1, <2>3 DEF Apart
    <2>4. CASE u # w /\ v # w
      BY <1>4, <2>4 DEF Apart
    <2> QED BY <2>2, <2>3, <2>4
  <1>5. ASSUME NEW i \in 1..Len(Tail(q)), NEW u \in Workers
        PROVE  BytesOf(Tail(q)[i]) \cap h[u] = {}
    <2>1. 1 \in 1..Len(q)
      BY <1>1
    <2>2. CASE u = w
      BY <1>1, <1>2, <2>1, <2>2 DEF Apart
    <2>3. CASE u # w
      BY <1>1, <1>2, <2>3 DEF Apart
    <2> QED BY <2>2, <2>3
  <1> QED BY <1>3, <1>4, <1>5 DEF Apart

\* A worker puts what it held, or part of it, back on the queue.
LEMMA ApartPush ==
    ASSUME NEW q \in Seq(Tasks), NEW t \in Tasks, NEW g, NEW h, NEW w \in Workers,
           Apart(q, g), BytesOf(t) \subseteq g[w], h[w] = {},
           \A u \in Workers \ {w} : h[u] \subseteq g[u]
    PROVE  Apart(Append(q, t), h)
  <1> DEFINE p == Append(q, t)
             n == Len(q) + 1
  <1>1. /\ Len(q) \in Nat /\ Len(p) = n /\ p[n] = t
        /\ \A i \in 1..Len(q) : p[i] = q[i]
    BY AppendProperties, LenProperties
  <1>2. ASSUME NEW i \in 1..Len(p), i # n PROVE i \in 1..Len(q) /\ p[i] = q[i]
    <2>1. i \in 1..Len(q)
      BY <1>1, <1>2
    <2> QED BY <1>1, <2>1
  <1> HIDE DEF p, n
  <1>3. ASSUME NEW i \in 1..Len(p), NEW j \in 1..Len(p), i # j
        PROVE  BytesOf(p[i]) \cap BytesOf(p[j]) = {}
    <2>1. CASE i = n
      BY <1>1, <1>2, <1>3, <2>1 DEF Apart
    <2>2. CASE j = n
      BY <1>1, <1>2, <1>3, <2>2 DEF Apart
    <2>3. CASE i # n /\ j # n
      BY <1>2, <1>3, <2>3 DEF Apart
    <2> QED BY <2>1, <2>2, <2>3
  <1>4. \A u, v \in Workers : u # v => h[u] \cap h[v] = {}
    BY DEF Apart
  <1>5. ASSUME NEW i \in 1..Len(p), NEW u \in Workers
        PROVE  BytesOf(p[i]) \cap h[u] = {}
    <2>1. CASE u = w
      BY <2>1
    <2>2. CASE u # w /\ i = n
      BY <1>1, <2>2 DEF Apart
    <2>3. CASE u # w /\ i # n
      BY <1>2, <2>3 DEF Apart
    <2> QED BY <2>1, <2>2, <2>3
  <1> QED BY <1>3, <1>4, <1>5 DEF Apart, p

\* A worker that makes progress on its task, or lets go of it, holds no more
\* than before.
LEMMA HeldShrinks ==
    ASSUME TypeInv, TypeInv', NEW w \in Workers, curTask'[w] = curTask[w],
           InHand(w)' => InHand(w), bytesDone[w] <= bytesDone'[w]
    PROVE  HeldBytes'[w] \subseteq HeldBytes[w]
  <1>1. /\ HeldBytes[w] = BytesOf(Held[w]) /\ HeldBytes'[w] = BytesOf(Held'[w])
        /\ Held[w] = IF InHand(w) THEN Remaining(w) ELSE NoTask
        /\ Held'[w] = IF InHand(w)' THEN Remaining(w)' ELSE NoTask
    BY DEF HeldBytes, Held
  <1>2. CASE InHand(w)'
    <2>1. /\ Held[w] = Remaining(w) /\ Held'[w] = Remaining(w)'
          /\ curTask[w] \in Tasks
      BY <1>1, <1>2, RemainingFields
    <2>2. /\ bytesDone[w] \in Nat /\ bytesDone'[w] \in Nat
          /\ curTask[w].Start \in Int /\ curTask[w].End \in Int
      BY <2>1, TaskFields DEF TypeInv, WorkerTypes
    <2>3. /\ BytesOf(Remaining(w)) = (curTask[w].Start + bytesDone[w])..curTask[w].End
          /\ BytesOf(Remaining(w)') = (curTask[w].Start + bytesDone'[w])..curTask[w].End
      BY DEF Remaining, BytesOf
    <2>4. (curTask[w].Start + bytesDone'[w])..curTask[w].End
            \subseteq (curTask[w].Start + bytesDone[w])..curTask[w].End
      BY <2>2
    <2> QED BY <1>1, <2>1, <2>3, <2>4
  <1>3. CASE ~InHand(w)'
    BY <1>1, <1>3, NoTaskFields
  <1> QED BY <1>2, <1>3

----
(* The invariant. *)

LEMMA OwnInit == Init => OwnInv
  <1> SUFFICES ASSUME Init, ~env.stealing PROVE mon = "exited" /\ Apart(queue, HeldBytes)
    BY DEF OwnInv
  <1>1. mon = "exited" /\ queue = Seeds
    BY DEF Init
  <1>2. \A w \in Workers : HeldBytes[w] = {}
    BY NoTaskFields DEF Init, HeldBytes, Held, InHand, Running
  <1> QED BY <1>1, <1>2, SeedsDisjoint DEF Apart

LEMMA OwnStep == TypeInv /\ TypeInv' /\ OwnInv /\ [Next]_vars => OwnInv'
  <1> SUFFICES ASSUME TypeInv, TypeInv', OwnInv, [Next]_vars, ~env'.stealing
               PROVE  mon' = "exited" /\ Apart(queue', HeldBytes')
    BY DEF OwnInv
  <1>e. env' = env
    BY DEF Next, Worker, MonitorStep, Supervisor, Take, QuitCancelled, QuitIdle, Respond, Refuse,
           RetryStatus, StatusExhausted, NoRange, Fatal, Die, Read, Finish, Corrupt,
           Interrupted, Transient, Abandon, BackoffElapsed, BackoffCancelled, PlanTask,
           PlanProgress, Claim, PlanDrop, Mark, CancelVictim, PushLeftover, MonitorExit,
           WorkersDone, Assess, DrainTake, DrainOk, DrainFail, DrainEnd, Save, Signalled,
           Return, CtxCancel, Returned, vars
  <1>0. mon = "exited" /\ Apart(queue, HeldBytes)
    BY <1>e DEF OwnInv
  <1>t. /\ queue \in Seq(Tasks) /\ pc \in [Workers -> {"loop", "request", "drain", "body", "backoff", "exited"}]
        /\ curTask \in [Workers -> Tasks \cup {NoTask}]
        /\ bytesDone \in [Workers -> 0..Size]
    BY DEF TypeInv, WorkerTypes, SharedTypes
  <1>b. \A w \in Workers : bytesDone[w] <= bytesDone[w]
    BY <1>t, SizeAssumption
  \* Steps that move nothing into the queue or into a hand.
  <1>k. ASSUME queue' = queue, mon' = mon, curTask' = curTask,
               \A w \in Workers : InHand(w)' => InHand(w),
               \A w \in Workers : bytesDone[w] <= bytesDone'[w]
        PROVE  mon' = "exited" /\ Apart(queue', HeldBytes')
    <2>1. \A w \in Workers : HeldBytes'[w] \subseteq HeldBytes[w]
      BY <1>k, HeldShrinks
    <2> QED BY <1>0, <1>k, <2>1, ApartShrinks
  \* Steps in which a worker puts the rest of its task back on the queue.
  <1>p. ASSUME NEW w \in Workers, InHand(w), bytesDone[w] < TaskLen(curTask[w]),
               queue' = Append(queue, Remaining(w)), mon' = mon, curTask' = curTask,
               bytesDone' = bytesDone, pc' = [pc EXCEPT ![w] = "loop"]
        PROVE  mon' = "exited" /\ Apart(queue', HeldBytes')
    <2>1. Remaining(w) \in Tasks /\ HeldBytes[w] = BytesOf(Remaining(w))
      BY <1>p, RemainingFields DEF HeldBytes, Held
    <2>2. ~InHand(w)' /\ \A u \in Workers \ {w} : InHand(u)' => InHand(u)
      BY <1>t, <1>p DEF InHand, Running
    <2>3. HeldBytes'[w] = {}
      BY <2>2, NoTaskFields DEF HeldBytes, Held
    <2>4. \A u \in Workers \ {w} : HeldBytes'[u] \subseteq HeldBytes[u]
      BY <1>b, <1>p, <2>2, HeldShrinks
    <2>5. Apart(Append(queue, Remaining(w)), HeldBytes')
      <3> DEFINE g == HeldBytes
                 h == HeldBytes'
                 t == Remaining(w)
      <3>1. /\ queue \in Seq(Tasks) /\ t \in Tasks /\ Apart(queue, g)
            /\ BytesOf(t) \subseteq g[w] /\ h[w] = {}
            /\ \A u \in Workers \ {w} : h[u] \subseteq g[u]
        BY <1>0, <1>t, <2>1, <2>3, <2>4
      <3> HIDE DEF g, h, t
      <3>2. Apart(Append(queue, t), h)
        BY <3>1, ApartPush
      <3> QED BY <3>2 DEF h, t
    <2> QED BY <1>0, <1>p, <2>5
  <1>d. ASSUME NEW w \in Workers, NEW e, Die(w, e)
        PROVE  mon' = "exited" /\ Apart(queue', HeldBytes')
    BY <1>d, <1>t, <1>b, <1>k DEF Die, InHand, Running, monVars
  <1>1. ASSUME NEW w \in Workers, Take(w) PROVE mon' = "exited" /\ Apart(queue', HeldBytes')
    <2>1. /\ queue # <<>> /\ queue' = Tail(queue) /\ mon' = mon
          /\ curTask' = [curTask EXCEPT ![w] = Head(queue)]
          /\ bytesDone' = [bytesDone EXCEPT ![w] = 0]
          /\ pc' = [pc EXCEPT ![w] = "request"]
      BY <1>1 DEF Take, StartTask, monVars
    <2>2. Head(queue) \in Tasks
      BY <1>t, <2>1, HeadTailProperties
    <2>3. HeldBytes'[w] \subseteq BytesOf(Head(queue))
      <3>1. InHand(w)' /\ curTask'[w] = Head(queue) /\ bytesDone'[w] = 0
        BY <1>t, <2>1 DEF InHand, Running
      <3>2. HeldBytes'[w] = BytesOf(Remaining(w)')
        BY <3>1 DEF HeldBytes, Held
      <3>3. Remaining(w)' = [Start |-> Head(queue).Start + 0, End |-> Head(queue).End]
        BY <3>1 DEF Remaining
      <3> QED BY <2>2, <3>2, <3>3, TaskFields DEF BytesOf
    <2>4. ASSUME NEW u \in Workers \ {w} PROVE HeldBytes'[u] \subseteq HeldBytes[u]
      <3>1. curTask'[u] = curTask[u] /\ bytesDone'[u] = bytesDone[u] /\ pc'[u] = pc[u]
        BY <1>t, <2>1
      <3>2. InHand(u)' => InHand(u)
        BY <3>1 DEF InHand, Running
      <3> QED BY <1>b, <3>1, <3>2, HeldShrinks
    <2> QED BY <1>0, <1>t, <2>1, <2>3, <2>4, ApartPop
  <1>2. ASSUME NEW w \in Workers, QuitCancelled(w) \/ QuitIdle(w) \/ Respond(w) \/ Refuse(w) \/ RetryStatus(w)
        PROVE  mon' = "exited" /\ Apart(queue', HeldBytes')
    BY <1>2, <1>t, <1>b, <1>k DEF QuitCancelled, QuitIdle, Respond, Refuse, RetryStatus, InHand,
       Running, workerVars, monVars
  <1>3. ASSUME NEW w \in Workers, StatusExhausted(w) \/ NoRange(w) \/ Fatal(w) \/ Corrupt(w)
        PROVE  mon' = "exited" /\ Apart(queue', HeldBytes')
    BY <1>3, <1>d DEF StatusExhausted, NoRange, Fatal, Corrupt
  <1>4. ASSUME NEW w \in Workers, Read(w) PROVE mon' = "exited" /\ Apart(queue', HeldBytes')
    <2>1. \A u \in Workers : bytesDone[u] <= bytesDone'[u]
      BY <1>4, <1>t, SizeAssumption DEF Read
    <2> QED BY <1>4, <2>1, <1>k DEF Read, InHand, Running, monVars
  <1>5. ASSUME NEW w \in Workers, Finish(w) \/ BackoffCancelled(w)
        PROVE  mon' = "exited" /\ Apart(queue', HeldBytes')
    BY <1>5, <1>t, <1>b, <1>k DEF Finish, BackoffCancelled, InHand, Running, monVars
  <1>6. ASSUME NEW w \in Workers, Abandon(w)
        PROVE  mon' = "exited" /\ Apart(queue', HeldBytes')
    <2>1. /\ InHand(w) /\ bytesDone[w] < TaskLen(curTask[w])
          /\ mon' = mon /\ curTask' = curTask /\ bytesDone' = bytesDone
      BY <1>6 DEF Abandon, InHand, monVars
    <2>2. \/ queue' = queue /\ (pc' = [pc EXCEPT ![w] = "loop"] \/ pc' = [pc EXCEPT ![w] = "backoff"])
          \/ queue' = Append(queue, Remaining(w)) /\ pc' = [pc EXCEPT ![w] = "loop"]
      BY <1>6 DEF Abandon, SkipStolen, Requeue
    <2>3. CASE queue' = Append(queue, Remaining(w)) /\ pc' = [pc EXCEPT ![w] = "loop"]
      BY <1>p, <2>1, <2>3
    <2>4. CASE queue' = queue /\ (pc' = [pc EXCEPT ![w] = "loop"] \/ pc' = [pc EXCEPT ![w] = "backoff"])
      <3>1. \A u \in Workers : InHand(u)' => InHand(u)
        BY <1>t, <2>1, <2>4 DEF InHand, Running
      <3> QED BY <1>b, <1>k, <2>1, <2>4, <3>1
    <2> QED BY <2>2, <2>3, <2>4
  <1>7. ASSUME NEW w \in Workers, BackoffElapsed(w)
        PROVE  mon' = "exited" /\ Apart(queue', HeldBytes')
    <2>1. InHand(w) /\ bytesDone[w] < TaskLen(curTask[w])
      BY <1>7 DEF BackoffElapsed, InHand, TypeInv, WorkerOK
    <2> QED BY <1>7, <1>p, <2>1 DEF BackoffElapsed, workerVars, monVars
  <1>8. ASSUME DrainTake PROVE mon' = "exited" /\ Apart(queue', HeldBytes')
    <2>1. queue # <<>> /\ queue' = Tail(queue) /\ mon' = mon /\ HeldBytes' = HeldBytes
      BY <1>8 DEF DrainTake, monVars, workerVars, HeldBytes, Held, InHand, Running,
         Remaining, BytesOf
    <2>2. 1 \in Workers
      BY SizeAssumption DEF Workers
    <2> QED BY <1>0, <1>t, <2>1, <2>2, ApartPop
  <1>9. ASSUME WorkersDone \/ Assess \/ DrainOk \/ DrainEnd \/ Save \/ Signalled \/ Return
               \/ CtxCancel \/ Returned \/ UNCHANGED vars
        PROVE  mon' = "exited" /\ Apart(queue', HeldBytes')
    BY <1>9, <1>b, <1>k DEF WorkersDone, Assess, DrainOk, DrainEnd, Save, Signalled,
       Return, CtxCancel, Returned, InHand, Running, vars, workerVars, monVars
  <1>10. ASSUME DrainFail PROVE mon' = "exited" /\ Apart(queue', HeldBytes')
    BY <1>10, <1>b, <1>k DEF DrainFail, InHand, Running, workerVars, monVars
  <1>11. ~MonitorStep /\ \A w \in Workers : ~PlanTask(w)
    BY <1>0 DEF MonitorStep, PlanTask, PlanProgress, Claim, PlanDrop, Mark, CancelVictim,
       PushLeftover, MonitorExit
  <1> QED BY <1>1, <1>2, <1>3, <1>4, <1>5, <1>6, <1>7, <1>8, <1>9, <1>10, <1>11
          DEF Next, Worker, Supervisor, Interrupted, Transient

\* Without the monitor, every byte is in the queue at most once, or in the hands
\* of one worker, never both (workerLoop, requeueUnfinished, drainLeftovers).
THEOREM SoleOwner == Spec => []NoDoubleWork
  <1>1. OwnInv => NoDoubleWork
    BY DEF OwnInv, Apart, NoDoubleWork, HeldBytes
  <1>2. TypeInv /\ OwnInv /\ [Next]_vars => TypeInv' /\ OwnInv'
    BY TypeStep, OwnStep
  <1> QED BY <1>1, <1>2, TypeInit, OwnInit, PTL DEF Spec
====
