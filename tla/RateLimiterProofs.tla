------------------------- MODULE RateLimiterProofs -------------------------
(***************************************************************************)
(* The rate cap, for any number of workers, any rate and reads of any      *)
(* size.  The invariant Earned says that the tokens which can be had now,  *)
(* and those that a sleeper has earned so far, are all missing in the      *)
(* meter; so whoever gets them does not lift it past the burst.            *)
(***************************************************************************)
EXTENDS RateLimiter, TLAPS

LEMMA BurstBounds == Burst \in Nat /\ Rate <= Burst /\ MaxRead <= Burst
  BY RateAssumption DEF Burst

LEMMA AvailableBounds ==
  ASSUME Types
  PROVE  Available \in 0 .. Rate
  BY RateAssumption DEF Types, Available, Least

LEMMA InitInv == Init => IInv
  <1> SUFFICES ASSUME Init PROVE IInv
    OBVIOUS
  <1>1. Types
    <2>1. 0 \in 0 .. Rate /\ 0 \in 0 .. MaxRead
      BY RateAssumption
    <2> QED BY <2>1 DEF Init, Types
  <1>2. Available = 0
    BY RateAssumption DEF Init, Available, Least
  <1>3. excess + Available <= Burst
    BY <1>2, BurstBounds DEF Init
  <1>4. Earned
    BY <1>3 DEF Init, Earned
  <1> QED BY <1>1, <1>4 DEF IInv

\* While nobody has the mutex nobody sleeps, and what is available is unmetered.
LEMMA Unlocked ==
  ASSUME IInv, ~locked
  PROVE  (\A w \in Workers : pc[w] # "asleep") /\ excess + Available <= Burst
  BY DEF IInv, Earned

\* Who sleeps is the one that has the mutex, and its debt is covered.
LEMMA Sleeping ==
  ASSUME IInv, NEW w \in Workers, pc[w] = "asleep"
  PROVE  /\ locked /\ tokens = 0
         /\ \A v \in Workers : pc[v] = "asleep" <=> v = w
         /\ left <= need[w]
         /\ excess + need[w] <= Burst + left
  BY DEF IInv, Earned

\* After a sleep, paid or not, the bucket is empty and the mutex free.
LEMMA AwakeInv ==
  ASSUME IInv, NEW w \in Workers, pc[w] = "asleep", Awake(w),
         excess' \in Nat, excess' <= Burst
  PROVE  IInv'
  <1>1. Types'
    <2>1. pc' \in [Workers -> {"out", "queued", "asleep"}] /\ need' \in [Workers -> 0 .. MaxRead]
      BY RateAssumption DEF IInv, Types, Awake, Leave
    <2>2. 0 \in 0 .. Rate /\ 0 \in 0 .. MaxRead
      BY RateAssumption
    <2> QED BY <2>1, <2>2 DEF IInv, Types, Awake
  <1>2. Available' = 0
    BY RateAssumption, Sleeping DEF Awake, Available, Least
  <1>3. \A v \in Workers : pc'[v] # "asleep"
    BY Sleeping DEF Awake, Leave, IInv, Types
  <1>4. excess' + Available' <= Burst
    BY <1>2, BurstBounds DEF Available, Least
  <1>5. Earned'
    BY <1>3, <1>4 DEF Earned, Awake
  <1> QED BY <1>1, <1>5 DEF IInv

LEMMA NextInv == IInv /\ [Next]_vars => IInv'
  <1> SUFFICES ASSUME IInv, [Next]_vars PROVE IInv'
    OBVIOUS
  <1> USE RateAssumption, BurstBounds, AvailableBounds
  <1>1. ASSUME NEW w \in Workers, NEW n \in 1 .. MaxRead, Call(w, n) PROVE IInv'
    <2>1. Types'
      BY <1>1 DEF IInv, Types, Call
    <2>2. \A v \in Workers : pc'[v] = "asleep" <=> pc[v] = "asleep"
      BY <1>1 DEF IInv, Types, Call
    <2>3. \A v \in Workers : pc[v] = "asleep" => need'[v] = need[v]
      BY <1>1 DEF IInv, Types, Call
    <2>4. Earned'
      BY <1>1, <2>2, <2>3 DEF IInv, Types, Earned, Call, Available
    <2> QED BY <2>1, <2>4 DEF IInv
  <1>2. ASSUME NEW w \in Workers, Pass(w) PROVE IInv'
    <2>1. Types'
      BY <1>2 DEF IInv, Types, Pass, Leave
    <2>2. excess' + Available' <= Burst
      BY <1>2, Unlocked DEF IInv, Types, Pass, Available, Least
    <2>3. \A v \in Workers : pc'[v] # "asleep"
      BY <1>2, Unlocked DEF IInv, Types, Pass, Leave
    <2> QED BY <1>2, <2>1, <2>2, <2>3 DEF IInv, Earned, Pass
  <1>3. ASSUME NEW w \in Workers, Sleep(w) PROVE IInv'
    <2>1. Types'
      BY <1>3 DEF IInv, Types, Sleep
    <2>2. \A v \in Workers : pc'[v] = "asleep" <=> v = w
      BY <1>3, Unlocked DEF IInv, Types, Sleep
    <2>3. left' <= need'[w] /\ excess' + need'[w] <= Burst + left'
      BY <1>3, Unlocked DEF IInv, Types, Sleep
    <2> QED BY <1>3, <2>1, <2>2, <2>3 DEF IInv, Earned, Sleep
  <1>4. ASSUME NEW w \in Workers, TimerFires(w) PROVE IInv'
    <2>1. excess' \in Nat /\ excess' <= Burst
      BY <1>4, Sleeping DEF IInv, Types, TimerFires
    <2> QED BY <1>4, <2>1, AwakeInv DEF TimerFires
  <1>5. ASSUME NEW w \in Workers, Interrupted(w) PROVE IInv'
    <2>1. excess' \in Nat /\ excess' <= Burst
      BY <1>5, Sleeping DEF IInv, Types, Interrupted
    <2> QED BY <1>5, <2>1, AwakeInv DEF Interrupted
  <1>6. CASE Tick
    <2>1. Types'
      BY <1>6 DEF IInv, Types, Tick, Least
    <2>2. CASE ~locked
      <3>1. excess' + Available' <= Burst
        BY <1>6, Unlocked, <2>2 DEF IInv, Types, Tick, Available, Least
      <3> QED BY <1>6, <2>1, <2>2, <3>1, Unlocked DEF IInv, Earned, Tick
    <2>3. CASE locked
      <3>1. PICK w \in Workers : pc[w] = "asleep"
        BY <2>3 DEF IInv, Earned
      <3>2. left' <= need[w] /\ excess' + need[w] <= Burst + left'
        BY <1>6, <3>1, Sleeping DEF IInv, Types, Tick
      <3> QED BY <1>6, <2>1, <2>3, <3>1, <3>2, Sleeping DEF IInv, Earned, Tick
    <2> QED BY <2>2, <2>3
  <1>7. CASE CtrlC
    BY <1>7 DEF IInv, Types, Earned, CtrlC, Available, Least
  <1>8. CASE UNCHANGED vars
    BY <1>8 DEF vars, IInv, Types, Earned, Available, Least
  <1> QED BY <1>1, <1>2, <1>3, <1>4, <1>5, <1>6, <1>7, <1>8 DEF Next, Worker, Enter, Wake

\* The bucket, the timer and the meter stay in their bounds: tokens never exceed
\* the burst of one second, nobody sleeps longer than the largest read is worth,
\* and the mutex is held across a step exactly while one worker sleeps.
THEOREM TypeCorrect == Spec => []TypeOK
  <1>1. ASSUME IInv PROVE MutexOfSleeper
    <2>1. CASE ~locked
      BY <1>1, <2>1, Unlocked DEF MutexOfSleeper
    <2>2. CASE locked
      BY <1>1, <2>2 DEF IInv, Earned, MutexOfSleeper
    <2> QED BY <2>1, <2>2
  <1>2. IInv => TypeOK
    BY <1>1 DEF IInv, TypeOK
  <1> QED BY <1>2, InitInv, NextInv, PTL DEF Spec

\* The workers together never get further ahead of the cap than the burst, as
\* the comment on wait promises: whatever their number, their reads, the order in
\* which they get the mutex, and however late the timers fire.
THEOREM CapHolds == Spec => []RateCapped
  <1>1. ASSUME IInv PROVE RateCapped
    <2>1. CASE ~locked
      BY <2>1, <1>1, Unlocked, AvailableBounds, BurstBounds DEF RateCapped, IInv, Types
    <2>2. CASE locked
      <3>1. PICK w \in Workers : pc[w] = "asleep"
        BY <1>1, <2>2 DEF IInv, Earned
      <3> QED BY <1>1, <3>1, Sleeping, BurstBounds DEF RateCapped, IInv, Types
    <2> QED BY <2>1, <2>2
  <1> QED BY <1>1, InitInv, NextInv, PTL DEF Spec

=============================================================================
