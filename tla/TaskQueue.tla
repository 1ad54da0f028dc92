---- MODULE TaskQueue ----
(***************************************************************************)
(* The ring buffer behind the work queue (internal/fetch/task.go).  Each   *)
(* operation holds the mutex, so it is one step.                           *)
(***************************************************************************)
EXTENDS Integers, Sequences

CONSTANTS
    Values,     \* the tasks
    Nothing,    \* the zero Task that Pop returns with ok = false
    MinCap,     \* the smallest buffer NewQueue and growForced make (8)
    MaxSeeded,  \* bound: n of NewQueue(n, maxCap)
    SoftCaps,   \* the values of maxCap; 0 means none
    MaxBatch,   \* bound: the longest batch of PushMany
    MaxCount    \* bound: how many tasks the queue may hold

ASSUME CapAssumption == MinCap \in Nat \ {0} /\ MaxSeeded \in Nat /\ SoftCaps \subseteq Nat
ASSUME BoundAssumption == MaxBatch \in Nat /\ MaxCount \in Nat
ASSUME NothingAssumption == Nothing \notin Values

VARIABLES
    buf,        \* the slots, numbered from 0
    head, tail, count,
    call        \* history: the last call and what it pushed or popped

queueVars == <<buf, head, tail, count, call>>

Batches == UNION {[1..n -> Values] : n \in 1..MaxBatch}

Cap == Len(buf)
Slot(i) == buf[i + 1]
EmptySlots(n) == [i \in 1..n |-> Nothing]

\* The first of n, 2n, 4n, ... that is at least `needed`; a loop of at most
\* `needed` turns.
DoubledTo(n, needed) ==
    LET size[turn \in 0..needed] ==
            IF turn = 0 THEN n
            ELSE IF size[turn - 1] < needed THEN 2 * size[turn - 1] ELSE size[turn - 1]
    IN  size[needed]

\* NewQueue(n, maxCap)
FirstCap(n, maxCap) ==
    LET size == DoubledTo(MinCap, n) IN
    IF maxCap > 0 /\ size > maxCap THEN maxCap ELSE size

QueueInit ==
    /\ \E n \in 0..MaxSeeded, maxCap \in SoftCaps : buf = EmptySlots(FirstCap(n, maxCap))
    /\ head = 0 /\ tail = 0 /\ count = 0
    /\ call = [popped |-> Nothing]

\* Mutation of InOrder: the second copy is missing.
FirstCopy ==
    IF count = 0 THEN <<>>
    ELSE IF head < tail THEN SubSeq(buf, head + 1, tail)
    ELSE SubSeq(buf, head + 1, Cap) \o EmptySlots(tail)

\* The slots growForced copies to the front of the new buffer: one piece, or
\* two when the tasks wrap round the end.
InOrder ==
    IF count = 0 THEN <<>>
    ELSE IF head < tail THEN SubSeq(buf, head + 1, tail)
    ELSE SubSeq(buf, head + 1, Cap) \o SubSeq(buf, 1, tail)

\* The buffer after growForced has run until `needed` tasks fit.  The first
\* call moves the tasks to the front, the others only add slots.
GrownTo(needed) ==
    LET first == IF 2 * Cap < MinCap THEN MinCap ELSE 2 * Cap
    IN  InOrder \o EmptySlots(DoubledTo(first, needed) - count)

\* b after the batch is written at slots t, t+1, ... round the ring.
Written(b, t, batch) ==
    [i \in 1..Len(b) |->
        LET k == (i - 1 - t) % Len(b) IN
        IF k < Len(batch) THEN batch[k + 1] ELSE b[i]]

Store(b, h, t, batch) ==
    /\ buf' = Written(b, t, batch)
    /\ head' = h
    /\ tail' = (t + Len(batch)) % Len(b)
    /\ count' = count + Len(batch)
    /\ call' = [pushed |-> batch]

\* Mutation of Put: the test for a full buffer is off by one.
PutLate(batch) ==
    /\ count + Len(batch) <= MaxCount
    /\ IF Cap + 1 < count + Len(batch)
       THEN Store(GrownTo(count + Len(batch)), 0, count, batch)
       ELSE Store(buf, head, tail, batch)

\* Push and PushMany: grow if the batch does not fit, then write it.
Put(batch) ==
    /\ count + Len(batch) <= MaxCount
    /\ IF Cap < count + Len(batch)
       THEN Store(GrownTo(count + Len(batch)), 0, count, batch)
       ELSE Store(buf, head, tail, batch)

Pop ==
    /\ IF count = 0
       THEN call' = [popped |-> Nothing] /\ UNCHANGED <<head, count>>
       ELSE /\ call' = [popped |-> Slot(head)]
            /\ head' = (head + 1) % Cap
            /\ count' = count - 1
    /\ UNCHANGED <<buf, tail>>

QueueNext == (\E batch \in Batches : Put(batch)) \/ Pop

QueueSpec == QueueInit /\ [][QueueNext]_queueVars

----
(* Correctness. *)

\* The ring's indices stay in the buffer, and tail is count slots after head.
QueueTypeOK ==
    /\ buf \in Seq(Values \cup {Nothing}) /\ Cap >= 1
    /\ head \in 0..(Cap - 1) /\ count \in 0..Cap
    /\ tail = (head + count) % Cap
    /\ call \in [popped : Values \cup {Nothing}] \cup [pushed : Batches]

\* What the queue holds, read from head on round the ring.
Contents == [i \in 1..count |-> Slot((head + i - 1) % Cap)]

\* The ring buffer is a FIFO that loses, repeats and reorders nothing, whatever
\* the place of head and tail when it grows (Push, PushMany, Pop, growForced).
Abstract == INSTANCE Fifo WITH items <- Contents
RefinesFifo == Abstract!Spec
====
