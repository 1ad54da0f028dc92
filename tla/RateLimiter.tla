---------------------------- MODULE RateLimiter ----------------------------
(***************************************************************************)
(* internal/fetch/ratelimit.go: the token bucket that all workers of a     *)
(* download share.  wait(n) is called by pumpBody after a read of n bytes; *)
(* it takes n tokens, and who finds too few sleeps for the rest with the   *)
(* mutex held.                                                             *)
(*                                                                         *)
(* The unit of time is what one byte takes at the full rate, so a unit     *)
(* brings one token and a second brings Rate of them.  The clock is not    *)
(* kept; since and left are measured on it.  A timer may fire late.        *)
(***************************************************************************)
EXTENDS Naturals

CONSTANTS
    Workers,
    Rate,      \* the bytes of a second, which is also the burst
    MaxRead    \* the most that one read of a body returns

ASSUME RateAssumption == Rate \in Nat \ {0} /\ MaxRead \in Nat \ {0}

VARIABLES
    started,   \* the limiter was used: last is not the zero time
    tokens,    \* as of last
    since,     \* the time since last, or Rate if that is less
    left,      \* what the sleeper still has to sleep
    locked,    \* the mutex is held, across a sleep
    pc,        \* whether the worker is in wait: queued for the mutex or asleep
    need,      \* wait's n
    stop,      \* the context of the download is cancelled
    excess     \* a meter of what was let through: see RateCapped

vars == <<started, tokens, since, left, locked, pc, need, stop, excess>>

Least(m, n) == IF m < n THEN m ELSE n

Types ==
    /\ started \in BOOLEAN
    /\ tokens \in 0 .. Rate
    /\ since \in 0 .. Rate
    /\ left \in 0 .. MaxRead
    /\ locked \in BOOLEAN
    /\ pc \in [Workers -> {"out", "queued", "asleep"}]
    /\ need \in [Workers -> 0 .. MaxRead]
    /\ stop \in BOOLEAN
    /\ excess \in Nat

\* wait sleeps with the mutex held and unlocks it on its every way out.
MutexOfSleeper ==
    /\ locked <=> \E w \in Workers : pc[w] = "asleep"
    /\ \A v, w \in Workers : pc[v] = "asleep" /\ pc[w] = "asleep" => v = w

\* The types of the variables, and that the mutex is held across steps by one
\* sleeping worker or by nobody.
TypeOK == Types /\ MutexOfSleeper

Init ==
    /\ started = FALSE
    /\ tokens = 0
    /\ since = 0
    /\ left = 0
    /\ locked = FALSE
    /\ pc = [w \in Workers |-> "out"]
    /\ need = [w \in Workers |-> 0]
    /\ stop = FALSE
    /\ excess = 0

----
\* The bucket after its refill.  (Mutation: the burst is forgotten.)
AvailableUncapped == tokens + since

Available == Least(tokens + since, Rate)

\* pumpBody has read n bytes and calls wait, whether or not the context is
\* cancelled by now.
Call(w, n) ==
    /\ pc[w] = "out"
    /\ pc' = [pc EXCEPT ![w] = "queued"]
    /\ need' = [need EXCEPT ![w] = n]
    /\ UNCHANGED <<started, tokens, since, left, locked, stop, excess>>

Leave(w) ==
    /\ pc' = [pc EXCEPT ![w] = "out"]
    /\ need' = [need EXCEPT ![w] = 0]

\* Mutation of Pass: the early return forgets the mutex.
PassLocked(w) ==
    /\ pc[w] = "queued"
    /\ ~locked
    /\ Available >= need[w]
    /\ started' = TRUE
    /\ tokens' = Available - need[w]
    /\ since' = 0
    /\ locked' = TRUE
    /\ excess' = excess + need[w]
    /\ Leave(w)
    /\ UNCHANGED <<left, stop>>

\* Under the mutex there are tokens enough.
Pass(w) ==
    /\ pc[w] = "queued"
    /\ ~locked
    /\ Available >= need[w]
    /\ started' = TRUE
    /\ tokens' = Available - need[w]
    /\ since' = 0
    /\ excess' = excess + need[w]
    /\ Leave(w)
    /\ UNCHANGED <<left, locked, stop>>

\* Mutation of Sleep: it unlocks first, so the workers sleep side by side.
SleepUnlocked(w) ==
    /\ pc[w] = "queued"
    /\ ~locked
    /\ Available < need[w]
    /\ started' = TRUE
    /\ tokens' = 0
    /\ left' = need[w] - Available
    /\ pc' = [pc EXCEPT ![w] = "asleep"]
    /\ UNCHANGED <<since, locked, need, stop, excess>>

\* Under the mutex there are too few: all are taken, and the sleep earns the
\* rest.  It keeps the mutex, and last is left to its end.
Sleep(w) ==
    /\ pc[w] = "queued"
    /\ ~locked
    /\ Available < need[w]
    /\ started' = TRUE
    /\ tokens' = 0
    /\ left' = need[w] - Available
    /\ locked' = TRUE
    /\ pc' = [pc EXCEPT ![w] = "asleep"]
    /\ UNCHANGED <<since, need, stop, excess>>

\* Mutation of Awake: the time asleep counts again for the next caller.
AwakeStale(w) ==
    /\ left' = 0
    /\ locked' = FALSE
    /\ Leave(w)
    /\ UNCHANGED <<started, tokens, since, stop>>

Awake(w) ==
    /\ since' = 0
    /\ left' = 0
    /\ locked' = FALSE
    /\ Leave(w)
    /\ UNCHANGED <<started, tokens, stop>>

TimerFires(w) ==
    /\ pc[w] = "asleep"
    /\ left = 0
    /\ excess' = excess + need[w]
    /\ Awake(w)

\* Mutation of Interrupted: only the timer ends a sleep.
InterruptedLate(w) ==
    /\ pc[w] = "asleep"
    /\ stop
    /\ left = 0
    /\ Awake(w)
    /\ UNCHANGED excess

\* Ctrl-C ends the sleep: its bytes were not paid for in full.
Interrupted(w) ==
    /\ pc[w] = "asleep"
    /\ stop
    /\ Awake(w)
    /\ UNCHANGED excess

----
\* Time passes, for the bucket once it was used.
Tick ==
    /\ since' = IF started THEN Least(since + 1, Rate) ELSE since
    /\ left' = IF left > 0 THEN left - 1 ELSE 0
    /\ excess' = IF excess > 0 THEN excess - 1 ELSE 0
    /\ UNCHANGED <<started, tokens, locked, pc, need, stop>>

CtrlC ==
    /\ ~stop
    /\ stop' = TRUE
    /\ UNCHANGED <<started, tokens, since, left, locked, pc, need, excess>>

Enter(w) == Pass(w) \/ Sleep(w)

Wake(w) == TimerFires(w) \/ Interrupted(w)

Worker(w) == Enter(w) \/ Wake(w) \/ (\E n \in 1 .. MaxRead : Call(w, n))

Next ==
    \/ \E w \in Workers : Worker(w)
    \/ Tick
    \/ CtrlC

\* sync.Mutex hands itself to whoever waited for more than a millisecond, so no
\* waiter is passed over for ever.  After Ctrl-C nothing may depend on time.
Fairness ==
    /\ \A w \in Workers : SF_vars(Enter(w)) /\ WF_vars(Wake(w))
    /\ WF_vars(~stop /\ Tick)

Spec == Init /\ [][Next]_vars /\ Fairness

----
(* Properties *)

Burst == IF Rate > MaxRead THEN Rate ELSE MaxRead

\* All workers together never get more than the burst ahead of the cap: the
\* meter rises by every read that was waited for in full, falls with time at the
\* cap's rate, and never passes a second's worth or, if that is larger, one read
\* (ratelimit.go, the comment on wait).  A read whose sleep was cut short by
\* Ctrl-C is not metered: it was let through unpaid.
RateCapped == excess <= Burst

\* What RateCapped rests on: the tokens that can be had, or that the sleeper has
\* earned so far, are not yet in the meter.
Earned ==
    \/ /\ ~locked
       /\ \A w \in Workers : pc[w] # "asleep"
       /\ excess + Available <= Burst
    \/ /\ locked
       /\ tokens = 0
       /\ \E w \in Workers :
             /\ \A v \in Workers : pc[v] = "asleep" <=> v = w
             /\ left <= need[w]
             /\ excess + need[w] <= Burst + left

\* Nobody waits for tokens for ever, although sleepers keep the mutex.
Served ==
    \A w \in Workers : pc[w] # "out" ~> (pc[w] = "out" \/ stop)

\* A cancelled download gets all its workers out, whether queued or asleep and
\* even if no timer ever fires.
CancelledLeaves ==
    \A w \in Workers : (stop /\ pc[w] # "out") ~> pc[w] = "out"

IInv == Types /\ Earned

=============================================================================
