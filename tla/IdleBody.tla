------------------------------ MODULE IdleBody ------------------------------
(***************************************************************************)
(* internal/fetch/idle_body.go: the reader that ends a stalled body.  A    *)
(* helper goroutine reads the HTTP body into a pooled buffer, so that the  *)
(* worker can give up waiting: when its context is cancelled or nothing    *)
(* came for the idle time.  The helper may then still be inside a read.    *)
(*                                                                         *)
(* A body is read by one worker: first by pumpBody, then by drainAndClose, *)
(* which discards what is left and closes.  A worker goes on to its next   *)
(* body while the helper of the last one may still be alive; all bodies    *)
(* share the pool of buffers.  The two timers may fire at any moment.      *)
(***************************************************************************)
EXTENDS Naturals, Sequences, FiniteSets

CONSTANTS
    Bodies,    \* the bodies that are read
    Before,    \* Before[b]: those that b's worker reads first
    Deadline,  \* those whose connection takes read deadlines: no helper
    Single,    \* those of singleDownload, whose context outlives them
    Stubborn,  \* those whose blocked Read does not return after a Close
    Chunks     \* Chunks[b]: how often body b can deliver data

ASSUME BodiesAssumption ==
    /\ Before \in [Bodies -> SUBSET Bodies]
    /\ Deadline \subseteq Bodies
    /\ Single \subseteq Bodies
    /\ Stubborn \subseteq Bodies
    /\ Chunks \in [Bodies -> Nat \ {0}]

VARIABLES
    made,       \* buffers are numbered as the pool makes them, from 1 to made
    pool,       \* bufPool: those anybody may acquire
    ctx,        \* the body's context is cancelled
    closed,     \* forceClose has run: the body and stopCh are closed
    pc,         \* the worker's place
    phase,      \* who reads: "pump" or "discard"
    tmp,        \* the buffer of the read under way
    req,        \* the buffer in reqCh, which holds one request
    res,        \* the answer in the read's resCh
    helper,     \* the helper's place
    hbuf,       \* the buffer that the helper reads into
    sent,       \* chunks the body has delivered
    delivered   \* the chunks that pumpBody was given, in order

poolVars == <<made, pool>>
readerVars == <<pc, phase, tmp, res, delivered>>
helperVars == <<helper, hbuf, sent>>
vars == <<poolVars, ctx, closed, req, readerVars, helperVars>>

NoBuf == 0

\* What a resCh holds: nothing, a chunk by its number, or an error or the end.
Nothing == 0
Failed(b) == Chunks[b] + 1

TypeOK ==
    /\ made \in Nat
    /\ pool \subseteq 1 .. made
    /\ ctx \in [Bodies -> BOOLEAN]
    /\ closed \in [Bodies -> BOOLEAN]
    /\ pc \in [Bodies -> {"read", "direct", "offer", "await", "drain", "close", "done"}]
    /\ phase \in [Bodies -> {"pump", "discard"}]
    /\ tmp \in [Bodies -> Nat]
    /\ req \in [Bodies -> Nat]
    /\ res \in [Bodies -> Nat]
    /\ helper \in [Bodies -> {"none", "select", "reading", "exited"}]
    /\ hbuf \in [Bodies -> Nat]
    /\ sent \in [Bodies -> Nat]
    /\ delivered \in [Bodies -> Seq(Nat)]

Init ==
    /\ made = 0
    /\ pool = {}
    /\ ctx = [b \in Bodies |-> FALSE]
    /\ closed = [b \in Bodies |-> FALSE]
    /\ pc = [b \in Bodies |-> "read"]
    /\ phase = [b \in Bodies |-> "pump"]
    /\ tmp = [b \in Bodies |-> NoBuf]
    /\ req = [b \in Bodies |-> NoBuf]
    /\ res = [b \in Bodies |-> Nothing]
    /\ helper = [b \in Bodies |-> "none"]
    /\ hbuf = [b \in Bodies |-> NoBuf]
    /\ sent = [b \in Bodies |-> 0]
    /\ delivered = [b \in Bodies |-> <<>>]

----
(* What Read's ways out have in common. *)

\* Mutation of Acquire: the pool hands out the same new buffer again.
AcquireShared(b) ==
    /\ made' = IF made = 0 THEN 1 ELSE made
    /\ tmp' = [tmp EXCEPT ![b] = made']
    /\ UNCHANGED pool

Acquire(b) ==
    IF pool = {}
    THEN /\ made' = made + 1
         /\ tmp' = [tmp EXCEPT ![b] = made + 1]
         /\ UNCHANGED pool
    ELSE /\ \E x \in pool : /\ pool' = pool \ {x}
                            /\ tmp' = [tmp EXCEPT ![b] = x]
         /\ UNCHANGED made

\* Mutation of Release: an unused index instead of the buffer.
ReleaseNext(b) == pool' = pool \cup {tmp[b] + 1} /\ UNCHANGED made

Release(b) == pool' = pool \cup {tmp[b]} /\ UNCHANGED made

\* Mutation of ForceClose: the body is closed, stopCh is forgotten.
ForceCloseNot(b) == closed' = closed

ForceClose(b) == closed' = [closed EXCEPT ![b] = TRUE]

\* The read under way is over.  Nobody will look into its resCh any more.
Return(b, next) ==
    /\ pc' = [pc EXCEPT ![b] = next]
    /\ tmp' = [tmp EXCEPT ![b] = NoBuf]
    /\ res' = [res EXCEPT ![b] = Nothing]

\* Mutation of GiveUp: pumpBody reads on after a timeout.
GiveUpNot(b) ==
    /\ Return(b, IF phase[b] = "pump" THEN "read" ELSE "close")
    /\ UNCHANGED <<phase, delivered>>

\* After an error pumpBody returns and drainAndClose reads on; io.Copy stops
\* at the first error.
GiveUp(b) ==
    /\ Return(b, IF phase[b] = "pump" THEN "read" ELSE "close")
    /\ phase' = [phase EXCEPT ![b] = "discard"]
    /\ UNCHANGED delivered

\* pumpBody takes a chunk and reads on, or has its range, or cannot write;
\* drainAndClose reads on, or has discarded as much as it will.
Accept(b, chunk) ==
    IF phase[b] = "pump"
    THEN /\ delivered' = [delivered EXCEPT ![b] = Append(@, chunk)]
         /\ phase' \in {phase, [phase EXCEPT ![b] = "discard"]}
         /\ Return(b, "read")
    ELSE /\ \E next \in {"read", "close"} : Return(b, next)
         /\ UNCHANGED <<phase, delivered>>

----
(* The worker. *)

Turn(b) == \A c \in Before[b] : pc[c] = "done"

\* Read up to its first select.
StartRead(b) ==
    /\ pc[b] = "read"
    /\ Turn(b)
    /\ b \notin Deadline
    /\ Acquire(b)
    /\ helper' = [helper EXCEPT ![b] = IF @ = "none" THEN "select" ELSE @]
    /\ pc' = [pc EXCEPT ![b] = "offer"]
    /\ UNCHANGED <<ctx, closed, phase, req, res, hbuf, sent, delivered>>

OfferCancelled(b) ==
    /\ pc[b] = "offer"
    /\ ctx[b]
    /\ Release(b)
    /\ ForceClose(b)
    /\ GiveUp(b)
    /\ UNCHANGED <<ctx, req, helperVars>>

Offer(b) ==
    /\ pc[b] = "offer"
    /\ req[b] = NoBuf
    /\ req' = [req EXCEPT ![b] = tmp[b]]
    /\ pc' = [pc EXCEPT ![b] = "await"]
    /\ UNCHANGED <<poolVars, ctx, closed, phase, tmp, res, delivered, helperVars>>

OfferClosed(b) ==
    /\ pc[b] = "offer"
    /\ closed[b]
    /\ Release(b)
    /\ GiveUp(b)
    /\ UNCHANGED <<ctx, closed, req, helperVars>>

\* The second select: ctx.Done or the idle timer.
AwaitEnds(b) ==
    /\ pc[b] = "await"
    /\ ForceClose(b)
    /\ pc' = [pc EXCEPT ![b] = "drain"]
    /\ UNCHANGED <<poolVars, ctx, phase, tmp, req, res, delivered, helperVars>>

Answered(b) ==
    /\ pc[b] = "await"
    /\ res[b] # Nothing
    /\ Release(b)
    /\ IF res[b] = Failed(b) THEN GiveUp(b) ELSE Accept(b, res[b])
    /\ UNCHANGED <<ctx, closed, req, helperVars>>

\* drainResult, when the helper answers in time ...
Drained(b) ==
    /\ pc[b] = "drain"
    /\ res[b] # Nothing
    /\ Release(b)
    /\ GiveUp(b)
    /\ UNCHANGED <<ctx, closed, req, helperVars>>

\* Mutation of DrainTimeout: the buffer goes back to the pool.
DrainTimeoutReleases(b) ==
    /\ pc[b] = "drain"
    /\ Release(b)
    /\ GiveUp(b)
    /\ UNCHANGED <<ctx, closed, req, helperVars>>

\* Mutation of DrainTimeout: drainResult waits without a limit.
DrainForever(b) ==
    /\ pc[b] = "drain"
    /\ res[b] # Nothing
    /\ GiveUp(b)
    /\ UNCHANGED <<poolVars, ctx, closed, req, helperVars>>

\* ... and when it does not: the buffer is lost to the pool.
DrainTimeout(b) ==
    /\ pc[b] = "drain"
    /\ GiveUp(b)
    /\ UNCHANGED <<poolVars, ctx, closed, req, helperVars>>

Close(b) ==
    /\ pc[b] = "close"
    /\ ForceClose(b)
    /\ pc' = [pc EXCEPT ![b] = "done"]
    /\ ctx' = [ctx EXCEPT ![b] = @ \/ b \notin Single]
    /\ UNCHANGED <<poolVars, phase, tmp, req, res, delivered, helperVars>>

----
(* The path without a helper: the connection enforces the deadline. *)

StartDirect(b) ==
    /\ pc[b] = "read"
    /\ Turn(b)
    /\ b \in Deadline
    /\ IF ctx[b] THEN GiveUp(b)
                 ELSE pc' = [pc EXCEPT ![b] = "direct"] /\ UNCHANGED <<phase, tmp, res, delivered>>
    /\ UNCHANGED <<poolVars, ctx, closed, req, helperVars>>

DirectData(b) ==
    /\ pc[b] = "direct"
    /\ sent[b] < Chunks[b]
    /\ sent' = [sent EXCEPT ![b] = @ + 1]
    /\ Accept(b, sent[b] + 1)
    /\ UNCHANGED <<poolVars, ctx, closed, req, helper, hbuf>>

\* An error of the connection, or its deadline, after which the body is closed.
DirectFails(b) ==
    /\ pc[b] = "direct"
    /\ ForceClose(b) \/ UNCHANGED closed
    /\ GiveUp(b)
    /\ UNCHANGED <<poolVars, ctx, req, helperVars>>

Worker(b) ==
    \/ StartRead(b) \/ OfferCancelled(b) \/ Offer(b) \/ OfferClosed(b)
    \/ AwaitEnds(b) \/ Answered(b) \/ Drained(b) \/ DrainTimeout(b) \/ Close(b)
    \/ StartDirect(b) \/ DirectData(b) \/ DirectFails(b)

----
(* The helper. *)

HelperStops(b) ==
    /\ helper[b] = "select"
    /\ closed[b] \/ ctx[b]
    /\ helper' = [helper EXCEPT ![b] = "exited"]
    /\ UNCHANGED <<poolVars, ctx, closed, req, hbuf, sent, readerVars>>

HelperTakes(b) ==
    /\ helper[b] = "select"
    /\ req[b] # NoBuf
    /\ helper' = [helper EXCEPT ![b] = "reading"]
    /\ hbuf' = [hbuf EXCEPT ![b] = req[b]]
    /\ req' = [req EXCEPT ![b] = NoBuf]
    /\ UNCHANGED <<poolVars, ctx, closed, sent, readerVars>>

\* The body's Read returns, and the resCh of the request has room for the answer.
HelperAnswers(b, answer) ==
    /\ helper[b] = "reading"
    /\ res' = [res EXCEPT ![b] = IF hbuf[b] = tmp[b] THEN answer ELSE @]
    /\ helper' = [helper EXCEPT ![b] = "select"]
    /\ hbuf' = [hbuf EXCEPT ![b] = NoBuf]
    /\ UNCHANGED <<poolVars, ctx, closed, req, pc, phase, tmp, delivered>>

ReadData(b) ==
    /\ sent[b] < Chunks[b]
    /\ HelperAnswers(b, sent[b] + 1)
    /\ sent' = [sent EXCEPT ![b] = @ + 1]

\* Its end or an error: at any time, and a stubborn one not because of a Close.
ReadFails(b) == HelperAnswers(b, Failed(b)) /\ UNCHANGED sent

Helper(b) == HelperStops(b) \/ HelperTakes(b) \/ ReadData(b) \/ ReadFails(b)

----
\* Ctrl-C or a steal.
Cancel(b) ==
    /\ Turn(b)
    /\ pc[b] # "done"
    /\ ~ctx[b]
    /\ ctx' = [ctx EXCEPT ![b] = TRUE]
    /\ UNCHANGED <<poolVars, closed, req, readerVars, helperVars>>

Finished(b) == pc[b] = "done" /\ helper[b] \in {"none", "exited"}

Next == \E b \in Bodies : Worker(b) \/ Helper(b) \/ Cancel(b)

Fairness ==
    \A b \in Bodies :
        /\ WF_vars(Worker(b))
        /\ WF_vars(HelperStops(b))
        /\ WF_vars(HelperTakes(b))
        /\ WF_vars(b \notin Stubborn /\ (closed[b] \/ ctx[b]) /\ ReadFails(b))

Spec == Init /\ [][Next]_vars /\ Fairness

----
(* Properties *)

\* The buffers that the worker or the helper of a body may still write: the one
\* of the read under way, the one requested, the one being read into.
Held(b) == {tmp[b], req[b], hbuf[b]} \ {NoBuf}

\* No buffer is in the pool, or in use for another body, while a read into it
\* may still be under way: not after a timeout, and not after a Close
\* (idle_body.go, drainResult).
BufferOwned ==
    \A b \in Bodies :
        /\ Held(b) \cap pool = {}
        /\ \A c \in Bodies \ {b} : Held(b) \cap Held(c) = {}

\* What BufferOwned rests on: which references of a body may be to one buffer.
Refs(b) ==
    /\ Held(b) \subseteq 1 .. made
    /\ pc[b] \in {"offer", "await", "drain"} <=> tmp[b] # NoBuf
    /\ pc[b] = "offer" => tmp[b] \notin {req[b], hbuf[b]} /\ res[b] = Nothing
    /\ res[b] # Nothing => tmp[b] \notin {NoBuf, req[b], hbuf[b]}
    /\ helper[b] = "reading" <=> hbuf[b] # NoBuf
    /\ req[b] # NoBuf => req[b] # hbuf[b]

IInv == TypeOK /\ BufferOwned /\ \A b \in Bodies : Refs(b)

\* pumpBody is given the chunks of its body in order and without a gap, so that
\* it may write each behind the one before, although results of abandoned reads
\* are thrown away (idle_body.go Read, body.go pumpBody).
InOrder ==
    \A b \in Bodies : \A i \in DOMAIN delivered[b] : delivered[b][i] = i

\* What InOrder rests on: as long as pumpBody reads, no abandoned read is left,
\* and at most the next chunk is on its way.
Flow(b) ==
    /\ \A i \in DOMAIN delivered[b] : delivered[b][i] = i
    /\ sent[b] <= Chunks[b]
    /\ phase[b] = "pump" =>
          LET n == Len(delivered[b]) IN
          /\ pc[b] \in {"read", "direct", "offer", "await", "drain"}
          /\ {req[b], hbuf[b]} \subseteq {NoBuf, tmp[b]}
          /\ \/ sent[b] = n /\ res[b] \in {Nothing, Failed(b)}
             \/ sent[b] = n + 1 /\ res[b] = n + 1

Ordered == IInv /\ \A b \in Bodies : Flow(b)

\* A read ends, whatever the server, the body and the helper do: the idle timer
\* and the limit of drainResult see to it.
StalledReadEnds ==
    \A b \in Bodies : pc[b] \in {"offer", "await", "drain"} ~>
                          pc[b] \in {"read", "close", "done"}

\* Once a body is closed its helper ends too, unless the body's Read ignores
\* the Close: no goroutine is left behind, also in singleDownload, whose context
\* lives on.
HelperEnds ==
    \A b \in Bodies \ Stubborn : pc[b] = "done" ~> Finished(b)

=============================================================================
