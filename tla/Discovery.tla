------------------------------ MODULE Discovery ------------------------------
(***************************************************************************)
(* autoDetectRemoteSidecar (cmd/gofetch/sidecar.go): under "-h auto" one   *)
(* goroutine per candidate checksum URL, the first hit wins.  A probe that *)
(* finds a checksum offers it on a channel of capacity one without         *)
(* blocking; a closer goroutine waits for all probes and closes `done`;    *)
(* the caller launches them and then selects over the three channels.      *)
(*                                                                         *)
(* Several calls of one process are modelled side by side, because the     *)
(* probes of a call that has returned may still be running.  cancel() only *)
(* hastens the end of a probe, which may come at any time anyway (Miss).   *)
(***************************************************************************)
EXTENDS Integers

CONSTANTS
  Calls,        \* the calls the process makes, one per URL
  Candidates    \* the candidate URLs: <url>.md5 ... SHA512SUMS

Answers == {"none", "canceled"}

ASSUME CandidatesAssumption == Candidates \cap {"none", "canceled", "empty", "given"} = {}

VARIABLES
  stop,      \* the signal context is done (Ctrl-C, SIGTERM, SIGHUP)
  probe,     \* probe[u][c]: the goroutine of candidate c in call u
  buffer,    \* buffer[u]: the value in the channel `results`
  closed,    \* closed[u]: the channel `done` is closed
  caller,    \* caller[u]: where the calling goroutine is
  verdict,   \* verdict[u]: what the call has returned
  late       \* history: `done` was already closed when the caller looked

discovery == <<probe, buffer, closed, caller, verdict, late>>

Ended == {"hit", "miss"}

DiscoveryInit ==
  /\ stop = FALSE
  /\ probe = [u \in Calls |-> [c \in Candidates |-> "off"]]
  /\ buffer = [u \in Calls |-> "empty"]
  /\ closed = [u \in Calls |-> FALSE]
  /\ caller = [u \in Calls |-> "idle"]
  /\ verdict = [u \in Calls |-> "none"]
  /\ late = [u \in Calls |-> FALSE]

(***************************************************************************)
(* The caller                                                              *)
(***************************************************************************)
Return(u, v) ==
  /\ caller' = [caller EXCEPT ![u] = "returned"]
  /\ verdict' = [verdict EXCEPT ![u] = v]

\* The URL has no base name: nothing to look for.
NoName(u) ==
  /\ caller[u] = "idle"
  /\ Return(u, "none")
  /\ UNCHANGED <<probe, buffer, closed, late>>

Launch(u) ==
  /\ caller[u] = "idle"
  /\ probe' = [probe EXCEPT ![u] = [c \in Candidates |-> "run"]]
  /\ caller' = [caller EXCEPT ![u] = "launched"]
  /\ UNCHANGED <<buffer, closed, verdict, late>>

\* The select, reached with some channels ready: any of them may be taken.
Select(u) ==
  /\ caller[u] = "launched"
  /\ late' = [late EXCEPT ![u] = closed[u]]
  /\ \/ /\ buffer[u] # "empty"
        /\ Return(u, buffer[u])
        /\ buffer' = [buffer EXCEPT ![u] = "empty"]
     \/ /\ closed[u] \/ stop
        /\ \/ closed[u] /\ Return(u, "none")
           \/ stop /\ Return(u, "canceled")
        /\ UNCHANGED buffer
     \/ /\ buffer[u] = "empty" /\ ~closed[u] /\ ~stop
        /\ caller' = [caller EXCEPT ![u] = "waiting"]
        /\ UNCHANGED <<verdict, buffer>>
  /\ UNCHANGED <<probe, closed>>

\* The signal context ends: a caller asleep in the select returns ctx.Err().
Interrupt ==
  LET asleep == {u \in Calls : caller[u] = "waiting"}
  IN  /\ caller' = [u \in Calls |-> IF u \in asleep THEN "returned" ELSE caller[u]]
      /\ verdict' = [u \in Calls |-> IF u \in asleep THEN "canceled" ELSE verdict[u]]
      /\ UNCHANGED <<probe, buffer, closed, late>>

(***************************************************************************)
(* The probes and the closer                                               *)
(***************************************************************************)
Becomes(u, c, s) == probe' = [probe EXCEPT ![u][c] = s]

\* 404, no entry, an error, the 15 s timeout of the client, or a cancellation.
Miss(u, c) ==
  /\ probe[u][c] = "run"
  /\ Becomes(u, c, "miss")
  /\ UNCHANGED <<buffer, closed, caller, verdict, late>>

\* Mutation of Send: the channel has no buffer.
SendUnbuffered(u, c) ==
  /\ probe[u][c] = "run"
  /\ Becomes(u, c, "hit")
  /\ IF caller[u] = "waiting"
       THEN Return(u, c)
       ELSE UNCHANGED <<caller, verdict>>
  /\ UNCHANGED <<buffer, closed, late>>

\* The answer holds a checksum for the file: send it without blocking, cancel
\* the others, wg.Done.  A caller asleep in the select receives the value;
\* otherwise it stays in the buffer, if that is free.
Send(u, c) ==
  /\ probe[u][c] = "run"
  /\ Becomes(u, c, "hit")
  /\ IF caller[u] = "waiting"
       THEN Return(u, c) /\ UNCHANGED buffer
       ELSE /\ buffer' = [buffer EXCEPT ![u] = IF @ = "empty" THEN c ELSE @]
            /\ UNCHANGED <<caller, verdict>>
  /\ UNCHANGED <<closed, late>>

\* wg.Wait(); close(done)
CloseDone(u) ==
  /\ caller[u] # "idle" /\ ~closed[u]
  /\ \A c \in Candidates : probe[u][c] \in Ended
  /\ closed' = [closed EXCEPT ![u] = TRUE]
  /\ IF caller[u] = "waiting" THEN Return(u, "none")
                              ELSE UNCHANGED <<caller, verdict>>
  /\ UNCHANGED <<probe, buffer, late>>

Probe(u, c) == Miss(u, c) \/ Send(u, c)

Background ==
  \E u \in Calls : CloseDone(u) \/ \E c \in Candidates : Probe(u, c)

DiscoveryTypeOK ==
  /\ stop \in BOOLEAN
  /\ probe \in [Calls -> [Candidates -> {"off", "run"} \cup Ended]]
  /\ buffer \in [Calls -> Candidates \cup {"empty"}]
  /\ closed \in [Calls -> BOOLEAN]
  /\ caller \in [Calls -> {"idle", "launched", "waiting", "returned"}]
  /\ verdict \in [Calls -> Candidates \cup Answers]
  /\ late \in [Calls -> BOOLEAN]

-----------------------------------------------------------------------------
\* sidecar.go:106 "First hit wins": the call answers "none" although a probe
\* has found a checksum only when all probes had ended before the caller
\* reached its select, whose random choice then decides.  A hit is never
\* dropped because nobody was receiving, and a sleeping caller always gets it.
HitWins ==
  \A u \in Calls :
    (caller[u] = "returned" /\ verdict[u] = "none"
       /\ \E c \in Candidates : probe[u][c] = "hit") => late[u]

\* What HitWins rests on: as long as nothing was sent there is no hit, and a
\* caller falls asleep only then.
HitKept ==
  \A u \in Calls :
    /\ caller[u] = "idle" =>
         verdict[u] = "none" /\ \A c \in Candidates : probe[u][c] = "off"
    /\ caller[u] = "waiting" \/ (caller[u] = "launched" /\ buffer[u] = "empty") =>
         \A c \in Candidates : probe[u][c] # "hit"
    /\ caller[u] = "returned" /\ verdict[u] = "none" /\ ~late[u] =>
         \A c \in Candidates : probe[u][c] \in {"off", "miss"}
=============================================================================
