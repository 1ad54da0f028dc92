-------------------------------- MODULE Batch --------------------------------
(***************************************************************************)
(* The gofetch process (cmd/gofetch/main.go, download.go): it takes its    *)
(* URLs one by one.  For each it settles which checksum to expect (Local,  *)
(* explicit or by Discovery), probes the URL and its mirrors in turn       *)
(* (Downloader.Download, tryMirror, probeURL), transfers the bytes and     *)
(* verifies them.  Ctrl-C may come at any moment.  --info only probes.     *)
(*                                                                         *)
(* The transfer itself is one step with the outcomes it can have: what is  *)
(* inside it is the subject of RangeEngine, and what a run leaves on disk  *)
(* that of Lifecycle.  An error is known by what errors.Is says of it.     *)
(***************************************************************************)
EXTENDS Discovery

CONSTANTS
  Urls,      \* how many URLs the command line names; they are 1 .. Urls
  Mirrors,   \* how many URLs Download tries for each of them (primary first)
  Attempts   \* how often probeURL tries: 3 in the code

ASSUME BatchAssumption == /\ Calls = 1 .. Urls
                          /\ Urls \in Nat \ {0}
                          /\ Mirrors \in Nat \ {0}
                          /\ Attempts \in Nat \ {0}

VARIABLES
  cfg,       \* the flags: info, noClobber and hash ("", "auto", "explicit")
  complete,  \* the URLs whose output file exists without a sidecar
  pc,        \* where the main goroutine is
  url,       \* index of the URL at hand
  mirror,    \* index of the URL that Download tries for it
  attempt,   \* attempt of probeURL
  hash,      \* expected hash: "none", "given" or from a candidate
  lastErr,   \* class of the most recent error of Download
  outcome,   \* outcome[u]: how the URL ended
  checked,   \* checked[u]: the hash the file was verified against
  exit       \* the exit code so far

main == <<pc, url, mirror, attempt, hash, lastErr, outcome, checked, exit>>
vars == <<stop, discovery, cfg, complete, main>>

interruptExit == 130

Flags == {f \in [info : BOOLEAN, noClobber : BOOLEAN, hash : {"", "auto", "explicit"}] :
            f.info => ~f.noClobber /\ f.hash = "auto"}

Init ==
  /\ DiscoveryInit
  /\ cfg \in Flags
  /\ complete \in IF cfg.noClobber THEN SUBSET Calls ELSE {{}}   \* asked for no other purpose
  /\ pc = "next" /\ url = 1 /\ mirror = 1 /\ attempt = 1
  /\ hash = "none" /\ lastErr = "nil" /\ exit = 0
  /\ outcome = [u \in Calls |-> "pending"]
  /\ checked = [u \in Calls |-> "none"]

Goto(l) == pc' = l

\* The locals of runOne, Download and probeURL when they begin.
Fresh == mirror' = 1 /\ attempt' = 1 /\ hash' = "none" /\ lastErr' = "nil"

\* Mutation of Settle: the last URL decides the exit code.
SettleLast(o) ==
  /\ outcome' = [outcome EXCEPT ![url] = o]
  /\ exit' = IF o = "failed" THEN 1 ELSE 0
  /\ url' = url + 1
  /\ Goto("next")
  /\ Fresh

\* runOne or one round of runInfo ends with a code other than interruptExit.
Settle(o) ==
  /\ outcome' = [outcome EXCEPT ![url] = o]
  /\ exit' = IF o = "failed" THEN 1 ELSE exit
  /\ url' = url + 1
  /\ Goto("next")
  /\ Fresh

(***************************************************************************)
(* The loop over the URLs, and what is to be expected of a file            *)
(***************************************************************************)
Skip ==
  /\ pc = "next" /\ url \in Calls
  /\ cfg.noClobber /\ url \in complete
  /\ Settle("skipped")
  /\ UNCHANGED <<checked, discovery>>

Start ==
  /\ pc = "next" /\ url \in Calls
  /\ ~(cfg.noClobber /\ url \in complete)
  /\ Goto(IF cfg.info THEN "probe" ELSE "hash")
  /\ UNCHANGED <<url, mirror, attempt, hash, lastErr, outcome, checked, exit, discovery>>

Exit ==
  /\ pc = "next" /\ url \notin Calls
  /\ Goto("exit")
  /\ UNCHANGED <<url, mirror, attempt, hash, lastErr, outcome, checked, exit, discovery>>

\* The checksum is known: --info reports and goes on, a download starts.
Expect(h) ==
  IF cfg.info
    THEN Settle(IF lastErr = "nil" THEN "reported" ELSE "failed") /\ UNCHANGED checked
    ELSE /\ hash' = h
         /\ Goto("probe")
         /\ UNCHANGED <<url, mirror, attempt, lastErr, outcome, checked, exit>>

\* A checksum beside the output, an explicit one, or a checksum file named by -h.
KnownHash ==
  /\ pc = "hash"
  /\ Expect("given")
  /\ UNCHANGED discovery

\* Malformed, unreadable or, for an explicit URL, not to be had.
HashFails ==
  /\ pc = "hash" /\ ~cfg.info
  /\ Settle("failed")
  /\ UNCHANGED <<checked, discovery>>

NoHash ==
  /\ pc = "hash" /\ cfg.hash = ""
  /\ Expect("none")
  /\ UNCHANGED discovery

Detect ==
  /\ pc = "hash" /\ cfg.hash = "auto"
  /\ Launch(url) \/ NoName(url)
  /\ Goto("detect")
  /\ UNCHANGED <<url, mirror, attempt, hash, lastErr, outcome, checked, exit>>

Look ==
  /\ pc = "detect"
  /\ Select(url)
  /\ UNCHANGED main

\* resolveHash passes ctx.Err() on, and runOne takes it for a failure of the URL.
Detected ==
  /\ pc = "detect" /\ caller[url] = "returned"
  /\ IF verdict[url] = "canceled" /\ ~cfg.info
       THEN Settle("failed") /\ UNCHANGED checked
       ELSE Expect(verdict[url])
  /\ UNCHANGED discovery

(***************************************************************************)
(* Download: the probe of a mirror                                         *)
(***************************************************************************)
NextMirror(e) ==
  /\ lastErr' = e
  /\ attempt' = 1
  /\ IF mirror < Mirrors THEN mirror' = mirror + 1 /\ Goto("probe")
                         ELSE mirror' = mirror /\ Goto("error")
  /\ UNCHANGED <<url, hash, outcome, checked, exit>>

\* An error of probeURL is never final for Download, whatever its class.
ProbeError(e) ==
  IF cfg.info
    THEN /\ lastErr' = e
         /\ Goto("hash")
         /\ UNCHANGED <<url, mirror, attempt, hash, outcome, checked, exit>>
    ELSE NextMirror(e)

Jump(l) ==
  /\ Goto(l)
  /\ UNCHANGED <<url, mirror, attempt, hash, lastErr, outcome, checked, exit>>

\* A request under a cancelled context fails at once, one in flight may.
Request(at, to) ==
  /\ pc = at
  /\ IF stop THEN ProbeError("canceled") ELSE Jump(to)

SendHead == Request("probe", "head") /\ UNCHANGED discovery

\* 405, 400, 501, or 200 without a length: ask for the first byte.
HeadUseless == Request("head", "get") /\ UNCHANGED discovery

\* The answer to the GET has come, and drainAndClose reads its body: up to 32 KiB
\* and with no timeout.  How that ends does not matter.
Drain ==
  /\ pc = "get"
  /\ Jump("drain")
  /\ UNCHANGED discovery

ProbeAnswered ==
  /\ pc \in {"head", "drain"}
  /\ Jump(IF cfg.info THEN "hash" ELSE "transfer")
  /\ UNCHANGED discovery

\* 429 or 5xx
Busy ==
  /\ pc \in {"head", "drain"}
  /\ Jump("backoff")
  /\ UNCHANGED discovery

\* Another status or a malformed answer; or no answer: a refused connection, a
\* timeout of the dialer or the transport, for which errors.Is(err,
\* DeadlineExceeded), or Ctrl-C.
ProbeFails ==
  /\ pc \in {"head", "get", "drain"}
  /\ \E e \in {"other", "timeout", "canceled"} :
       /\ e = "timeout" => pc # "drain"
       /\ e = "canceled" => pc # "drain" /\ stop
       /\ ProbeError(e)
  /\ UNCHANGED discovery

\* Mutations of Slept: one attempt too many; attempts are not counted.
SleptOnceMore ==
  /\ pc = "backoff"
  /\ IF attempt <= Attempts
       THEN /\ attempt' = attempt + 1
            /\ Goto("probe")
            /\ UNCHANGED <<url, mirror, hash, lastErr, outcome, checked, exit>>
       ELSE ProbeError("other")
  /\ UNCHANGED discovery

SleptUncounted ==
  /\ pc = "backoff"
  /\ Jump("probe")
  /\ UNCHANGED discovery

\* One second, also after the last attempt.
Slept ==
  /\ pc = "backoff"
  /\ IF attempt < Attempts
       THEN /\ attempt' = attempt + 1
            /\ Goto("probe")
            /\ UNCHANGED <<url, mirror, hash, lastErr, outcome, checked, exit>>
       ELSE ProbeError("other")
  /\ UNCHANGED discovery

SleepCut ==
  /\ pc = "backoff" /\ stop
  /\ ProbeError("canceled")
  /\ UNCHANGED discovery

(***************************************************************************)
(* Download: the transfer, and its end                                     *)
(***************************************************************************)
Transferred ==
  /\ pc = "transfer"
  /\ Jump("finalize")
  /\ UNCHANGED discovery

\* The file cannot be set up, or the transfer fails for good.
TransferFails ==
  /\ pc = "transfer"
  /\ NextMirror("other")
  /\ UNCHANGED discovery

\* Ctrl-C, or a single-stream request that timed out: no further mirror.
TransferStops ==
  /\ pc = "transfer"
  /\ \E e \in {"canceled", "timeout"} :
       /\ e = "canceled" => stop
       /\ lastErr' = e
  /\ Goto("error")
  /\ UNCHANGED <<url, mirror, attempt, hash, outcome, checked, exit, discovery>>

\* finalize and the manifest of --manifest-out
Verified ==
  /\ pc = "finalize"
  /\ checked' = [checked EXCEPT ![url] = hash]
  /\ Settle("fetched")
  /\ UNCHANGED discovery

Rejected ==
  /\ pc = "finalize"
  /\ Settle("failed")
  /\ UNCHANGED <<checked, discovery>>

\* runOne tells a cancellation from a failure by the class of the last error.
DownloadError ==
  /\ pc = "error"
  /\ IF lastErr \in {"canceled", "timeout"}
       THEN /\ outcome' = [outcome EXCEPT ![url] = "interrupted"]
            /\ exit' = interruptExit
            /\ Goto("exit")
            /\ UNCHANGED <<url, mirror, attempt, hash, lastErr>>
       ELSE Settle("failed")
  /\ UNCHANGED <<checked, discovery>>

-----------------------------------------------------------------------------
CtrlC ==
  /\ pc # "exit" /\ ~stop
  /\ stop' = TRUE
  /\ Interrupt
  /\ UNCHANGED <<cfg, complete, main>>

Main ==
  /\ \/ Skip \/ Start \/ Exit
     \/ KnownHash \/ HashFails \/ NoHash \/ Detect \/ Look \/ Detected
     \/ SendHead \/ HeadUseless \/ Drain \/ ProbeAnswered \/ Busy \/ ProbeFails \/ Slept \/ SleepCut
     \/ Transferred \/ TransferFails \/ TransferStops \/ Verified \/ Rejected \/ DownloadError
  /\ UNCHANGED <<stop, cfg, complete>>

Goroutines ==
  /\ pc # "exit"
  /\ Background
  /\ UNCHANGED <<stop, cfg, complete, main>>

Finished == pc = "exit" /\ UNCHANGED vars

Next == Main \/ Goroutines \/ CtrlC \/ Finished

\* Nothing but Ctrl-C ends the reading of a body that stops arriving: the one of
\* an answered probe, or in the transfer that of a refused request.
Untimed == pc \in {"drain", "transfer"} /\ ~stop

\* The main goroutine runs; every request is answered or ends by a timeout (of
\* the dialer, the transport and, for a checksum, the client).
Fairness ==
  /\ WF_vars(~Untimed /\ Main)
  /\ \A u \in Calls :
       /\ WF_vars(Goroutines /\ CloseDone(u))
       /\ \A c \in Candidates : WF_vars(Goroutines /\ Probe(u, c))

Spec == Init /\ [][Next]_vars /\ Fairness

TypeOK ==
  /\ DiscoveryTypeOK
  /\ cfg \in Flags
  /\ complete \subseteq Calls
  /\ pc \in {"next", "hash", "detect", "probe", "head", "get", "drain", "backoff",
             "transfer", "finalize", "error", "exit"}
  /\ url \in 1 .. Urls + 1
  /\ pc \notin {"next", "exit"} => url \in Calls
  /\ mirror \in 1 .. Mirrors
  /\ attempt \in 1 .. Attempts
  /\ hash \in Candidates \cup {"none", "given"}
  /\ lastErr \in {"nil", "canceled", "timeout", "other"}
  /\ outcome \in [Calls -> {"pending", "skipped", "reported", "failed", "fetched", "interrupted"}]
  /\ checked \in [Calls -> Candidates \cup {"none", "given"}]
  /\ exit \in {0, 1, interruptExit}

-----------------------------------------------------------------------------
\* What became of a URL is what was asked: a skipped file was there, a fetched
\* one was verified against the checksum the discovery came up with.
Fulfilled(u) ==
  \/ outcome[u] = "reported" /\ cfg.info
  \/ outcome[u] = "skipped" /\ u \in complete
  \/ /\ outcome[u] = "fetched"
     /\ verdict[u] \in Candidates => checked[u] = verdict[u]

\* What the exit code of the code says (main.go, runOne; download.go:147-156):
\* 0 that every URL was fulfilled; 1 that all were tried and one failed; 130
\* that the batch stopped at a URL whose last error is a cancellation, then
\* Ctrl-C was pressed, or a timeout, and left the later URLs alone.  This is
\* less than README.md:147-151 says: there a timeout is a failure, with code 1,
\* after which the batch goes on, and a Ctrl-C always gives 130.  A timeout of
\* the last mirror gives 130 and stops the batch, and a URL whose discovery
\* Ctrl-C ends counts as failed.
ExitAccounts ==
  pc = "exit" =>
    \/ exit = 0 /\ \A u \in Calls : Fulfilled(u)
    \/ /\ exit = 1
       /\ \A u \in Calls : outcome[u] = "failed" \/ Fulfilled(u)
       /\ \E u \in Calls : outcome[u] = "failed"
    \/ /\ exit = interruptExit
       /\ lastErr = "timeout" \/ (lastErr = "canceled" /\ stop)
       /\ \A u \in Calls : /\ u < url => outcome[u] = "failed" \/ Fulfilled(u)
                           /\ u = url => outcome[u] = "interrupted"
                           /\ u > url => outcome[u] = "pending"

\* What ExitAccounts rests on: the URLs before the one at hand are settled and
\* the exit code sums them up, those after it are untouched, and the hash a
\* download expects is the one that its discovery returned.
BatchInv ==
  /\ lastErr = "canceled" => stop
  /\ pc \in {"transfer", "finalize", "error"} => ~cfg.info
  /\ \A u \in Calls :
       /\ caller[u] \in {"launched", "waiting"} => pc = "detect" /\ u = url
       /\ u > url \/ (u = url /\ (pc = "next" \/ (pc = "hash" /\ ~cfg.info))) =>
            caller[u] = "idle"
  /\ pc \in {"probe", "head", "get", "drain", "backoff", "transfer", "finalize"} /\ ~cfg.info =>
       (verdict[url] \in Candidates => hash = verdict[url])
  /\ pc # "exit" =>
       /\ exit \in {0, 1}
       /\ \A u \in Calls : /\ u >= url => outcome[u] = "pending"
                           /\ u < url => outcome[u] = "failed" \/ Fulfilled(u)
       /\ exit = 1 <=> \E u \in Calls : outcome[u] = "failed"

IInv == TypeOK /\ HitKept /\ BatchInv /\ ExitAccounts

\* The process ends, whatever servers answer and whenever Ctrl-C comes: no
\* round of probes, backoffs, mirrors or detections goes on for ever.  It does
\* not end when a body stops arriving that is read without a timeout, and
\* nobody presses Ctrl-C.
Ends == <>(pc = "exit") \/ <>[]Untimed
=============================================================================
