----------------------------- MODULE BatchProofs -----------------------------
(***************************************************************************)
(* The exit code and the discovery of checksums, for any number of URLs,   *)
(* mirrors, attempts and candidates.  HitKept says where a hit is before   *)
(* the caller has it; BatchInv says that the exit code sums up the URLs    *)
(* already settled.                                                        *)
(***************************************************************************)
EXTENDS Batch, TLAPS

MainType ==
  /\ pc \in {"next", "hash", "detect", "probe", "head", "get", "drain", "backoff",
             "transfer", "finalize", "error", "exit"}
  /\ url \in 1 .. Urls + 1
  /\ pc \notin {"next", "exit"} => url \in Calls
  /\ mirror \in 1 .. Mirrors
  /\ attempt \in 1 .. Attempts
  /\ hash \in Candidates \cup {"none", "given"}
  /\ lastErr \in {"nil", "canceled", "timeout", "other"}
  /\ outcome \in [Calls -> {"pending", "skipped", "reported", "failed", "fetched", "interrupted"}]
  /\ checked \in [Calls -> Candidates \cup {"none", "given"}]
  /\ exit \in {0, 1, interruptExit}

LEMMA TypeParts == TypeOK <=> DiscoveryTypeOK /\ cfg \in Flags /\ complete \subseteq Calls /\ MainType
  BY DEF TypeOK, MainType

LEMMA One == 1 \in 1 .. Mirrors /\ 1 \in 1 .. Attempts /\ 1 \in 1 .. Urls + 1
  BY BatchAssumption

\* The steps of a discovery keep the types of its variables.
LEMMA DiscoveryType ==
  ASSUME DiscoveryTypeOK, stop' \in BOOLEAN, NEW u \in Calls,
         \/ Launch(u) \/ NoName(u) \/ Select(u) \/ CloseDone(u)
         \/ \E c \in Candidates : Probe(u, c)
         \/ UNCHANGED discovery
         \/ Interrupt
  PROVE  DiscoveryTypeOK'
  <1>1. CASE Launch(u)
    BY <1>1 DEF Launch, DiscoveryTypeOK
  <1>2. CASE NoName(u)
    BY <1>2 DEF NoName, Return, DiscoveryTypeOK, Answers
  <1>3. CASE Select(u)
    BY <1>3 DEF Select, Return, DiscoveryTypeOK, Answers
  <1>4. CASE CloseDone(u)
    BY <1>4 DEF CloseDone, Return, DiscoveryTypeOK, Answers
  <1>5. ASSUME NEW c \in Candidates, Miss(u, c)
        PROVE  DiscoveryTypeOK'
    BY <1>5 DEF Miss, Becomes, DiscoveryTypeOK, Ended
  <1>6. ASSUME NEW c \in Candidates, Send(u, c)
        PROVE  DiscoveryTypeOK'
    BY <1>6 DEF Send, Becomes, Return, DiscoveryTypeOK, Ended
  <1>7. CASE UNCHANGED discovery
    BY <1>7 DEF discovery, DiscoveryTypeOK
  <1>8. CASE Interrupt
    BY <1>8 DEF Interrupt, DiscoveryTypeOK, Answers
  <1> QED BY <1>1, <1>2, <1>3, <1>4, <1>5, <1>6, <1>7, <1>8 DEF Probe

LEMMA SettleType ==
  ASSUME MainType, url \in Calls,
         NEW o \in {"skipped", "reported", "failed", "fetched"}, Settle(o),
         checked' \in [Calls -> Candidates \cup {"none", "given"}]
  PROVE  MainType'
  <1>1. url + 1 \in 1 .. Urls + 1
    BY BatchAssumption
  <1> QED BY <1>1, One DEF MainType, Settle, Goto, Fresh

LEMMA ExpectType ==
  ASSUME MainType, url \in Calls, NEW h \in Candidates \cup {"none", "given", "canceled"},
         h = "canceled" => cfg.info, Expect(h)
  PROVE  MainType'
  <1>1. CASE cfg.info
    <2>1. PICK o \in {"reported", "failed"} : Settle(o) /\ UNCHANGED checked
      BY <1>1 DEF Expect
    <2>2. checked' \in [Calls -> Candidates \cup {"none", "given"}]
      BY <2>1 DEF MainType
    <2> QED BY <2>1, <2>2, SettleType
  <1>2. CASE ~cfg.info
    BY <1>2 DEF Expect, Goto, MainType
  <1> QED BY <1>1, <1>2

LEMMA NextMirrorType ==
  ASSUME MainType, url \in Calls, NEW e \in {"canceled", "timeout", "other"}, NextMirror(e)
  PROVE  MainType'
  BY One, BatchAssumption DEF MainType, NextMirror, Goto

LEMMA ProbeErrorType ==
  ASSUME MainType, url \in Calls, NEW e \in {"canceled", "timeout", "other"}, ProbeError(e)
  PROVE  MainType'
  BY NextMirrorType DEF MainType, ProbeError, Goto

LEMMA JumpType ==
  ASSUME MainType, url \in Calls, Jump(pc'),
         pc' \in {"hash", "probe", "head", "get", "drain", "backoff", "transfer", "finalize"}
  PROVE  MainType'
  BY DEF MainType, Jump

LEMMA MainTypeStep ==
  ASSUME TypeOK, Main
  PROVE  MainType'
  <1> USE TypeParts
  <1>0. MainType /\ (pc \notin {"next", "exit"} => url \in Calls)
    BY DEF MainType
  <1>1. CASE Skip
    <2>1. Settle("skipped") /\ url \in Calls /\ checked' = checked
      BY <1>1 DEF Skip
    <2> QED BY <1>0, <2>1, SettleType DEF MainType
  <1>2. CASE Start
    BY <1>0, <1>2 DEF Start, Goto, MainType
  <1>3. CASE Exit
    BY <1>0, <1>3 DEF Exit, Goto, MainType
  <1>4. CASE KnownHash
    BY <1>0, <1>4, ExpectType DEF KnownHash
  <1>5. CASE HashFails
    <2>1. Settle("failed") /\ url \in Calls /\ checked' = checked
      BY <1>0, <1>5 DEF HashFails
    <2> QED BY <1>0, <2>1, SettleType DEF MainType
  <1>6. CASE NoHash
    BY <1>0, <1>6, ExpectType DEF NoHash
  <1>7. CASE Detect
    BY <1>0, <1>7 DEF Detect, Goto, MainType
  <1>8. CASE Look
    BY <1>0, <1>8 DEF Look, main, MainType
  <1>9. CASE Detected
    <2>1. verdict[url] \in Candidates \cup {"none", "canceled"} /\ url \in Calls
      BY <1>0, <1>9 DEF Detected, DiscoveryTypeOK, Answers
    <2>2. CASE verdict[url] = "canceled" /\ ~cfg.info
      <3>1. Settle("failed") /\ checked' = checked
        BY <1>9, <2>2 DEF Detected
      <3> QED BY <1>0, <2>1, <3>1, SettleType DEF MainType
    <2>3. CASE ~(verdict[url] = "canceled" /\ ~cfg.info)
      BY <1>0, <1>9, <2>1, <2>3, ExpectType DEF Detected
    <2> QED BY <2>2, <2>3
  <1>10. CASE SendHead \/ HeadUseless
    <2>1. url \in Calls /\ (ProbeError("canceled") \/ Jump("head") \/ Jump("get"))
      BY <1>0, <1>10 DEF SendHead, HeadUseless, Request
    <2> QED BY <1>0, <2>1, ProbeErrorType, JumpType DEF Jump, Goto
  <1>11. CASE Drain \/ ProbeAnswered \/ Busy \/ Transferred
    <2>1. url \in Calls /\ (Jump("drain") \/ Jump("hash") \/ Jump("transfer") \/ Jump("backoff") \/ Jump("finalize"))
      BY <1>0, <1>11 DEF Drain, ProbeAnswered, Busy, Transferred
    <2> QED BY <1>0, <2>1, JumpType DEF Jump, Goto
  <1>12. CASE ProbeFails \/ SleepCut
    <2>1. url \in Calls /\ \E e \in {"canceled", "timeout", "other"} : ProbeError(e)
      BY <1>0, <1>12 DEF ProbeFails, SleepCut
    <2> QED BY <1>0, <2>1, ProbeErrorType
  <1>13. CASE Slept
    <2>1. CASE attempt < Attempts
      <3>1. attempt + 1 \in 1 .. Attempts
        BY <1>0, <2>1, BatchAssumption DEF MainType
      <3> QED BY <1>0, <1>13, <2>1, <3>1 DEF Slept, Goto, MainType
    <2>2. CASE ~(attempt < Attempts)
      BY <1>0, <1>13, <2>2, ProbeErrorType DEF Slept
    <2> QED BY <2>1, <2>2
  <1>14. CASE TransferFails
    BY <1>0, <1>14, NextMirrorType DEF TransferFails
  <1>15. CASE TransferStops
    BY <1>0, <1>15 DEF TransferStops, Goto, MainType
  <1>16. CASE Verified
    <2>1. Settle("fetched") /\ url \in Calls /\ checked' = [checked EXCEPT ![url] = hash]
      BY <1>0, <1>16 DEF Verified
    <2> QED BY <1>0, <2>1, SettleType DEF MainType
  <1>17. CASE Rejected
    <2>1. Settle("failed") /\ url \in Calls /\ checked' = checked
      BY <1>0, <1>17 DEF Rejected
    <2> QED BY <1>0, <2>1, SettleType DEF MainType
  <1>18. CASE DownloadError
    <2>1. checked' = checked /\ url \in Calls
      BY <1>0, <1>18 DEF DownloadError
    <2>2. CASE lastErr \in {"canceled", "timeout"}
      BY <1>0, <1>18, <2>1, <2>2 DEF DownloadError, Goto, MainType
    <2>3. CASE lastErr \notin {"canceled", "timeout"}
      <3>1. Settle("failed")
        BY <1>18, <2>3 DEF DownloadError
      <3> QED BY <1>0, <2>1, <3>1, SettleType DEF MainType
    <2> QED BY <2>2, <2>3
  <1> QED BY <1>1, <1>2, <1>3, <1>4, <1>5, <1>6, <1>7, <1>8, <1>9, <1>10, <1>11, <1>12,
             <1>13, <1>14, <1>15, <1>16, <1>17, <1>18 DEF Main

LEMMA InitType == Init => TypeOK
  <1> SUFFICES ASSUME Init PROVE TypeOK
    OBVIOUS
  <1>1. DiscoveryTypeOK
    BY DEF Init, DiscoveryInit, DiscoveryTypeOK, Answers
  <1>2. MainType
    BY One DEF Init, MainType
  <1>3. cfg \in Flags /\ complete \subseteq Calls
    BY DEF Init
  <1> QED BY <1>1, <1>2, <1>3, TypeParts

\* What a step does to the discoveries and to the rest.
LEMMA StepKinds ==
  ASSUME [Next]_vars, TypeOK
  PROVE  \/ UNCHANGED vars
         \/ /\ Main /\ UNCHANGED stop
            /\ \/ UNCHANGED discovery
               \/ pc = "hash" /\ (Launch(url) \/ NoName(url))
               \/ pc = "detect" /\ Select(url)
         \/ /\ UNCHANGED <<stop, cfg, complete, main>> /\ pc # "exit"
            /\ \E u \in Calls : CloseDone(u) \/ \E c \in Candidates : Probe(u, c)
         \/ CtrlC
  <1>1. CASE UNCHANGED vars
    BY <1>1
  <1>2. CASE Main
    <2>1. UNCHANGED stop
      BY <1>2 DEF Main
    <2>2. \/ UNCHANGED discovery
          \/ pc = "hash" /\ (Launch(url) \/ NoName(url))
          \/ pc = "detect" /\ Select(url)
      BY <1>2 DEF Main, Skip, Start, Exit, KnownHash, HashFails, NoHash, Detect, Look, Detected,
        SendHead, HeadUseless, Drain, ProbeAnswered, Busy, ProbeFails, Slept, SleepCut, Transferred,
        TransferFails, TransferStops, Verified, Rejected, DownloadError
    <2> QED BY <1>2, <2>1, <2>2
  <1>3. CASE Goroutines
    BY <1>3 DEF Goroutines, Background
  <1> QED BY <1>1, <1>2, <1>3 DEF Next, Finished

LEMMA TypeStep ==
  ASSUME TypeOK, [Next]_vars
  PROVE  TypeOK'
  <1>0. /\ MainType /\ DiscoveryTypeOK /\ cfg \in Flags /\ complete \subseteq Calls
        /\ pc \notin {"next", "exit"} => url \in Calls
    BY TypeParts DEF MainType
  <1>1. CASE UNCHANGED vars
    <2>1. DiscoveryTypeOK'
      BY <1>0, <1>1 DEF vars, discovery, DiscoveryTypeOK
    <2> QED BY <1>0, <1>1, <2>1 DEF vars, main, TypeOK, MainType
  <1>2. CASE /\ Main /\ UNCHANGED stop
             /\ \/ UNCHANGED discovery
                \/ pc = "hash" /\ (Launch(url) \/ NoName(url))
                \/ pc = "detect" /\ Select(url)
    <2>1. stop' \in BOOLEAN
      BY <1>0, <1>2 DEF DiscoveryTypeOK
    <2>2. 1 \in Calls
      BY BatchAssumption
    <2>3. DiscoveryTypeOK'
      BY <1>0, <1>2, <2>1, <2>2, DiscoveryType
    <2>4. cfg' = cfg /\ complete' = complete
      BY <1>2 DEF Main
    <2> QED BY <1>0, <1>2, <2>3, <2>4, MainTypeStep, TypeParts DEF TypeOK, MainType
  <1>3. CASE /\ UNCHANGED <<stop, cfg, complete, main>> /\ pc # "exit"
             /\ \E u \in Calls : CloseDone(u) \/ \E c \in Candidates : Probe(u, c)
    <2>1. stop' \in BOOLEAN
      BY <1>0, <1>3 DEF DiscoveryTypeOK
    <2>2. DiscoveryTypeOK'
      BY <1>0, <1>3, <2>1, DiscoveryType
    <2> QED BY <1>0, <1>3, <2>2 DEF TypeOK, MainType, main
  <1>4. CASE CtrlC
    <2>1. stop' \in BOOLEAN /\ Interrupt
      BY <1>4 DEF CtrlC
    <2>2. 1 \in Calls
      BY BatchAssumption
    <2>3. DiscoveryTypeOK'
      BY <1>0, <2>1, <2>2, DiscoveryType
    <2> QED BY <1>0, <1>4, <2>3 DEF CtrlC, TypeOK, MainType, main
  <1> QED BY <1>1, <1>2, <1>3, <1>4, StepKinds

\* Every variable keeps its type, for any number of URLs, mirrors and candidates.
THEOREM TypeCorrect == Spec => []TypeOK
  <1>1. Init => TypeOK
    BY InitType
  <1>2. TypeOK /\ [Next]_vars => TypeOK'
    BY TypeStep
  <1> QED BY <1>1, <1>2, PTL DEF Spec

-----------------------------------------------------------------------------
(* The discovery *)

Kept(u) ==
  /\ caller[u] = "idle" =>
       verdict[u] = "none" /\ \A c \in Candidates : probe[u][c] = "off"
  /\ caller[u] = "waiting" \/ (caller[u] = "launched" /\ buffer[u] = "empty") =>
       \A c \in Candidates : probe[u][c] # "hit"
  /\ caller[u] = "returned" /\ verdict[u] = "none" /\ ~late[u] =>
       \A c \in Candidates : probe[u][c] \in {"off", "miss"}

LEMMA KeptSame ==
  ASSUME NEW u \in Calls, Kept(u), probe'[u] = probe[u], buffer'[u] = buffer[u],
         caller'[u] = caller[u], verdict'[u] = verdict[u], late'[u] = late[u]
  PROVE  Kept(u)'
  BY DEF Kept

\* A step of the discovery of one URL leaves those of the others alone.
LEMMA OthersKept ==
  ASSUME DiscoveryTypeOK, NEW u \in Calls, NEW v \in Calls, v # u, Kept(v),
         \/ Launch(u) \/ NoName(u) \/ Select(u) \/ CloseDone(u)
         \/ \E c \in Candidates : Probe(u, c)
  PROVE  Kept(v)'
  <1> DEFINE Same == /\ probe'[v] = probe[v] /\ buffer'[v] = buffer[v]
                     /\ caller'[v] = caller[v] /\ verdict'[v] = verdict[v]
                     /\ late'[v] = late[v]
  <1>1. Same
    <2>1. CASE Launch(u)
      BY <2>1 DEF Launch, DiscoveryTypeOK
    <2>2. CASE NoName(u)
      BY <2>2 DEF NoName, Return, DiscoveryTypeOK
    <2>3. CASE Select(u)
      BY <2>3 DEF Select, Return, DiscoveryTypeOK
    <2>4. CASE CloseDone(u)
      BY <2>4 DEF CloseDone, Return, DiscoveryTypeOK
    <2>5. ASSUME NEW c \in Candidates, Miss(u, c)
          PROVE  Same
      <3>1. probe'[v] = probe[v]
        BY <2>5 DEF Miss, Becomes, DiscoveryTypeOK
      <3> QED BY <2>5, <3>1 DEF Miss
    <2>6. ASSUME NEW c \in Candidates, Send(u, c)
          PROVE  Same
      <3>1. probe'[v] = probe[v]
        BY <2>6 DEF Send, Becomes, DiscoveryTypeOK
      <3> QED BY <2>6, <3>1 DEF Send, Return, DiscoveryTypeOK
    <2> QED BY <2>1, <2>2, <2>3, <2>4, <2>5, <2>6 DEF Probe
  <1> QED BY <1>1, KeptSame

LEMMA CallerKept ==
  ASSUME DiscoveryTypeOK, NEW u \in Calls, Kept(u),
         Launch(u) \/ NoName(u) \/ Select(u)
  PROVE  Kept(u)'
  <1> USE CandidatesAssumption DEF Answers
  <1>1. CASE Launch(u)
    BY <1>1 DEF Launch, DiscoveryTypeOK, Kept
  <1>2. CASE NoName(u)
    BY <1>2 DEF NoName, Return, DiscoveryTypeOK, Kept
  <1>3. CASE Select(u)
    <2>1. probe' = probe /\ caller[u] = "launched" /\ late'[u] = closed[u]
      BY <1>3 DEF Select, DiscoveryTypeOK
    <2>2. \/ caller'[u] = "returned" /\ verdict'[u] \in Candidates
          \/ caller'[u] = "returned" /\ verdict'[u] = "none" /\ closed[u]
          \/ caller'[u] = "returned" /\ verdict'[u] = "canceled"
          \/ caller'[u] = "waiting" /\ buffer[u] = "empty"
      BY <1>3 DEF Select, Return, DiscoveryTypeOK
    <2> QED BY <2>1, <2>2 DEF Kept
  <1> QED BY <1>1, <1>2, <1>3

LEMMA GoroutineKept ==
  ASSUME DiscoveryTypeOK, NEW u \in Calls, Kept(u),
         CloseDone(u) \/ \E c \in Candidates : Probe(u, c)
  PROVE  Kept(u)'
  <1> USE CandidatesAssumption DEF Answers
  <1>1. CASE CloseDone(u)
    <2>1. probe' = probe /\ buffer' = buffer /\ late' = late
      BY <1>1 DEF CloseDone
    <2>2. CASE caller[u] = "waiting"
      <3>1. \A c \in Candidates : probe[u][c] \in {"off", "miss"}
        BY <1>1, <2>2 DEF CloseDone, Kept, Ended
      <3>2. caller'[u] = "returned"
        BY <1>1, <2>2 DEF CloseDone, Return, DiscoveryTypeOK
      <3> QED BY <2>1, <3>1, <3>2 DEF Kept
    <2>3. CASE caller[u] # "waiting"
      BY <1>1, <2>1, <2>3 DEF CloseDone, Kept
    <2> QED BY <2>2, <2>3
  <1>2. ASSUME NEW c \in Candidates, Miss(u, c)
        PROVE  Kept(u)'
    <2>1. \A d \in Candidates : probe'[u][d] = IF d = c THEN "miss" ELSE probe[u][d]
      BY <1>2 DEF Miss, Becomes, DiscoveryTypeOK
    <2>2. probe[u][c] = "run" /\ UNCHANGED <<buffer, caller, verdict, late>>
      BY <1>2 DEF Miss
    <2> QED BY <2>1, <2>2 DEF Kept
  <1>3. ASSUME NEW c \in Candidates, Send(u, c)
        PROVE  Kept(u)'
    <2>1. \A d \in Candidates : probe'[u][d] = IF d = c THEN "hit" ELSE probe[u][d]
      BY <1>3 DEF Send, Becomes, DiscoveryTypeOK
    <2>2. probe[u][c] = "run" /\ late' = late
      BY <1>3 DEF Send
    <2>3. CASE caller[u] = "waiting"
      <3>1. caller'[u] = "returned" /\ verdict'[u] = c
        BY <1>3, <2>3 DEF Send, Return, DiscoveryTypeOK
      <3> QED BY <3>1 DEF Kept
    <2>4. CASE caller[u] # "waiting"
      <3>1. UNCHANGED <<caller, verdict>> /\ buffer'[u] = IF buffer[u] = "empty" THEN c ELSE buffer[u]
        BY <1>3, <2>4 DEF Send, DiscoveryTypeOK
      <3>2. buffer'[u] # "empty"
        BY <3>1
      <3> QED BY <2>1, <2>2, <2>4, <3>1, <3>2 DEF Kept
    <2> QED BY <2>3, <2>4
  <1> QED BY <1>1, <1>2, <1>3 DEF Probe

LEMMA InterruptKept ==
  ASSUME DiscoveryTypeOK, NEW u \in Calls, Kept(u), Interrupt
  PROVE  Kept(u)'
  BY DEF Interrupt, Kept, DiscoveryTypeOK

LEMMA HitKeptStep ==
  ASSUME TypeOK, HitKept, [Next]_vars
  PROVE  HitKept'
  <1> SUFFICES ASSUME NEW v \in Calls
               PROVE  Kept(v)'
    BY DEF HitKept, Kept
  <1>0. DiscoveryTypeOK /\ Kept(v) /\ (pc \in {"hash", "detect"} => url \in Calls)
    BY DEF TypeOK, HitKept, Kept
  <1>1. CASE UNCHANGED discovery
    BY <1>0, <1>1, KeptSame DEF discovery
  <1>2. CASE /\ pc \in {"hash", "detect"}
             /\ Launch(url) \/ NoName(url) \/ Select(url)
    BY <1>0, <1>2, CallerKept, OthersKept
  <1>3. ASSUME NEW u \in Calls, CloseDone(u) \/ \E c \in Candidates : Probe(u, c)
        PROVE  Kept(v)'
    BY <1>0, <1>3, GoroutineKept, OthersKept
  <1>4. CASE CtrlC
    BY <1>0, <1>4, InterruptKept DEF CtrlC
  <1>5. UNCHANGED vars => UNCHANGED discovery
    BY DEF vars
  <1> QED BY <1>1, <1>2, <1>3, <1>4, <1>5, StepKinds

\* The first hit wins, unless all probes had ended before the caller looked,
\* for any number of calls and candidates (sidecar.go:106, 169-176).
THEOREM FirstHitWins == Spec => []HitWins
  <1>1. Init => TypeOK /\ HitKept
    <2> SUFFICES ASSUME Init PROVE HitKept
      BY InitType
    <2>1. \A u \in Calls : /\ caller[u] = "idle" /\ verdict[u] = "none"
                           /\ \A c \in Candidates : probe[u][c] = "off"
      BY DEF Init, DiscoveryInit
    <2> QED BY <2>1 DEF HitKept
  <1>2. TypeOK /\ HitKept /\ [Next]_vars => TypeOK' /\ HitKept'
    BY TypeStep, HitKeptStep
  <1>3. HitKept => HitWins
    BY DEF HitKept, HitWins
  <1> QED BY <1>1, <1>2, <1>3, PTL DEF Spec

-----------------------------------------------------------------------------
(* The exit code *)

Download == {"probe", "head", "get", "drain", "backoff", "transfer", "finalize"}

Callers ==
  \A u \in Calls :
    /\ caller[u] \in {"launched", "waiting"} => pc = "detect" /\ u = url
    /\ u > url \/ (u = url /\ (pc = "next" \/ (pc = "hash" /\ ~cfg.info))) => caller[u] = "idle"

Expected == pc \in Download /\ ~cfg.info => (verdict[url] \in Candidates => hash = verdict[url])

\* The exit code and the outcomes, while the batch is running.
Sum ==
  /\ exit \in {0, 1}
  /\ \A u \in Calls : /\ u >= url => outcome[u] = "pending"
                      /\ u < url => outcome[u] = "failed" \/ Fulfilled(u)
  /\ exit = 1 <=> \E u \in Calls : outcome[u] = "failed"

LEMMA InvParts ==
  BatchInv <=> /\ lastErr = "canceled" => stop
               /\ pc \in {"transfer", "finalize", "error"} => ~cfg.info
               /\ Callers
               /\ Expected
               /\ pc # "exit" => Sum
  BY DEF BatchInv, Callers, Expected, Sum, Download

LEMMA SumKept ==
  ASSUME Sum, UNCHANGED <<cfg, complete, url, outcome, exit, checked>>,
         \A u \in Calls : u < url => verdict'[u] = verdict[u]
  PROVE  Sum'
  <1>1. \A u \in Calls : u < url /\ Fulfilled(u) => Fulfilled(u)'
    BY DEF Fulfilled
  <1> QED BY <1>1 DEF Sum

LEMMA SumSettled ==
  ASSUME TypeOK, Sum, url \in Calls, UNCHANGED <<cfg, complete, verdict>>,
         NEW o \in {"skipped", "reported", "failed", "fetched"}, Settle(o),
         \A u \in Calls : u # url => checked'[u] = checked[u],
         \A w \in Calls : w = url /\ o # "failed" => Fulfilled(w)'
  PROVE  Sum'
  <1>0. url \in Nat /\ Calls \subseteq Nat /\ url' = url + 1 /\ exit' = IF o = "failed" THEN 1 ELSE exit
    BY BatchAssumption DEF Settle
  <1>1. \A u \in Calls : outcome'[u] = IF u = url THEN o ELSE outcome[u]
    BY DEF Settle, TypeOK
  <1>2. \A u \in Calls : u # url /\ Fulfilled(u) => Fulfilled(u)'
    BY <1>1 DEF Fulfilled
  <1>3. \A u \in Calls : /\ u >= url' => outcome'[u] = "pending"
                         /\ u < url' => outcome'[u] = "failed" \/ Fulfilled(u)'
    <2> SUFFICES ASSUME NEW u \in Calls
                 PROVE  /\ u >= url' => outcome'[u] = "pending"
                        /\ u < url' => outcome'[u] = "failed" \/ Fulfilled(u)'
      OBVIOUS
    <2>1. CASE u = url
      BY <1>0, <1>1, <2>1
    <2>2. CASE u # url
      <3>0. u \in Nat
        BY <1>0
      <3>1. u >= url' => u >= url
        BY <1>0, <3>0
      <3>2. u < url' => u < url
        BY <1>0, <2>2, <3>0
      <3> QED BY <1>1, <1>2, <2>2, <3>1, <3>2 DEF Sum
    <2> QED BY <2>1, <2>2
  <1>4. outcome[url] = "pending"
    BY <1>0 DEF Sum
  <1>5. exit' = 1 <=> \E u \in Calls : outcome'[u] = "failed"
    BY <1>0, <1>1, <1>4 DEF Sum
  <1>6. exit' \in {0, 1}
    BY <1>0 DEF Sum
  <1> QED BY <1>3, <1>5, <1>6 DEF Sum

\* A URL is done with: the next one begins.
LEMMA SettleInv ==
  ASSUME TypeOK, BatchInv, pc # "exit", url \in Calls, UNCHANGED <<stop, cfg, complete, discovery>>,
         pc = "detect" => caller[url] = "returned",
         NEW o \in {"skipped", "reported", "failed", "fetched"}, Settle(o),
         \A u \in Calls : u # url => checked'[u] = checked[u],
         \A w \in Calls : w = url /\ o # "failed" => Fulfilled(w)'
  PROVE  BatchInv' /\ ExitAccounts'
  <1>1. Sum'
    BY SumSettled, InvParts DEF discovery
  <1>2. pc' = "next" /\ lastErr' = "nil" /\ url' = url + 1 /\ Calls \subseteq Nat
    BY BatchAssumption DEF Settle, Goto, Fresh
  <1>3. \A u \in Calls : u > url' \/ u = url' => u > url
    BY <1>2
  <1>4. Callers'
    BY <1>2, <1>3, InvParts DEF discovery, Callers
  <1> QED BY <1>1, <1>2, <1>4 DEF BatchInv, Callers, Sum, ExitAccounts

\* A step within one URL that leaves the discovery alone.
LEMMA MoveInv ==
  ASSUME TypeOK, BatchInv, pc # "exit",
         UNCHANGED <<stop, cfg, complete, discovery, url, outcome, checked, exit>>,
         pc' \notin {"exit", "next", "detect"},
         lastErr' = "canceled" => stop,
         pc' \in {"transfer", "finalize", "error"} => ~cfg.info,
         pc = "detect" => caller[url] = "returned",
         pc' = "hash" /\ ~cfg.info => pc = "next",
         pc' \in Download /\ ~cfg.info => (verdict[url] \in Candidates => hash' = verdict[url])
  PROVE  BatchInv' /\ ExitAccounts'
  <1>1. Sum'
    BY SumKept, InvParts DEF discovery
  <1>2. Callers'
    BY InvParts DEF discovery, Callers
  <1>3. Expected'
    BY DEF Expected, Download, discovery
  <1> QED BY <1>1, <1>2, <1>3 DEF BatchInv, Callers, Expected, Sum, Download, ExitAccounts

LEMMA ProbeErrorInv ==
  ASSUME TypeOK, BatchInv, pc \in {"probe", "head", "get", "drain", "backoff"},
         UNCHANGED <<stop, cfg, complete, discovery>>,
         NEW e \in {"canceled", "timeout", "other"}, e = "canceled" => stop, ProbeError(e)
  PROVE  BatchInv' /\ ExitAccounts'
  <1>1. CASE cfg.info
    BY <1>1, MoveInv DEF ProbeError, Goto, Download
  <1>2. CASE ~cfg.info
    <2>1. verdict[url] \in Candidates => hash = verdict[url]
      BY <1>2, InvParts DEF Expected, Download
    <2> QED BY <1>2, <2>1, MoveInv DEF ProbeError, NextMirror, Goto, Download
  <1> QED BY <1>1, <1>2

LEMMA JumpInv ==
  ASSUME TypeOK, BatchInv, UNCHANGED <<stop, cfg, complete, discovery>>,
         NEW l \in Download \cup {"hash"}, Jump(l), pc \in Download,
         l = "hash" => cfg.info,
         l \in {"transfer", "finalize"} => ~cfg.info
  PROVE  BatchInv' /\ ExitAccounts'
  <1>1. lastErr' = "canceled" => stop
    BY InvParts DEF Jump
  <1>2. pc \in Download /\ ~cfg.info => (verdict[url] \in Candidates => hash = verdict[url])
    BY InvParts DEF Expected
  <1> QED BY <1>1, <1>2, MoveInv DEF Jump, Goto, Download

LEMMA ExpectInv ==
  ASSUME TypeOK, BatchInv, pc \in {"hash", "detect"}, url \in Calls,
         UNCHANGED <<stop, cfg, complete, discovery>>,
         pc = "detect" => caller[url] = "returned",
         NEW h, Expect(h), ~cfg.info /\ verdict[url] \in Candidates => h = verdict[url]
  PROVE  BatchInv' /\ ExitAccounts'
  <1>1. CASE cfg.info
    <2>1. PICK o \in {"reported", "failed"} : Settle(o) /\ UNCHANGED checked
      BY <1>1 DEF Expect
    <2>2. \A w \in Calls : w = url /\ o = "reported" => Fulfilled(w)'
      BY <1>1, <2>1 DEF Settle, Fulfilled, TypeOK
    <2> QED BY <2>1, <2>2, SettleInv
  <1>2. CASE ~cfg.info
    <2>1. lastErr' = "canceled" => stop
      BY <1>2, InvParts DEF Expect
    <2> QED BY <1>2, <2>1, MoveInv DEF Expect, Goto, Download
  <1> QED BY <1>1, <1>2

\* While nothing was looked for there is no verdict.
LEMMA Unlooked ==
  ASSUME TypeOK, HitKept, BatchInv, pc = "hash", url \in Calls, ~cfg.info
  PROVE  verdict[url] \notin Candidates
  <1>1. caller[url] = "idle"
    BY InvParts DEF Callers
  <1>2. verdict[url] = "none"
    BY <1>1 DEF HitKept
  <1> QED BY <1>2, CandidatesAssumption

LEMMA MainInv ==
  ASSUME TypeOK, HitKept, BatchInv, Main
  PROVE  BatchInv' /\ ExitAccounts'
  <1>0. UNCHANGED <<stop, cfg, complete>> /\ (pc \notin {"next", "exit"} => url \in Calls)
    BY DEF Main, TypeOK
  <1>1. CASE Skip
    <2>1. \A w \in Calls : w = url => Fulfilled(w)'
      BY <1>0, <1>1 DEF Skip, Settle, Fulfilled, TypeOK
    <2> QED BY <1>0, <1>1, <2>1, SettleInv DEF Skip
  <1>2. CASE Start
    <2>1. lastErr' = "canceled" => stop
      BY <1>2, InvParts DEF Start
    <2> QED BY <1>0, <1>2, <2>1, MoveInv DEF Start, Goto, Download
  <1>3. CASE Exit
    <2>1. pc = "next" /\ pc' = "exit" /\ url = Urls + 1
      BY <1>3, BatchAssumption DEF Exit, Goto, TypeOK
    <2>2. \A u \in Calls : u < url
      BY <2>1, BatchAssumption
    <2>3. Sum /\ Sum'
      BY <1>0, <1>3, <2>1, SumKept, InvParts DEF Exit, discovery
    <2>4. ExitAccounts'
      <3>1. \A u \in Calls : outcome'[u] = "failed" \/ Fulfilled(u)'
        BY <1>3, <2>2, <2>3 DEF Sum, Exit
      <3> QED BY <2>3, <3>1 DEF Sum, ExitAccounts
    <2>5. Callers'
      BY <1>0, <1>3, <2>1, InvParts DEF Exit, discovery, Callers
    <2> QED BY <1>0, <1>3, <2>1, <2>4, <2>5, InvParts DEF Exit, BatchInv, Callers
  <1>4. CASE KnownHash
    BY <1>0, <1>4, Unlooked, ExpectInv DEF KnownHash
  <1>5. CASE HashFails
    BY <1>0, <1>5, SettleInv DEF HashFails
  <1>6. CASE NoHash
    BY <1>0, <1>6, Unlooked, ExpectInv DEF NoHash
  <1>7. CASE Detect
    <2>1. pc = "hash" /\ pc' = "detect" /\ url' = url /\ url \in Calls /\ (Launch(url) \/ NoName(url))
      BY <1>0, <1>7 DEF Detect, Goto
    <2>2. /\ \A u \in Calls : u # url => caller'[u] = caller[u] /\ verdict'[u] = verdict[u]
      BY <2>1 DEF Launch, NoName, Return, TypeOK, DiscoveryTypeOK
    <2>3. \A u \in Calls : u < url \/ u > url => u # url
      BY <2>1, BatchAssumption
    <2>4. Sum'
      BY <1>0, <1>7, <2>1, <2>2, <2>3, SumKept, InvParts DEF Detect
    <2>5. Callers'
      BY <1>0, <1>7, <2>1, <2>2, <2>3, InvParts DEF Detect, Callers
    <2> QED BY <1>0, <1>7, <2>1, <2>4, <2>5, InvParts DEF Detect, BatchInv, Callers, Sum, ExitAccounts
  <1>8. CASE Look
    <2>1. pc = "detect" /\ pc' = pc /\ UNCHANGED <<main, url>> /\ url \in Calls /\ Select(url)
      BY <1>0, <1>8 DEF Look, main
    <2>2. /\ \A u \in Calls : u # url => caller'[u] = caller[u] /\ verdict'[u] = verdict[u]
      BY <2>1 DEF Select, Return, TypeOK, DiscoveryTypeOK
    <2>3. \A u \in Calls : u < url \/ u > url => u # url
      BY <2>1, BatchAssumption
    <2>4. Sum'
      BY <1>0, <2>1, <2>2, <2>3, SumKept, InvParts DEF main
    <2>5. Callers'
      BY <1>0, <2>1, <2>2, <2>3, InvParts DEF main, Callers
    <2> QED BY <1>0, <2>1, <2>4, <2>5, InvParts DEF main, BatchInv, Callers, Sum, ExitAccounts
  <1>9. CASE Detected
    <2>1. CASE verdict[url] = "canceled" /\ ~cfg.info
      BY <1>0, <1>9, <2>1, SettleInv DEF Detected
    <2>2. CASE ~(verdict[url] = "canceled" /\ ~cfg.info)
      BY <1>0, <1>9, <2>2, ExpectInv DEF Detected
    <2> QED BY <2>1, <2>2
  <1>10. CASE SendHead \/ HeadUseless
    <2>1. /\ pc \in {"probe", "head"} /\ UNCHANGED discovery
          /\ (stop /\ ProbeError("canceled")) \/ Jump("head") \/ Jump("get")
      BY <1>10 DEF SendHead, HeadUseless, Request
    <2> QED BY <1>0, <2>1, ProbeErrorInv, JumpInv DEF Download
  <1>11. CASE ProbeAnswered
    BY <1>0, <1>11, JumpInv DEF ProbeAnswered, Download
  <1>12. CASE Drain \/ Busy
    BY <1>0, <1>12, JumpInv DEF Drain, Busy, Download
  <1>13. CASE ProbeFails \/ SleepCut
    <2>1. /\ pc \in {"head", "get", "drain", "backoff"} /\ UNCHANGED discovery
          /\ \E e \in {"canceled", "timeout", "other"} : (e = "canceled" => stop) /\ ProbeError(e)
      BY <1>13 DEF ProbeFails, SleepCut
    <2> QED BY <1>0, <2>1, ProbeErrorInv
  <1>14. CASE Slept
    <2>1. CASE attempt < Attempts
      <3>1. lastErr' = "canceled" => stop
        BY <1>14, <2>1, InvParts DEF Slept
      <3>2. pc = "backoff" /\ (~cfg.info => (verdict[url] \in Candidates => hash = verdict[url]))
        BY <1>14, InvParts DEF Slept, Expected, Download
      <3> QED BY <1>0, <1>14, <2>1, <3>1, <3>2, MoveInv DEF Slept, Goto
    <2>2. CASE ~(attempt < Attempts)
      BY <1>0, <1>14, <2>2, ProbeErrorInv DEF Slept
    <2> QED BY <2>1, <2>2
  <1>15. CASE Transferred
    <2>1. ~cfg.info
      BY <1>15, InvParts DEF Transferred
    <2> QED BY <1>0, <1>15, <2>1, JumpInv DEF Transferred, Download
  <1>16. CASE TransferFails
    <2>1. pc = "transfer" /\ ~cfg.info /\ (verdict[url] \in Candidates => hash = verdict[url])
      BY <1>16, InvParts DEF TransferFails, Expected, Download
    <2> QED BY <1>0, <1>16, <2>1, MoveInv DEF TransferFails, NextMirror, Goto, Download
  <1>17. CASE TransferStops
    <2>1. pc = "transfer" /\ ~cfg.info
      BY <1>17, InvParts DEF TransferStops
    <2> QED BY <1>0, <1>17, <2>1, MoveInv DEF TransferStops, Goto, Download
  <1>18. CASE Verified
    <2>1. pc = "finalize" /\ ~cfg.info /\ (verdict[url] \in Candidates => hash = verdict[url])
      BY <1>18, InvParts DEF Verified, Expected, Download
    <2>2. \A w \in Calls : w = url => Fulfilled(w)'
      BY <1>0, <1>18, <2>1 DEF Verified, Settle, Fulfilled, TypeOK, discovery
    <2>3. \A u \in Calls : u # url => checked'[u] = checked[u]
      BY <1>18 DEF Verified, TypeOK
    <2> QED BY <1>0, <1>18, <2>1, <2>2, <2>3, SettleInv DEF Verified
  <1>19. CASE Rejected
    BY <1>0, <1>19, SettleInv DEF Rejected
  <1>20. CASE DownloadError
    <2>1. pc = "error" /\ ~cfg.info /\ url \in Calls /\ UNCHANGED <<checked, discovery>>
      BY <1>0, <1>20, InvParts DEF DownloadError
    <2>2. CASE lastErr \notin {"canceled", "timeout"}
      BY <1>0, <1>20, <2>1, <2>2, SettleInv DEF DownloadError
    <2>3. CASE lastErr \in {"canceled", "timeout"}
      <3>1. /\ outcome' = [outcome EXCEPT ![url] = "interrupted"] /\ exit' = interruptExit
            /\ pc' = "exit" /\ UNCHANGED <<url, lastErr>>
        BY <1>20, <2>3 DEF DownloadError, Goto
      <3>2. \A u \in Calls : outcome'[u] = IF u = url THEN "interrupted" ELSE outcome[u]
        BY <3>1 DEF TypeOK
      <3>3. Sum /\ (lastErr = "canceled" => stop)
        BY <2>1, InvParts
      <3>4. \A u \in Calls : (u < url => u # url) /\ (u > url => u # url /\ u >= url)
        BY <2>1, BatchAssumption
      <3>5. \A u \in Calls : u # url /\ Fulfilled(u) => Fulfilled(u)'
        BY <1>0, <2>1, <3>2 DEF Fulfilled, discovery
      <3>6. ExitAccounts'
        BY <1>0, <2>3, <3>1, <3>2, <3>3, <3>4, <3>5 DEF ExitAccounts, Sum
      <3>7. Callers'
        BY <1>0, <2>1, <3>1, InvParts DEF Callers, discovery
      <3> QED BY <1>0, <3>1, <3>3, <3>6, <3>7 DEF BatchInv, Callers
    <2> QED BY <2>2, <2>3
  <1> QED BY <1>1, <1>2, <1>3, <1>4, <1>5, <1>6, <1>7, <1>8, <1>9, <1>10, <1>11, <1>12, <1>13,
             <1>14, <1>15, <1>16, <1>17, <1>18, <1>19, <1>20 DEF Main

\* What goes on beside the main goroutine touches only a discovery that is on.
LEMMA BesideInv ==
  ASSUME TypeOK, BatchInv, ExitAccounts,
         \/ /\ UNCHANGED <<stop, cfg, complete, main>> /\ pc # "exit"
            /\ \E u \in Calls : CloseDone(u) \/ \E c \in Candidates : Probe(u, c)
         \/ CtrlC
  PROVE  BatchInv' /\ ExitAccounts'
  <1>0. /\ DiscoveryTypeOK /\ pc # "exit" /\ UNCHANGED <<cfg, complete, main>>
        /\ stop => stop'
    BY DEF TypeOK, CtrlC
  <1>1. \A u \in Calls : /\ caller[u] # "waiting" => caller'[u] = caller[u] /\ verdict'[u] = verdict[u]
                         /\ caller[u] = "waiting" => caller'[u] \in {"waiting", "returned"}
    <2>1. ASSUME NEW u \in Calls, CloseDone(u)
          PROVE  <1>1
      BY <1>0, <2>1 DEF CloseDone, Return, DiscoveryTypeOK
    <2>2. ASSUME NEW u \in Calls, NEW c \in Candidates, Miss(u, c)
          PROVE  <1>1
      BY <1>0, <2>2 DEF Miss
    <2>3. ASSUME NEW u \in Calls, NEW c \in Candidates, Send(u, c)
          PROVE  <1>1
      BY <1>0, <2>3 DEF Send, Return, DiscoveryTypeOK
    <2>4. CASE CtrlC
      BY <1>0, <2>4 DEF CtrlC, Interrupt, DiscoveryTypeOK
    <2> QED BY <2>1, <2>2, <2>3, <2>4 DEF Probe
  <1>2. Callers'
    BY <1>0, <1>1, InvParts DEF Callers, main
  <1>3. \A u \in Calls : pc # "detect" \/ u # url => verdict'[u] = verdict[u]
    BY <1>1, InvParts DEF Callers
  <1>4. \A u \in Calls : u < url => u # url
    BY <1>0, BatchAssumption DEF TypeOK
  <1>5. Sum'
    BY <1>0, <1>3, <1>4, SumKept, InvParts DEF main
  <1>6. Expected'
    BY <1>0, <1>3, InvParts DEF Expected, Download, main, TypeOK
  <1> QED BY <1>0, <1>2, <1>5, <1>6, InvParts DEF main, BatchInv, Callers, Expected, Sum, Download,
          ExitAccounts

LEMMA InitInv == Init => IInv
  <1> SUFFICES ASSUME Init PROVE IInv
    OBVIOUS
  <1>1. \A u \in Calls : /\ caller[u] = "idle" /\ verdict[u] = "none" /\ outcome[u] = "pending"
                         /\ \A c \in Candidates : probe[u][c] = "off"
    BY DEF Init, DiscoveryInit
  <1>2. HitKept
    BY <1>1 DEF HitKept
  <1>3. \A u \in Calls : ~(u < url)
    BY BatchAssumption DEF Init
  <1>4. Sum
    BY <1>1, <1>3 DEF Init, Sum
  <1>5. Callers /\ Expected
    BY <1>1 DEF Init, Callers, Expected, Download
  <1>6. BatchInv
    BY <1>4, <1>5, InvParts DEF Init
  <1>7. ExitAccounts
    BY DEF Init, ExitAccounts
  <1> QED BY <1>2, <1>6, <1>7, InitType DEF IInv

LEMMA StepInv ==
  ASSUME IInv, [Next]_vars
  PROVE  IInv'
  <1>0. TypeOK /\ HitKept /\ BatchInv /\ ExitAccounts
    BY DEF IInv
  <1>1. TypeOK' /\ HitKept'
    BY <1>0, TypeStep, HitKeptStep
  <1>2. BatchInv' /\ ExitAccounts'
    <2>1. CASE UNCHANGED vars
      BY <1>0, <2>1 DEF vars, main, discovery, BatchInv, ExitAccounts, Fulfilled
    <2>2. CASE Main
      BY <1>0, <2>2, MainInv
    <2> QED BY <1>0, <2>1, <2>2, BesideInv, StepKinds
  <1> QED BY <1>1, <1>2 DEF IInv

\* The exit code accounts for every URL of the batch, for any number of URLs and
\* mirrors (main.go:174-184, download.go:144-177).
THEOREM ExitCodeAccounts == Spec => []ExitAccounts
  <1>1. IInv => ExitAccounts
    BY DEF IInv
  <1>2. IInv /\ [Next]_vars => IInv'
    BY StepInv
  <1> QED BY InitInv, <1>1, <1>2, PTL DEF Spec
=============================================================================
