---- MODULE Lifecycle ----
(***************************************************************************)
(* A file's life over several runs of the program: runOne's --no-clobber   *)
(* test (cmd/gofetch/download.go), Download with its mirrors               *)
(* (internal/fetch/downloader.go), the single-stream path (single.go), the *)
(* allocation of the output file (mmap_writer.go), finalize, and kills at  *)
(* any moment.  The disk is what the runs have in common.                  *)
(*                                                                         *)
(* The file is a sequence of pieces; a piece is a hole or the version of   *)
(* the content that some server sent.  Of the range engine only what its   *)
(* success and its saves promise is used: module RangeEngine says which    *)
(* bytes it may give up, and module WorkerState how a saved in-progress    *)
(* pair may be torn.                                                       *)
(***************************************************************************)
EXTENDS Integers, Sequences, FiniteSets

CONSTANTS
    Environments,   \* the servers, the manifest, the flags of each run, the lapses
    MaxRuns         \* bound: how often the program is started

\* What a server serves: its size in pieces, whether the probe learns it,
\* whether range mode is chosen for it (it announces ranges and the file is not
\* small), whether it then breaks its promise, and which content.  The user
\* wants the content 1, of the size of the first server.  lapses: a save may
\* tear its pair, and the engine may give up pieces.
Server == [size: Nat \ {0}, known: BOOLEAN, ranges: BOOLEAN, lies: BOOLEAN, version: {1, 2}]
Flags == [resume: BOOLEAN, noClobber: BOOLEAN, hash: BOOLEAN]
Environment ==
    [servers: Seq(Server), manifest: BOOLEAN, flags: SUBSET Flags, lapses: BOOLEAN]

ASSUME EnvironmentAssumption ==
    \A e \in Environments :
        /\ e \in Environment
        /\ e.servers # <<>> /\ e.servers[1].version = 1
ASSUME MaxRunsAssumption == MaxRuns \in Nat

Hole == 0
Wanted == 1
NoSidecar == [url |-> 0, size |-> 0, done |-> {}, pair |-> {}, hash |-> FALSE]

VARIABLES
    env,        \* the Environment; never changes
    runs,       \* how often the program was started
    exit,       \* how the last run ended
    d,          \* the Downloader, and where Download is
    exists, data,   \* the output file
    sidecar,    \* the resume sidecar, or NoSidecar
    unbacked    \* history: the pieces a torn pair claimed or the engine gave up

vars == <<env, runs, exit, d, exists, data, sidecar, unbacked>>
disk == <<exists, data, sidecar, unbacked>>

S == env.servers[d.url]
Pieces == 1..S.size
Holes(n) == [i \in 1..n |-> Hole]
WantedFile == [i \in 1..env.servers[1].size |-> Wanted]

\* NewDownloader
NewDownloader(f) ==
    [pc |-> "probe", url |-> 1, resume |-> f.resume, hash |-> f.hash, ctx |-> FALSE,
     totalSize |-> 0, manifest |-> FALSE, completed |-> {}, skip |-> {}, fetched |-> {}]

Init ==
    /\ env \in Environments
    /\ runs = 0 /\ exit = "none"
    /\ d = [NewDownloader([resume |-> TRUE, noClobber |-> FALSE, hash |-> FALSE]) EXCEPT !.pc = "off"]
    /\ exists = FALSE /\ data = <<>> /\ sidecar = NoSidecar
    /\ unbacked = {}

At(pc) == d.pc = pc /\ UNCHANGED <<env, runs>>
Goto(pc) == d' = [d EXCEPT !.pc = pc]

\* The run ends; memory is gone.
End(code) ==
    /\ exit' = code
    /\ d' = [d EXCEPT !.pc = "off", !.completed = {}, !.skip = {}, !.fetched = {}]

\* Mutation of Failover: the loop does not stop at the last mirror.
FailoverAgain(err) ==
    /\ d' = [d EXCEPT !.pc = "probe", !.url = @ + 1, !.skip = {}, !.fetched = {}]
    /\ UNCHANGED exit

\* Download's loop: the next URL, or the last error.
Failover(err) ==
    IF d.url < Len(env.servers)
    THEN /\ d' = [d EXCEPT !.pc = "probe", !.url = @ + 1, !.skip = {}, !.fetched = {}]
         /\ UNCHANGED exit
    ELSE End(IF err = "cancel" THEN "interrupted" ELSE "failed")

----
(* Between two runs. *)

\* runOne: --no-clobber skips a file that has no sidecar.
StartRun ==
    /\ d.pc = "off" /\ runs < MaxRuns
    /\ \E f \in env.flags :
        IF f.noClobber /\ exists /\ sidecar = NoSidecar
        THEN exit' = "skipped" /\ UNCHANGED d
        ELSE exit' = "none" /\ d' = NewDownloader(f)
    /\ runs' = runs + 1
    /\ UNCHANGED <<env, disk>>

\* The user removes the partial file and forgets the sidecar.
UserRemoves ==
    /\ At("off") /\ exists
    /\ exists' = FALSE /\ data' = <<>>
    /\ exit' = "none"
    /\ UNCHANGED <<d, sidecar, unbacked>>

Crash ==
    /\ d.pc # "off"
    /\ End("killed")
    /\ UNCHANGED <<env, runs, disk>>

\* Ctrl-C
Interrupt ==
    /\ d.pc # "off" /\ ~d.ctx
    /\ d' = [d EXCEPT !.ctx = TRUE]
    /\ UNCHANGED <<env, runs, exit, disk>>

----
(* tryMirror *)

\* probeURL and applyProbe: a size that differs from an earlier mirror's wipes
\* all progress.
ProbeOk ==
    LET total == IF S.known THEN S.size ELSE 0
        changed == d.resume /\ total > 0 /\ d.totalSize > 0 /\ total # d.totalSize
    IN  /\ At("probe") /\ ~d.ctx
        /\ d' = [d EXCEPT !.pc = "resolve", !.totalSize = total,
                          !.completed = IF changed THEN {} ELSE @]
        /\ data' = IF changed THEN <<>> ELSE data
        /\ sidecar' = IF changed THEN NoSidecar ELSE sidecar
        /\ UNCHANGED <<exists, exit, unbacked>>

ProbeFail ==
    /\ At("probe")
    /\ Failover(IF d.ctx THEN "cancel" ELSE "real")
    /\ UNCHANGED disk

\* Mutation of StaleFile: the claims are believed without their file.
FileUnchecked == FALSE

\* The claims' file is gone or of another size.
StaleFile == ~exists \/ (d.totalSize > 0 /\ Len(data) # d.totalSize)

\* loadResume returns a state only for the same URL and size.
Matching == sidecar # NoSidecar /\ sidecar.url = d.url /\ sidecar.size = d.totalSize

\* What is skipped on resume: the recorded ranges and the promoted pair.
Claims == sidecar.done \cup sidecar.pair

\* Mutation of Reuse: the progress of a failed mirror is always kept.
ReuseUngated == IF StaleFile THEN {} ELSE IF Matching THEN Claims ELSE d.completed

\* resolveResume: what the accumulator is seeded with.
Reuse ==
    IF StaleFile THEN {}
    ELSE IF Matching THEN Claims
    ELSE IF d.manifest THEN d.completed ELSE {}

ResolveResume ==
    /\ At("resolve")
    /\ IF d.resume
       THEN /\ d' = [d EXCEPT !.pc = "allocate", !.completed = Reuse, !.skip = Reuse,
                              !.hash = @ \/ (~StaleFile /\ Matching /\ sidecar.hash)]
            /\ sidecar' = IF StaleFile THEN NoSidecar ELSE sidecar
       ELSE Goto("allocate") /\ UNCHANGED sidecar
    /\ UNCHANGED <<exists, data, exit, unbacked>>

\* The file cut or extended to n pieces.
Resized(n) == [i \in 1..n |-> IF i \in DOMAIN data THEN data[i] ELSE Hole]

\* allocateFileWriter, when resuming, keeps a file of the right size; one of
\* another size is emptied, or by the raw writer (--no-mmap) resized.  Then
\* downloadFromMirror loads the manifest and chooses the mode.
Allocate ==
    /\ At("allocate")
    /\ exists' = TRUE
    /\ data' \in IF ~d.resume \/ ~exists THEN {Holes(d.totalSize)}
                 ELSE IF d.totalSize = 0 \/ Len(data) = d.totalSize THEN {data}
                 ELSE {Holes(d.totalSize), Resized(d.totalSize)}
    /\ d' = [d EXCEPT !.pc = IF S.ranges /\ d.totalSize > 0 THEN "range" ELSE "single",
                      !.manifest = @ \/ env.manifest]
    /\ UNCHANGED <<sidecar, exit, unbacked>>

AllocateFail ==
    /\ At("allocate")
    /\ Failover("real")
    /\ UNCHANGED disk

----
(* rangeDownload, as module RangeEngine describes it. *)

\* A piece of a worker's task is written.
FetchPiece ==
    /\ At("range")
    /\ \E p \in Pieces \ (d.skip \cup d.fetched) :
        /\ data' = [data EXCEPT ![p] = S.version]
        /\ d' = [d EXCEPT !.fetched = @ \cup {p}]
    /\ UNCHANGED <<exists, sidecar, exit, unbacked>>

\* Its task is complete, and was verified if there is a manifest.  Wrong content
\* passes when the task does not cover the manifest chunk; finalize finds it.
RecordPiece ==
    /\ At("range") /\ d.resume
    /\ \E p \in d.fetched \ d.completed : d' = [d EXCEPT !.completed = @ \cup {p}]
    /\ UNCHANGED <<exists, data, sidecar, exit, unbacked>>

\* A sidecar with what the in-progress pair in it will be promoted to.
Saved(url, pair) ==
    [url |-> url, size |-> d.totalSize, done |-> d.completed, pair |-> pair, hash |-> d.hash]

\* saveResume: pieces of a running task that are written, or, when the pair is
\* torn, pieces that may not be.
SaveSidecar ==
    \E pair \in SUBSET Pieces :
        /\ pair \subseteq d.fetched \/ env.lapses
        /\ sidecar' = Saved(d.url, pair)
        /\ unbacked' = unbacked \cup (pair \ (d.fetched \cup d.completed))

SaveResume ==
    /\ At("range") /\ d.resume
    /\ SaveSidecar
    /\ UNCHANGED <<d, exists, data, exit>>

\* The engine returns nil: what it fetched is recorded, the rest it gave up.
RangeDone ==
    /\ At("range")
    /\ d.resume => d.fetched \subseteq d.completed
    /\ Pieces \subseteq d.skip \cup d.fetched \/ env.lapses
    /\ unbacked' = unbacked \cup (Pieces \ (d.skip \cup d.fetched))
    /\ Goto("finalize")
    /\ UNCHANGED <<exists, data, sidecar, exit>>

\* The probe promised ranges, and a Range request got a 200.
RangeNotSupported ==
    /\ At("range") /\ S.lies
    /\ d' = [d EXCEPT !.pc = "single", !.fetched = {}]
    /\ UNCHANGED <<disk, exit>>

\* Ctrl-C, with the forced save or, when the workers ended first, without.
RangeCancelled ==
    /\ At("range") /\ d.ctx
    /\ (d.resume /\ SaveSidecar) \/ UNCHANGED <<sidecar, unbacked>>
    /\ End("interrupted")
    /\ UNCHANGED <<exists, data>>

----
(* singleDownload *)

\* The next piece of the body is written, from the start of the file; nothing
\* is recorded.
StreamPiece ==
    LET next == Cardinality(d.fetched) + 1 IN
    /\ At("single")
    /\ next \in Pieces
    /\ data' = IF next \in DOMAIN data THEN [data EXCEPT ![next] = S.version]
               ELSE Append(data, S.version)
    /\ d' = [d EXCEPT !.fetched = @ \cup {next}]
    /\ UNCHANGED <<exists, sidecar, exit, unbacked>>

\* EOF.  A file of unknown size is cut behind the last byte, and its claims
\* are dropped.
StreamDone ==
    /\ At("single")
    /\ d.fetched = Pieces
    /\ IF d.totalSize > 0 THEN Goto("finalize") /\ UNCHANGED <<data, sidecar>>
       ELSE /\ data' = SubSeq(data, 1, S.size)
            /\ d' = [d EXCEPT !.pc = "finalize", !.totalSize = S.size,
                              !.completed = IF d.resume THEN {} ELSE @]
            /\ sidecar' = IF d.resume THEN NoSidecar ELSE sidecar
    /\ UNCHANGED <<exists, exit, unbacked>>

StreamCancelled ==
    /\ At("single") /\ d.ctx
    /\ End("interrupted")
    /\ UNCHANGED disk

----
(* The way out. *)

\* Either mode fails for a reason of its own, a task's manifest hash among them.
DownloadFail ==
    /\ d.pc \in {"range", "single"}
    /\ Goto("failed")
    /\ UNCHANGED <<env, runs, exit, disk>>

\* tryMirror after a failure that is no cancellation.
CleanUp ==
    /\ At("failed")
    /\ IF d.resume THEN sidecar' = NoSidecar /\ UNCHANGED <<exists, data>>
       ELSE exists' = FALSE /\ data' = <<>> /\ UNCHANGED sidecar
    /\ Failover("real")
    /\ UNCHANGED unbacked

\* Manifest.BadChunks; empty when VerifyFull succeeds.
BadChunks == {p \in DOMAIN WantedFile : p \notin DOMAIN data \/ data[p] # Wanted}

Cleared == IF d.resume THEN NoSidecar ELSE sidecar

FinalizeOk ==
    /\ At("finalize")
    /\ d.manifest => BadChunks = {}
    /\ d.hash => data = WantedFile
    /\ sidecar' = Cleared
    /\ End("ok")
    /\ UNCHANGED <<exists, data, unbacked>>

\* Mutation of Trimmed: the corrupt chunks stay claimed.
Untrimmed == d.completed

\* dropCompletedOverlapping; it may drop more, see ResumeAccumulator.
Trimmed == d.completed \ BadChunks

\* VerifyFull fails: trim, and save under the first URL, without a pair.
ManifestFail ==
    /\ At("finalize")
    /\ d.manifest /\ BadChunks # {}
    /\ sidecar' = IF d.resume THEN [Saved(1, {}) EXCEPT !.done = Trimmed] ELSE sidecar
    /\ End("unverified")
    /\ UNCHANGED <<exists, data, unbacked>>

HashFail ==
    /\ At("finalize")
    /\ d.manifest => BadChunks = {}
    /\ d.hash /\ data # WantedFile
    /\ sidecar' = IF d.manifest THEN sidecar ELSE Cleared
    /\ End("unverified")
    /\ UNCHANGED <<exists, data, unbacked>>

\* Sync or Close fails.
SyncFail ==
    /\ At("finalize")
    /\ sidecar' = IF d.manifest THEN sidecar ELSE Cleared
    /\ End("failed")
    /\ UNCHANGED <<exists, data, unbacked>>

Next ==
    \/ StartRun \/ UserRemoves \/ Crash \/ Interrupt
    \/ ProbeOk \/ ProbeFail \/ ResolveResume \/ Allocate \/ AllocateFail
    \/ FetchPiece \/ RecordPiece \/ SaveResume \/ RangeDone \/ RangeNotSupported \/ RangeCancelled
    \/ StreamPiece \/ StreamDone \/ StreamCancelled
    \/ DownloadFail \/ CleanUp
    \/ FinalizeOk \/ ManifestFail \/ HashFail \/ SyncFail

Spec == Init /\ [][Next]_vars

----
(* Correctness. *)

Pcs == {"off", "probe", "resolve", "allocate", "range", "single", "failed", "finalize"}

TypeOK ==
    /\ env \in Environments /\ runs \in 0..MaxRuns
    /\ exit \in {"none", "ok", "skipped", "failed", "unverified", "interrupted", "killed"}
    /\ d.pc \in Pcs
    /\ d.url \in DOMAIN env.servers
    /\ \A p \in d.completed \cup d.skip \cup d.fetched :
          p >= 1 /\ \E u \in DOMAIN env.servers : p <= env.servers[u].size
    /\ data \in Seq({Hole, 1, 2}) /\ (~exists => data = <<>>)
    /\ sidecar.url \in {0} \cup DOMAIN env.servers

\* A successful run leaves a file of the right length, without holes but where
\* the engine gave up a piece or a torn pair claimed one.
SuccessFilled ==
    exit = "ok" => Len(data) = S.size /\ \A p \in Pieces \ unbacked : data[p] # Hole

\* It does when no run used --no-resume: "claims are only trustworthy together
\* with the partial output file they describe" (resolveResume), through kills,
\* Ctrl-C, failovers, size changes and a removed file: no claim, recorded or
\* promoted from a pair, survives the bytes it is about.
FilledWhenResuming == (\A f \in env.flags : f.resume) => SuccessFilled

\* The pieces a success does not vouch for; a manifest vouches for all.
Doubtful == IF env.manifest THEN {} ELSE unbacked

\* A successful run's file comes from one version of the content:
\* resolveResume's gate against "splicing bytes from two different files".
Unspliced == exit = "ok" => \A p, q \in DOMAIN data \ Doubtful : data[p] = data[q]

\* The manifest, if there is one, covers the whole file.
Reached == env.manifest => Len(data) <= Len(WantedFile)

\* The gate works within one run, without a manifest, and with one that reaches
\* to the end of what a mirror sent; pieces behind it may differ.
FirstRunUnspliced == runs = 1 /\ Reached => Unspliced

\* After a failed verification the sidecar claims only what is right, as far as
\* the manifest reaches, so the next run repairs the file and no corruption is
\* skipped forever (finalize).
NoLastingCorruption ==
    exit = "unverified" /\ d.resume =>
        \A p \in Claims \cap DOMAIN WantedFile : p \in DOMAIN data /\ data[p] = Wanted

----
(* What FilledWhenResuming rests on. *)

IsPiece(p) == p >= 1 /\ \E u \in DOMAIN env.servers : p <= env.servers[u].size

Types ==
    /\ TypeOK
    /\ exists \in BOOLEAN
    /\ d \in [pc: Pcs, url: Nat, resume: BOOLEAN, hash: BOOLEAN, ctx: BOOLEAN,
              totalSize: Nat, manifest: BOOLEAN, completed: SUBSET Nat,
              skip: SUBSET Nat, fetched: SUBSET Nat]
    /\ sidecar \in [url: Nat, size: Nat, done: SUBSET Nat, pair: SUBSET Nat, hash: BOOLEAN]
    /\ \A p \in Claims : IsPiece(p)

Filled(P) == \A p \in P : p \in DOMAIN data /\ data[p] # Hole

\* The place of the run and what it knows of the file.
Progress ==
    /\ d.pc # "off" => exit = "none"
    /\ d.pc \in {"resolve", "allocate", "range", "single"} =>
          d.totalSize = IF S.known THEN S.size ELSE 0
    /\ d.pc \in {"range", "single", "finalize"} => exists
    /\ d.pc = "range" => d.totalSize > 0
    /\ d.pc \in {"range", "single"} /\ d.totalSize > 0 => Len(data) = d.totalSize
    /\ d.pc \in {"range", "single"} => Filled(d.fetched)
    /\ d.pc \in {"probe", "resolve", "allocate"} => d.fetched = {}
    /\ d.pc = "single" => \E k \in 0..S.size : d.fetched = 1..k

\* What is claimed, on disk or in memory, is in the file, unless the claim was
\* never backed; only a file that is gone may leave claims behind, until
\* resolveResume drops them.
Backed ==
    /\ d.resume
    /\ exists => Filled(Claims \ unbacked) /\ Filled(d.completed \ unbacked)
    /\ d.pc \in {"allocate", "range"} => d.skip \subseteq d.completed
    /\ d.pc = "allocate" /\ StaleFile => Claims = {} /\ d.completed = {}
    /\ d.pc = "finalize" => Len(data) = S.size /\ Filled(Pieces \ unbacked)

Resuming == \A f \in env.flags : f.resume

IInv ==
    /\ Types
    /\ Progress
    /\ Resuming => Backed /\ SuccessFilled

----
(* What FirstRunUnspliced rests on. *)

\* Nothing was there before the first run.
Fresh == runs = 0 => d.pc = "off" /\ sidecar = NoSidecar /\ ~exists /\ exit = "none"

\* Without a manifest the gate keeps nothing of an earlier mirror: a sidecar of
\* this run has an earlier URL, so what counts as done is the mirror's own.
OneVersion ==
    /\ ~d.manifest /\ d.skip = {}
    /\ sidecar.url <= d.url
    /\ d.pc \in {"probe", "resolve"} => sidecar.url < d.url
    /\ d.pc \in {"range", "single"} => \A p \in d.fetched : data[p] = S.version
    /\ d.pc = "finalize" =>
          Len(data) = S.size /\ \A p \in Pieces \ unbacked : data[p] = S.version

FirstRun ==
    /\ Fresh
    /\ runs = 1 /\ d.pc # "off" /\ ~env.manifest => OneVersion
    /\ env.manifest /\ d.pc \in {"range", "single", "finalize"} => d.manifest
    /\ FirstRunUnspliced
====
