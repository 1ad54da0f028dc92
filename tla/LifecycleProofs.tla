-------------------------- MODULE LifecycleProofs --------------------------
(***************************************************************************)
(* For any servers, any manifest, any flags, any lapses and any number of  *)
(* runs: with resume on in every run a success leaves no hole that a torn  *)
(* pair did not claim and the engine did not give up, because otherwise a  *)
(* sidecar and an accumulator never claim what is not in the file next to  *)
(* them.                                                                   *)
(***************************************************************************)
EXTENDS Lifecycle, SequenceTheorems, FiniteSetTheorems, TLAPS

(* Types, in four parts *)

Version == {Hole, 1, 2}

RunTypes ==
    /\ env \in Environments /\ runs \in 0..MaxRuns
    /\ exit \in {"none", "ok", "skipped", "failed", "unverified", "interrupted", "killed"}

DTypes ==
    /\ d \in [pc: Pcs, url: Nat, resume: BOOLEAN, hash: BOOLEAN, ctx: BOOLEAN,
              totalSize: Nat, manifest: BOOLEAN, completed: SUBSET Nat,
              skip: SUBSET Nat, fetched: SUBSET Nat]
    /\ d.pc \in Pcs
    /\ d.url \in DOMAIN env.servers
    /\ \A p \in d.completed \cup d.skip \cup d.fetched : IsPiece(p)

FileTypes ==
    /\ data \in Seq(Version) /\ exists \in BOOLEAN
    /\ ~exists => data = <<>>

SidecarTypes ==
    /\ sidecar \in [url: Nat, size: Nat, done: SUBSET Nat, pair: SUBSET Nat, hash: BOOLEAN]
    /\ sidecar.url \in {0} \cup DOMAIN env.servers
    /\ \A p \in Claims : IsPiece(p)

LEMMA TypesParts == Types <=> RunTypes /\ DTypes /\ FileTypes /\ SidecarTypes
  BY DEF Types, TypeOK, RunTypes, DTypes, FileTypes, SidecarTypes, IsPiece, Version

LEMMA TypesParts2 == Types' <=> RunTypes' /\ DTypes' /\ FileTypes' /\ SidecarTypes'
  BY DEF Types, TypeOK, RunTypes, DTypes, FileTypes, SidecarTypes, IsPiece, Version

\* What the constants' assumption says of the servers at hand.
LEMMA Servers ==
  ASSUME env \in Environments, d.url \in DOMAIN env.servers
  PROVE  /\ env.servers \in Seq(Server) /\ DOMAIN env.servers = 1..Len(env.servers)
         /\ Len(env.servers) \in Nat \ {0} /\ DOMAIN env.servers \subseteq Nat
         /\ env.manifest \in BOOLEAN /\ env.flags \subseteq Flags
         /\ env.servers[1].size \in Nat \ {0}
         /\ S \in Server /\ S.size \in Nat \ {0} /\ S.version \in {1, 2}
         /\ S.known \in BOOLEAN
         /\ \A p \in Pieces : p \in Nat /\ IsPiece(p)
  <1>1. env \in Environment /\ env.servers # <<>>
    BY EnvironmentAssumption
  <1>2. env.servers \in Seq(Server) /\ env.manifest \in BOOLEAN /\ env.flags \subseteq Flags
    BY <1>1 DEF Environment
  <1>3. DOMAIN env.servers = 1..Len(env.servers) /\ Len(env.servers) \in Nat \ {0}
    BY <1>1, <1>2, EmptySeq, LenProperties
  <1>4. env.servers[1] \in Server /\ S \in Server
    BY <1>2, <1>3, ElementOfSeq DEF S
  <1>5. \A s \in Server : s.size \in Nat \ {0} /\ s.version \in {1, 2} /\ s.known \in BOOLEAN
    BY DEF Server
  <1>6. \A p \in Pieces : p \in Nat /\ IsPiece(p)
    BY <1>4, <1>5 DEF Pieces, IsPiece, S
  <1> QED BY <1>2, <1>3, <1>4, <1>5, <1>6

\* The ways a run, or its try of a mirror, ends.
LEMMA EndTypes ==
  ASSUME RunTypes, DTypes, NEW code, End(code), env' = env
  PROVE  DTypes' /\ exit' = code /\ d'.pc = "off" /\ d'.resume = d.resume
         /\ d'.completed = {} /\ d'.fetched = {} /\ d'.url = d.url
  BY DEF RunTypes, DTypes, End, IsPiece, Pcs

LEMMA FailoverTypes ==
  ASSUME RunTypes, DTypes, NEW err, Failover(err), env' = env
  PROVE  /\ DTypes' /\ d'.resume = d.resume /\ d'.fetched = {}
         /\ \/ d'.pc = "probe" /\ exit' = exit /\ d'.completed = d.completed
            \/ d'.pc = "off" /\ d'.completed = {} /\ exit' \in {"interrupted", "failed"}
  <1>1. CASE d.url < Len(env.servers)
    <2>1. d.url + 1 \in DOMAIN env.servers /\ d.url + 1 \in Nat
      BY <1>1, Servers DEF RunTypes, DTypes
    <2>2. d' = [d EXCEPT !.pc = "probe", !.url = @ + 1, !.skip = {}, !.fetched = {}] /\ exit' = exit
      BY <1>1 DEF Failover
    <2> QED BY <2>1, <2>2 DEF DTypes, IsPiece, Pcs
  <1>2. CASE ~(d.url < Len(env.servers))
    <2>1. PICK code \in {"interrupted", "failed"} : End(code)
      BY <1>2 DEF Failover
    <2> QED BY <2>1, EndTypes
  <1> QED BY <1>1, <1>2

-----------------------------------------------------------------------------
(* The initial states *)

LEMMA InitInv == Init => IInv
  <1> SUFFICES ASSUME Init PROVE IInv
    OBVIOUS
  <1>1. 1 \in DOMAIN env.servers
    <2>1. env \in Environment /\ env.servers # <<>>
      BY EnvironmentAssumption DEF Init
    <2> QED BY <2>1, EmptySeq, LenProperties DEF Environment
  <1>2. d = [pc |-> "off", url |-> 1, resume |-> TRUE, hash |-> FALSE, ctx |-> FALSE,
             totalSize |-> 0, manifest |-> FALSE, completed |-> {}, skip |-> {}, fetched |-> {}]
    BY DEF Init, NewDownloader
  <1>3. DTypes
    BY <1>1, <1>2 DEF DTypes, Pcs
  <1>4. SidecarTypes /\ Claims = {}
    BY DEF Init, NoSidecar, SidecarTypes, Claims
  <1>5. RunTypes
    BY MaxRunsAssumption DEF Init, RunTypes
  <1>6. FileTypes
    BY EmptySeq DEF Init, FileTypes
  <1>7. Types
    BY <1>3, <1>4, <1>5, <1>6, TypesParts
  <1>8. Progress /\ Backed /\ SuccessFilled
    BY <1>2, <1>4 DEF Init, Progress, Backed, SuccessFilled, Filled
  <1> QED BY <1>7, <1>8 DEF IInv

-----------------------------------------------------------------------------
(* Every action keeps the types. *)

LEMMA SameEnv == [Next]_vars => env' = env
  BY DEF Next, vars, disk, At, StartRun, UserRemoves, Crash, Interrupt, ProbeOk, ProbeFail,
         ResolveResume, Allocate, AllocateFail, FetchPiece, RecordPiece, SaveResume, RangeDone,
         RangeNotSupported, RangeCancelled, StreamPiece, StreamDone, StreamCancelled,
         DownloadFail, CleanUp, FinalizeOk, ManifestFail, HashFail, SyncFail

LEMMA RunTypesInv == Types /\ [Next]_vars => RunTypes'
  <1> SUFFICES ASSUME Types, [Next]_vars PROVE RunTypes'
    OBVIOUS
  <1>0. RunTypes /\ DTypes /\ env' = env /\ runs \in Nat /\ MaxRuns \in Nat
    BY TypesParts, SameEnv, MaxRunsAssumption DEF RunTypes
  <1>1. CASE StartRun
    BY <1>0, <1>1 DEF StartRun, RunTypes
  <1>2. CASE UserRemoves
    BY <1>0, <1>2 DEF UserRemoves, At, RunTypes
  <1>3. CASE Crash
    BY <1>0, <1>3 DEF Crash, End, RunTypes
  <1>4. CASE Interrupt \/ ProbeOk \/ ResolveResume \/ Allocate \/ FetchPiece \/ RecordPiece \/ SaveResume
             \/ RangeDone \/ RangeNotSupported \/ StreamPiece \/ StreamDone \/ DownloadFail
    BY <1>0, <1>4 DEF Interrupt, ProbeOk, ResolveResume, Allocate, FetchPiece, RecordPiece, SaveResume,
         RangeDone, RangeNotSupported, StreamPiece, StreamDone, DownloadFail, At, RunTypes
  <1>5. CASE ProbeFail \/ AllocateFail \/ CleanUp
    <2>1. \E err : Failover(err)
      BY <1>5 DEF ProbeFail, AllocateFail, CleanUp
    <2>2. runs' = runs
      BY <1>5 DEF ProbeFail, AllocateFail, CleanUp, At
    <2> QED BY <1>0, <2>1, <2>2, FailoverTypes DEF RunTypes
  <1>6. CASE RangeCancelled \/ StreamCancelled \/ FinalizeOk \/ ManifestFail \/ HashFail \/ SyncFail
    BY <1>0, <1>6 DEF RangeCancelled, StreamCancelled, FinalizeOk, ManifestFail, HashFail, SyncFail,
         End, At, RunTypes
  <1>7. CASE UNCHANGED vars
    BY <1>0, <1>7 DEF vars, RunTypes
  <1> QED BY <1>1, <1>2, <1>3, <1>4, <1>5, <1>6, <1>7 DEF Next

LEMMA ReuseTypes ==
  ASSUME Types PROVE Reuse \subseteq Nat /\ \A p \in Reuse : IsPiece(p)
  BY TypesParts DEF Reuse, Claims, DTypes, SidecarTypes

LEMMA DTypesInv == Types /\ [Next]_vars => DTypes'
  <1> SUFFICES ASSUME Types, [Next]_vars PROVE DTypes'
    OBVIOUS
  <1>0. RunTypes /\ DTypes /\ FileTypes /\ SidecarTypes /\ env' = env
    BY TypesParts, SameEnv
  <1>s. /\ S.size \in Nat \ {0} /\ S.known \in BOOLEAN /\ env.manifest \in BOOLEAN
        /\ env.flags \subseteq Flags /\ 1 \in DOMAIN env.servers
        /\ \A p \in Pieces : p \in Nat /\ IsPiece(p)
    BY <1>0, Servers DEF RunTypes, DTypes
  <1>p. \A p : IsPiece(p)' <=> IsPiece(p)
    BY <1>0 DEF IsPiece
  <1>1. CASE StartRun
    <2>1. CASE UNCHANGED d
      BY <1>0, <1>p, <2>1 DEF DTypes
    <2>2. CASE \E f \in env.flags : d' = NewDownloader(f)
      <3>1. PICK f \in env.flags : d' = NewDownloader(f)
        BY <2>2
      <3>2. f.resume \in BOOLEAN /\ f.hash \in BOOLEAN
        BY <1>s DEF Flags
      <3> QED BY <1>0, <1>s, <3>1, <3>2 DEF NewDownloader, DTypes, Pcs
    <2> QED BY <1>1, <2>1, <2>2 DEF StartRun
  <1>2. CASE UNCHANGED d
    BY <1>0, <1>p, <1>2 DEF DTypes
  <1>3. CASE Crash \/ RangeCancelled \/ StreamCancelled \/ FinalizeOk \/ ManifestFail \/ HashFail \/ SyncFail
    <2>1. \E code : End(code)
      BY <1>3 DEF Crash, RangeCancelled, StreamCancelled, FinalizeOk, ManifestFail, HashFail, SyncFail
    <2> QED BY <1>0, <2>1, EndTypes
  <1>4. CASE ProbeFail \/ AllocateFail \/ CleanUp
    <2>1. \E err : Failover(err)
      BY <1>4 DEF ProbeFail, AllocateFail, CleanUp
    <2> QED BY <1>0, <2>1, FailoverTypes
  <1>5. CASE Interrupt
    BY <1>0, <1>p, <1>5 DEF Interrupt, DTypes
  <1>6. CASE ProbeOk
    <2>1. PICK t \in Nat, c \in {{}, d.completed} :
             d' = [d EXCEPT !.pc = "resolve", !.totalSize = t, !.completed = c]
      BY <1>s, <1>6 DEF ProbeOk
    <2> QED BY <1>0, <1>p, <2>1 DEF DTypes, Pcs
  <1>7. CASE ResolveResume
    <2>1. CASE d.resume
      <3>1. PICK h \in BOOLEAN :
               d' = [d EXCEPT !.pc = "allocate", !.completed = Reuse, !.skip = Reuse, !.hash = h]
        <4>1. (d.hash \/ (~StaleFile /\ Matching /\ sidecar.hash)) \in BOOLEAN
          BY <1>0 DEF DTypes
        <4> QED BY <1>7, <2>1, <4>1 DEF ResolveResume
      <3> QED BY <1>0, <1>p, <3>1, ReuseTypes DEF DTypes, Pcs
    <2>2. CASE ~d.resume
      BY <1>0, <1>p, <1>7, <2>2 DEF ResolveResume, Goto, DTypes, Pcs
    <2> QED BY <2>1, <2>2
  <1>8. CASE Allocate
    <2>1. PICK l \in {"range", "single"}, m \in BOOLEAN : d' = [d EXCEPT !.pc = l, !.manifest = m]
      <3>1. (d.manifest \/ env.manifest) \in BOOLEAN
        BY <1>0, <1>s DEF DTypes
      <3> QED BY <1>8, <3>1 DEF Allocate
    <2> QED BY <1>0, <1>p, <2>1 DEF DTypes, Pcs
  <1>9. CASE FetchPiece
    <2>1. PICK p \in Pieces : d' = [d EXCEPT !.fetched = @ \cup {p}]
      BY <1>9 DEF FetchPiece
    <2>2. d.fetched \cup {p} \in SUBSET Nat
      BY <1>0, <1>s, <2>1 DEF DTypes
    <2> QED BY <1>0, <1>s, <1>p, <2>1, <2>2 DEF DTypes
  <1>14. CASE RecordPiece
    <2>1. PICK p \in d.fetched : d' = [d EXCEPT !.completed = @ \cup {p}]
      BY <1>14 DEF RecordPiece
    <2>2. d.completed \cup {p} \in SUBSET Nat /\ IsPiece(p)
      BY <1>0, <2>1 DEF DTypes
    <2> QED BY <1>0, <1>p, <2>1, <2>2 DEF DTypes
  <1>10. CASE RangeDone \/ DownloadFail
    <2>1. PICK l \in Pcs : d' = [d EXCEPT !.pc = l]
      BY <1>10 DEF RangeDone, DownloadFail, Goto, Pcs
    <2> QED BY <1>0, <1>p, <2>1 DEF DTypes
  <1>11. CASE RangeNotSupported
    BY <1>0, <1>p, <1>11 DEF RangeNotSupported, DTypes, Pcs
  <1>12. CASE StreamPiece
    <2>1. PICK p \in Pieces : d' = [d EXCEPT !.fetched = @ \cup {p}]
      BY <1>12 DEF StreamPiece
    <2>2. d.fetched \cup {p} \in SUBSET Nat
      BY <1>0, <1>s, <2>1 DEF DTypes
    <2> QED BY <1>0, <1>s, <1>p, <2>1, <2>2 DEF DTypes
  <1>13. CASE StreamDone
    <2>1. CASE Goto("finalize")
      BY <1>0, <1>p, <2>1 DEF Goto, DTypes, Pcs
    <2>2. CASE ~Goto("finalize")
      <3>1. PICK c \in {{}, d.completed} :
               d' = [d EXCEPT !.pc = "finalize", !.totalSize = S.size, !.completed = c]
        BY <1>13, <2>2 DEF StreamDone
      <3> QED BY <1>0, <1>s, <1>p, <3>1 DEF DTypes, Pcs
    <2> QED BY <2>1, <2>2
  <1> QED BY <1>1, <1>2, <1>3, <1>4, <1>5, <1>6, <1>7, <1>8, <1>9, <1>10, <1>11, <1>12, <1>13, <1>14
          DEF Next, vars, UserRemoves, SaveResume

LEMMA ArraySeq ==
  ASSUME NEW n \in Nat, NEW f \in [1..n -> Version]
  PROVE  f \in Seq(Version) /\ Len(f) = n /\ DOMAIN f = 1..n
  <1>1. f \in Seq(Version)
    BY SeqDef
  <1>2. Len(f) \in Nat /\ 1..Len(f) = 1..n
    BY <1>1, LenProperties
  <1> QED BY <1>1, <1>2

\* What Allocate and the writes make of the file.
LEMMA HolesSeq ==
  ASSUME NEW n \in Nat
  PROVE  Holes(n) \in Seq(Version) /\ Len(Holes(n)) = n
  <1>1. Holes(n) \in [1..n -> Version]
    BY DEF Holes, Version
  <1> QED BY <1>1, ArraySeq

LEMMA ResizedSeq ==
  ASSUME NEW n \in Nat, data \in Seq(Version)
  PROVE  Resized(n) \in Seq(Version) /\ Len(Resized(n)) = n
  <1>1. \A i \in DOMAIN data : data[i] \in Version
    BY LenProperties, ElementOfSeq
  <1>2. Resized(n) \in [1..n -> Version]
    BY <1>1 DEF Resized, Version
  <1> QED BY <1>2, ArraySeq

LEMMA OverwriteSeq ==
  ASSUME data \in Seq(Version), NEW p, NEW v \in Version, data' = [data EXCEPT ![p] = v]
  PROVE  /\ data' \in Seq(Version) /\ Len(data') = Len(data) /\ DOMAIN data' = DOMAIN data
         /\ \A i \in DOMAIN data : data'[i] = IF i = p THEN v ELSE data[i]
  <1>1. data \in [1..Len(data) -> Version] /\ Len(data) \in Nat
    BY LenProperties
  <1>2. data' \in [1..Len(data) -> Version]
    BY <1>1
  <1> QED BY <1>1, <1>2, ArraySeq

\* The next piece of a stream is written behind those before it.
LEMMA StreamWrite ==
  ASSUME Types, Progress, StreamPiece
  PROVE  LET next == Cardinality(d.fetched) + 1 IN
         /\ next \in Pieces /\ d.fetched = 1..next - 1 /\ next \in Nat
         /\ data' \in Seq(Version) /\ next \in DOMAIN data'
         /\ DOMAIN data \subseteq DOMAIN data' /\ data'[next] # Hole
         /\ \A i \in DOMAIN data : i # next => data'[i] = data[i]
         /\ next \in DOMAIN data => Len(data') = Len(data)
  <1> SUFFICES ASSUME NEW next, next = Cardinality(d.fetched) + 1
               PROVE  /\ next \in Pieces /\ d.fetched = 1..next - 1 /\ next \in Nat
                      /\ data' \in Seq(Version) /\ next \in DOMAIN data'
                      /\ DOMAIN data \subseteq DOMAIN data' /\ data'[next] # Hole
                      /\ \A i \in DOMAIN data : i # next => data'[i] = data[i]
                      /\ next \in DOMAIN data => Len(data') = Len(data)
    OBVIOUS
  <1>0. data \in Seq(Version) /\ S.size \in Nat /\ S.version \in Version /\ S.version # Hole
    BY TypesParts, Servers DEF RunTypes, DTypes, FileTypes, Version, Hole
  <1>1. PICK k \in 0..S.size : d.fetched = 1..k
    BY DEF StreamPiece, At, Progress
  <1>2. k \in Nat /\ next = k + 1 /\ d.fetched = 1..next - 1 /\ next \in Pieces
    <2>1. k \in Nat /\ Cardinality(d.fetched) = k
      BY <1>0, <1>1, FS_Interval
    <2>2. next = k + 1 /\ k = next - 1
      BY <2>1
    <2> QED BY <1>1, <2>1, <2>2 DEF StreamPiece
  <1>3. \A i \in 1..k : i \in 1..Len(data)
    BY <1>0, <1>1, LenProperties DEF StreamPiece, At, Progress, Filled
  <1>4. Len(data) \in Nat /\ DOMAIN data = 1..Len(data) /\ k <= Len(data)
    <2>1. Len(data) \in Nat /\ DOMAIN data = 1..Len(data)
      BY <1>0, LenProperties
    <2>2. CASE k = 0
      BY <2>1, <2>2
    <2>3. CASE k # 0
      BY <1>2, <1>3, <2>1, <2>3
    <2> QED BY <2>1, <2>2, <2>3
  <1>5. CASE next \in DOMAIN data
    <2>1. data' = [data EXCEPT ![next] = S.version]
      BY <1>5 DEF StreamPiece
    <2> QED BY <1>0, <1>2, <1>5, <2>1, OverwriteSeq
  <1>6. CASE next \notin DOMAIN data
    <2>1. data' = Append(data, S.version) /\ next = Len(data) + 1
      BY <1>2, <1>4, <1>6 DEF StreamPiece
    <2>2. data' \in Seq(Version) /\ Len(data') = Len(data) + 1
          /\ data'[Len(data) + 1] = S.version /\ \A i \in 1..Len(data) : data'[i] = data[i]
      BY <1>0, <2>1, AppendProperties
    <2>3. DOMAIN data' = 1..Len(data) + 1
      BY <2>2, LenProperties
    <2>4. DOMAIN data \subseteq DOMAIN data' /\ next \in DOMAIN data'
      BY <1>4, <2>1, <2>3
    <2>5. \A i \in DOMAIN data : data'[i] = data[i]
      BY <1>4, <2>2
    <2>6. data'[next] # Hole
      BY <1>0, <2>1, <2>2
    <2> QED BY <1>2, <1>6, <2>2, <2>4, <2>5, <2>6
  <1> QED BY <1>5, <1>6

\* That piece is the server's, too.
LEMMA StreamVersion ==
  ASSUME Types, Progress, StreamPiece
  PROVE  \E next \in Nat :
            /\ d' = [d EXCEPT !.fetched = @ \cup {next}]
            /\ data'[next] = S.version /\ d.fetched = 1..next - 1
            /\ \A i \in DOMAIN data : i # next => data'[i] = data[i]
  <1> DEFINE next == Cardinality(d.fetched) + 1
  <1>1. /\ next \in Nat /\ next \in Pieces /\ d.fetched = 1..next - 1 /\ next \in DOMAIN data'
        /\ \A i \in DOMAIN data : i # next => data'[i] = data[i]
    BY StreamWrite
  <1>2. d' = [d EXCEPT !.fetched = @ \cup {next}]
    BY DEF StreamPiece
  <1>0. data \in Seq(Version) /\ Len(data) \in Nat /\ DOMAIN data = 1..Len(data)
        /\ S.version \in Version
    BY TypesParts, LenProperties, Servers DEF FileTypes, RunTypes, DTypes, Version
  <1>3. data'[next] = S.version
    <2>1. CASE next \in DOMAIN data
      <3>1. data' = [data EXCEPT ![next] = S.version]
        BY <2>1 DEF StreamPiece
      <3> QED BY <1>0, <2>1, <3>1, OverwriteSeq
    <2>2. CASE next \notin DOMAIN data
      <3>1. data' = Append(data, S.version)
        BY <2>2 DEF StreamPiece
      <3>2. DOMAIN data' = 1..Len(data) + 1 /\ data'[Len(data) + 1] = S.version
        BY <1>0, <3>1, AppendProperties, LenProperties
      <3>3. next = Len(data) + 1
        BY <1>0, <1>1, <2>2, <3>2
      <3> QED BY <3>2, <3>3
    <2> QED BY <2>1, <2>2
  <1> QED BY <1>1, <1>2, <1>3

LEMMA CutSeq ==
  ASSUME Types, Progress, d.pc = "single", d.fetched = Pieces
  PROVE  /\ SubSeq(data, 1, S.size) \in Seq(Version)
         /\ Len(SubSeq(data, 1, S.size)) = S.size
         /\ \A p \in Pieces : p \in DOMAIN data /\ data[p] # Hole
                              /\ SubSeq(data, 1, S.size)[p] = data[p]
  <1>0. data \in Seq(Version) /\ S.size \in Nat \ {0}
    BY TypesParts, Servers DEF RunTypes, DTypes, FileTypes
  <1>1. \A p \in Pieces : p \in DOMAIN data /\ data[p] # Hole /\ data[p] \in Version
    BY <1>0, LenProperties, ElementOfSeq DEF Progress, Filled
  <1> QED BY <1>0, <1>1, SubSeqProperties DEF Pieces

LEMMA FileTypesInv == Types /\ Progress /\ [Next]_vars => FileTypes'
  <1> SUFFICES ASSUME Types, Progress, [Next]_vars PROVE FileTypes'
    OBVIOUS
  <1>0. RunTypes /\ DTypes /\ FileTypes /\ d.totalSize \in Nat
    BY TypesParts DEF DTypes
  <1>e. <<>> \in Seq(Version)
    BY EmptySeq
  <1>s. S.version \in Version
    BY <1>0, Servers DEF RunTypes, DTypes, Version
  <1>1. CASE UNCHANGED <<exists, data>>
    BY <1>0, <1>1 DEF FileTypes
  <1>2. CASE UserRemoves \/ ProbeOk \/ CleanUp
    BY <1>0, <1>e, <1>2 DEF FileTypes, UserRemoves, ProbeOk, CleanUp
  <1>3. CASE Allocate
    <2>1. data' \in {data, Holes(d.totalSize), Resized(d.totalSize)} /\ exists' = TRUE
      BY <1>3 DEF Allocate
    <2> QED BY <1>0, <2>1, HolesSeq, ResizedSeq DEF FileTypes
  <1>4. CASE FetchPiece
    <2>1. PICK p : data' = [data EXCEPT ![p] = S.version]
      BY <1>4 DEF FetchPiece
    <2>2. exists /\ exists' = exists
      BY <1>4 DEF FetchPiece, At, Progress
    <2> QED BY <1>0, <1>s, <2>1, <2>2, OverwriteSeq DEF FileTypes
  <1>5. CASE StreamPiece
    <2>1. exists /\ exists' = exists
      BY <1>5 DEF StreamPiece, At, Progress
    <2> QED BY <1>0, <1>5, <2>1, StreamWrite DEF FileTypes
  <1>6. CASE StreamDone
    <2>1. exists /\ exists' = exists /\ d.pc = "single" /\ d.fetched = Pieces
      BY <1>6 DEF StreamDone, At, Progress
    <2>2. data' = data \/ data' = SubSeq(data, 1, S.size)
      BY <1>6 DEF StreamDone
    <2> QED BY <1>0, <2>1, <2>2, CutSeq DEF FileTypes
  <1> QED BY <1>1, <1>2, <1>3, <1>4, <1>5, <1>6
          DEF Next, vars, disk, At, StartRun, Crash, Interrupt, ProbeFail, ResolveResume,
              AllocateFail, RecordPiece, SaveResume, RangeDone, RangeNotSupported, RangeCancelled,
              StreamCancelled, DownloadFail, FinalizeOk, ManifestFail, HashFail, SyncFail

LEMMA SidecarTypesInv == Types /\ [Next]_vars => SidecarTypes'
  <1> SUFFICES ASSUME Types, [Next]_vars PROVE SidecarTypes'
    OBVIOUS
  <1>0. RunTypes /\ DTypes /\ SidecarTypes /\ env' = env /\ 1 \in DOMAIN env.servers
    BY TypesParts, SameEnv, Servers DEF RunTypes, DTypes
  <1>s. \A p \in Pieces : p \in Nat /\ IsPiece(p)
    BY <1>0, Servers DEF RunTypes, DTypes
  <1>p. \A p : IsPiece(p)' <=> IsPiece(p)
    BY <1>0 DEF IsPiece
  <1>1. CASE sidecar' = sidecar \/ sidecar' = NoSidecar
    <2>1. CASE sidecar' = sidecar
      BY <1>0, <1>p, <2>1 DEF SidecarTypes, Claims
    <2>2. CASE sidecar' = [url |-> 0, size |-> 0, done |-> {}, pair |-> {}, hash |-> FALSE]
      BY <1>0, <2>2 DEF SidecarTypes, Claims
    <2> QED BY <1>1, <2>1, <2>2 DEF NoSidecar
  <1>2. CASE SaveSidecar
    <2>1. PICK pair \in SUBSET Pieces : sidecar' = Saved(d.url, pair)
      BY <1>2 DEF SaveSidecar
    <2>2. pair \in SUBSET Nat /\ \A p \in pair : IsPiece(p)
      BY <1>s, <2>1
    <2> QED BY <1>0, <1>p, <2>1, <2>2 DEF SidecarTypes, Saved, DTypes, Claims
  <1>3. CASE sidecar' = [Saved(1, {}) EXCEPT !.done = Trimmed]
    <2>1. sidecar' = [url |-> 1, size |-> d.totalSize, done |-> Trimmed, pair |-> {}, hash |-> d.hash]
      BY <1>3 DEF Saved
    <2>2. Trimmed \subseteq d.completed
      BY DEF Trimmed
    <2> QED BY <1>0, <1>p, <2>1, <2>2 DEF SidecarTypes, DTypes, Claims
  <1> QED BY <1>1, <1>2, <1>3
          DEF Next, vars, disk, At, StartRun, UserRemoves, Crash, Interrupt, ProbeOk, ProbeFail,
              ResolveResume, Allocate, AllocateFail, FetchPiece, RecordPiece, SaveResume, RangeDone,
              RangeNotSupported, RangeCancelled, StreamPiece, StreamDone, StreamCancelled,
              DownloadFail, CleanUp, FinalizeOk, ManifestFail, HashFail, SyncFail, Cleared

LEMMA TypesInv == Types /\ Progress /\ [Next]_vars => Types'
  BY RunTypesInv, DTypesInv, FileTypesInv, SidecarTypesInv, TypesParts2

-----------------------------------------------------------------------------
(* Every action keeps Progress. *)

\* The size of the server at hand changes only with the URL.
LEMMA SameServer ==
  ASSUME env' = env, d'.url = d.url
  PROVE  S' = S /\ Pieces' = Pieces
  BY DEF S, Pieces

LEMMA ProgressInv == Types /\ Progress /\ [Next]_vars => Progress'
  <1> SUFFICES ASSUME Types, Progress, [Next]_vars PROVE Progress'
    OBVIOUS
  <1>0. RunTypes /\ DTypes /\ FileTypes /\ env' = env
    BY TypesParts, SameEnv
  <1>s. S.size \in Nat \ {0} /\ S.version \in Version /\ S.version # Hole
    BY <1>0, Servers DEF RunTypes, DTypes, Version, Hole
  <1>t. d.totalSize \in Nat /\ data \in Seq(Version)
    BY <1>0 DEF DTypes, FileTypes
  \* At "off" and "failed" nothing is asked but the first conjunct.
  <1>f. ASSUME d'.pc \in {"off", "failed"}, d'.pc = "off" \/ exit' = "none" PROVE Progress'
    BY <1>f DEF Progress
  <1>1. CASE StartRun
    <2>1. CASE UNCHANGED d
      BY <1>1, <1>f, <2>1 DEF StartRun
    <2>2. CASE exit' = "none" /\ \E f \in env.flags : d' = NewDownloader(f)
      BY <2>2 DEF NewDownloader, Progress
    <2> QED BY <1>1, <2>1, <2>2 DEF StartRun
  <1>2. CASE UserRemoves
    BY <1>2, <1>f DEF UserRemoves, At
  <1>3. CASE Crash \/ RangeCancelled \/ StreamCancelled \/ FinalizeOk \/ ManifestFail \/ HashFail \/ SyncFail
    <2>1. \E code : End(code)
      BY <1>3 DEF Crash, RangeCancelled, StreamCancelled, FinalizeOk, ManifestFail, HashFail, SyncFail
    <2>2. d'.pc = "off"
      BY <1>0, <2>1, EndTypes
    <2> QED BY <1>f, <2>2
  <1>4. CASE ProbeFail \/ AllocateFail \/ CleanUp
    <2>1. (\E err : Failover(err)) /\ exit = "none"
      BY <1>4 DEF ProbeFail, AllocateFail, CleanUp, At, Progress
    <2>2. d'.pc = "off" \/ (d'.pc = "probe" /\ exit' = "none" /\ d'.fetched = {})
      BY <1>0, <2>1, FailoverTypes
    <2> QED BY <1>f, <2>2 DEF Progress
  <1>5. CASE Interrupt
    <2>1. /\ d'.pc = d.pc /\ d'.url = d.url /\ d'.totalSize = d.totalSize
          /\ d'.fetched = d.fetched /\ exit' = exit /\ exists' = exists /\ data' = data
      BY <1>0, <1>5 DEF Interrupt, DTypes, disk
    <2>2. Filled(d.fetched)' <=> Filled(d.fetched)
      BY <2>1 DEF Filled
    <2> QED BY <1>0, <2>1, <2>2, SameServer DEF Progress
  <1>6. CASE ProbeOk
    <2>1. /\ d'.pc = "resolve" /\ d'.url = d.url /\ d'.fetched = d.fetched /\ exit' = exit
          /\ d'.totalSize = IF S.known THEN S.size ELSE 0
      BY <1>0, <1>6 DEF ProbeOk, DTypes
    <2>2. d.pc = "probe"
      BY <1>6 DEF ProbeOk, At
    <2> QED BY <1>0, <2>1, <2>2, SameServer DEF Progress
  <1>7. CASE ResolveResume
    <2>1. /\ d'.pc = "allocate" /\ d'.url = d.url /\ d'.fetched = d.fetched /\ exit' = exit
          /\ d'.totalSize = d.totalSize
      BY <1>0, <1>7 DEF ResolveResume, DTypes, Goto
    <2>2. d.pc = "resolve"
      BY <1>7 DEF ResolveResume, At
    <2> QED BY <1>0, <2>1, <2>2, SameServer DEF Progress
  <1>8. CASE Allocate
    <2>1. /\ d'.pc = IF S.ranges /\ d.totalSize > 0 THEN "range" ELSE "single"
          /\ d'.url = d.url /\ d'.fetched = d.fetched /\ exit' = exit
          /\ d'.totalSize = d.totalSize /\ exists' = TRUE
      BY <1>0, <1>8 DEF Allocate, DTypes
    <2>2. d.pc = "allocate" /\ d.fetched = {} /\ exit = "none"
      BY <1>8 DEF Allocate, At, Progress
    <2>3. d.totalSize > 0 => Len(data') = d.totalSize
      BY <1>8, <1>t, HolesSeq, ResizedSeq DEF Allocate
    <2>4. {} = 1..0 /\ 0 \in 0..S.size
      BY <1>s
    <2>5. Filled(d.fetched)' /\ S' = S
      BY <1>0, <2>1, <2>2, SameServer DEF Filled
    <2> QED BY <2>1, <2>2, <2>3, <2>4, <2>5 DEF Progress
  <1>9. CASE FetchPiece
    <2>0. d.pc = "range" /\ exit' = "none" /\ exists' /\ d.totalSize > 0 /\ Len(data) = d.totalSize
          /\ d.totalSize = S.size /\ Filled(d.fetched)
      BY <1>9, <1>s DEF FetchPiece, At, Progress
    <2>1. PICK p \in Pieces : /\ data' = [data EXCEPT ![p] = S.version]
                              /\ d' = [d EXCEPT !.fetched = @ \cup {p}]
      BY <1>9 DEF FetchPiece
    <2>2. Len(data') = Len(data) /\ DOMAIN data' = DOMAIN data /\ p \in DOMAIN data
          /\ \A i \in DOMAIN data : data'[i] = IF i = p THEN S.version ELSE data[i]
      BY <1>s, <1>t, <2>0, <2>1, OverwriteSeq, LenProperties DEF Pieces
    <2>3. /\ d'.pc = d.pc /\ d'.url = d.url /\ d'.totalSize = d.totalSize
          /\ d'.fetched = d.fetched \cup {p}
      BY <1>0, <2>1 DEF DTypes
    <2>4. Filled(d.fetched)'
      BY <1>s, <2>0, <2>2, <2>3 DEF Filled
    <2> QED BY <1>0, <2>0, <2>2, <2>3, <2>4, SameServer DEF Progress
  <1>15. CASE RecordPiece
    <2>1. /\ d'.pc = d.pc /\ d'.url = d.url /\ d'.totalSize = d.totalSize
          /\ d'.fetched = d.fetched /\ exit' = exit /\ exists' = exists /\ data' = data
      BY <1>0, <1>15 DEF RecordPiece, DTypes
    <2>2. Filled(d.fetched)' <=> Filled(d.fetched)
      BY <2>1 DEF Filled
    <2> QED BY <1>0, <2>1, <2>2, SameServer DEF Progress
  <1>10. CASE RangeDone \/ DownloadFail
    <2>1. \/ d'.pc = "failed"
          \/ d'.pc = "finalize" /\ d.pc = "range"
      BY <1>0, <1>10 DEF RangeDone, DownloadFail, Goto, DTypes, At
    <2>2. exit' = "none" /\ exists' = exists
      BY <1>10 DEF RangeDone, DownloadFail, At, disk, Progress
    <2> QED BY <1>f, <2>1, <2>2 DEF Progress
  <1>11. CASE RangeNotSupported
    <2>1. /\ d'.pc = "single" /\ d'.url = d.url /\ d'.totalSize = d.totalSize /\ d'.fetched = {}
          /\ exit' = exit /\ exists' = exists /\ data' = data /\ d.pc = "range"
      BY <1>0, <1>11 DEF RangeNotSupported, DTypes, At, disk
    <2>2. {} = 1..0 /\ 0 \in 0..S.size
      BY <1>s
    <2>3. Filled(d.fetched)' /\ S' = S
      BY <1>0, <2>1, SameServer DEF Filled
    <2> QED BY <2>1, <2>2, <2>3 DEF Progress
  <1>12. CASE StreamPiece
    <2>0. d.pc = "single" /\ exit' = "none" /\ exists' /\ Filled(d.fetched)
          /\ (d.totalSize > 0 => Len(data) = d.totalSize /\ d.totalSize = S.size)
      BY <1>12 DEF StreamPiece, At, Progress
    <2>1. PICK next \in Nat :
             /\ next \in Pieces /\ d.fetched = 1..next - 1
             /\ data' \in Seq(Version) /\ next \in DOMAIN data'
             /\ DOMAIN data \subseteq DOMAIN data' /\ data'[next] # Hole
             /\ \A i \in DOMAIN data : i # next => data'[i] = data[i]
             /\ next \in DOMAIN data => Len(data') = Len(data)
             /\ d' = [d EXCEPT !.fetched = @ \cup {next}]
      BY <1>12, StreamWrite DEF StreamPiece
    <2>2. /\ d'.pc = d.pc /\ d'.url = d.url /\ d'.totalSize = d.totalSize
          /\ d'.fetched = d.fetched \cup {next}
      BY <1>0, <2>1 DEF DTypes
    <2>3. d'.fetched = 1..next /\ next \in 0..S.size
      BY <1>s, <2>1, <2>2 DEF Pieces
    <2>4. Filled(d.fetched)'
      BY <2>0, <2>1, <2>2 DEF Filled
    <2>5. d.totalSize > 0 => Len(data') = d.totalSize
      BY <1>s, <1>t, <2>0, <2>1, LenProperties DEF Pieces
    <2>6. S' = S
      BY <1>0, <2>2, SameServer
    <2>7. d.totalSize = IF S.known THEN S.size ELSE 0
      BY <2>0 DEF Progress
    <2> QED BY <2>0, <2>2, <2>3, <2>4, <2>5, <2>6, <2>7 DEF Progress
  <1>13. CASE StreamDone
    <2>1. d'.pc = "finalize" /\ exit' = "none" /\ exists'
      BY <1>0, <1>13 DEF StreamDone, At, Goto, DTypes, Progress
    <2> QED BY <2>1 DEF Progress
  <1>14. CASE SaveResume \/ UNCHANGED vars
    <2>1. UNCHANGED <<env, exit, d, exists, data>>
      BY <1>14 DEF SaveResume, At, vars
    <2> QED BY <2>1 DEF Progress, Filled, S
  <1> QED BY <1>1, <1>2, <1>3, <1>4, <1>5, <1>6, <1>7, <1>8, <1>9, <1>10, <1>11, <1>12, <1>13, <1>14, <1>15
          DEF Next

-----------------------------------------------------------------------------
(* With resume always on, every action keeps Backed and SuccessFilled. *)

LEMMA BackedInv == IInv /\ Resuming /\ [Next]_vars => Backed' /\ SuccessFilled'
  <1> SUFFICES ASSUME Types, Progress, Backed, SuccessFilled, Resuming, [Next]_vars
               PROVE  Backed' /\ SuccessFilled'
    BY DEF IInv
  <1>0. RunTypes /\ DTypes /\ FileTypes /\ env' = env
    BY TypesParts, SameEnv
  <1>s. S.size \in Nat \ {0} /\ S.version \in Version /\ S.version # Hole
    BY <1>0, Servers DEF RunTypes, DTypes, Version, Hole
  <1>t. d.totalSize \in Nat /\ data \in Seq(Version) /\ d.resume
    BY <1>0 DEF DTypes, FileTypes, Backed
  <1>n. sidecar' = NoSidecar => Claims' = {}
    BY DEF NoSidecar, Claims
  <1>c. sidecar' = sidecar => Claims' = Claims
    BY DEF Claims
  <1>u. unbacked \subseteq unbacked'
    BY DEF Next, vars, disk, StartRun, UserRemoves, Crash, Interrupt, ProbeOk, ProbeFail,
           ResolveResume, Allocate, AllocateFail, FetchPiece, RecordPiece, SaveResume, SaveSidecar,
           RangeDone, RangeNotSupported, RangeCancelled, StreamPiece, StreamDone, StreamCancelled,
           DownloadFail, CleanUp, FinalizeOk, ManifestFail, HashFail, SyncFail
  \* What the end of a run, and the turn to the next mirror, ask.
  <1>f. ASSUME d'.pc \in {"off", "probe", "resolve", "failed"}, d'.resume,
               exists' => Filled(Claims \ unbacked)' /\ Filled(d.completed \ unbacked)'
        PROVE  Backed'
    BY <1>f DEF Backed
  <1>x. ASSUME exit' # "ok" PROVE SuccessFilled'
    BY <1>x DEF SuccessFilled
  <1>1. CASE StartRun
    <2>1. UNCHANGED <<exists, data, sidecar>> /\ d.pc = "off"
      BY <1>1 DEF StartRun, disk
    <2>2. CASE UNCHANGED d
      <3>1. exit' = "skipped"
        BY <1>0, <1>1, <2>1, <2>2 DEF StartRun, NewDownloader, Resuming
      <3> QED BY <1>0, <1>c, <1>f, <1>u, <1>x, <2>1, <2>2, <3>1 DEF Backed, Filled
    <2>3. CASE exit' = "none" /\ \E f \in env.flags : d' = NewDownloader(f)
      <3>1. PICK f \in env.flags : d' = NewDownloader(f)
        BY <2>3
      <3>2. f.resume = TRUE
        <4>1. f.resume \in BOOLEAN
          BY <1>0, Servers DEF RunTypes, DTypes, Flags
        <4> QED BY <4>1 DEF Resuming
      <3>3. d'.pc = "probe" /\ d'.resume /\ d'.completed = {}
        BY <3>1, <3>2 DEF NewDownloader
      <3> QED BY <1>c, <1>f, <1>u, <1>x, <2>1, <2>3, <3>3 DEF Backed, Filled
    <2> QED BY <1>1, <2>2, <2>3 DEF StartRun
  <1>2. CASE UserRemoves
    <2>1. d' = d /\ d.pc = "off" /\ ~exists' /\ exit' = "none"
      BY <1>2 DEF UserRemoves, At
    <2> QED BY <1>f, <1>t, <1>x, <2>1
  <1>3. CASE Crash \/ StreamCancelled
    <2>1. PICK code \in {"killed", "interrupted"} : End(code)
      BY <1>3 DEF Crash, StreamCancelled
    <2>2. UNCHANGED <<exists, data, sidecar>>
      BY <1>3 DEF Crash, StreamCancelled, disk
    <2>3. d'.pc = "off" /\ d'.resume = d.resume /\ d'.completed = {} /\ exit' = code
      BY <1>0, <2>1, EndTypes
    <2> QED BY <1>c, <1>f, <1>t, <1>u, <1>x, <2>1, <2>2, <2>3 DEF Backed, Filled
  \* A save claims what is recorded, and of the running task what is written
  \* or will be counted as unbacked.
  <1>v. ASSUME SaveSidecar, d.pc = "range", UNCHANGED <<exists, data>>
        PROVE  exists' => Filled(Claims \ unbacked)'
    <2>1. PICK pair \in SUBSET Pieces :
             /\ sidecar' = Saved(d.url, pair)
             /\ unbacked' = unbacked \cup (pair \ (d.fetched \cup d.completed))
      BY <1>v DEF SaveSidecar
    <2>2. Claims' = d.completed \cup pair
      BY <2>1 DEF Saved, Claims
    <2>3. Claims' \ unbacked' \subseteq (d.completed \ unbacked) \cup d.fetched
      BY <2>1, <2>2
    <2>4. Filled(d.fetched) /\ (exists => Filled(d.completed \ unbacked))
      BY <1>v DEF Progress, Backed
    <2> QED BY <1>v, <2>3, <2>4 DEF Filled
  <1>4. CASE RangeCancelled
    <2>1. End("interrupted") /\ UNCHANGED <<exists, data>> /\ d.pc = "range"
          /\ (SaveSidecar \/ sidecar' = sidecar)
      BY <1>4 DEF RangeCancelled, At
    <2>2. d'.pc = "off" /\ d'.resume = d.resume /\ d'.completed = {} /\ exit' = "interrupted"
      BY <1>0, <2>1, EndTypes
    <2>3. exists' => Filled(Claims \ unbacked)'
      BY <1>c, <1>u, <1>v, <2>1 DEF Backed, Filled
    <2> QED BY <1>f, <1>t, <1>x, <2>1, <2>2, <2>3 DEF Filled
  <1>5. CASE FinalizeOk
    <2>1. End("ok") /\ UNCHANGED <<exists, data>> /\ sidecar' = NoSidecar /\ d.pc = "finalize"
      BY <1>5, <1>t DEF FinalizeOk, Cleared, At
    <2>2. d'.pc = "off" /\ d'.resume = d.resume /\ d'.completed = {} /\ d'.url = d.url
      BY <1>0, <2>1, EndTypes
    <2>3. Len(data) = S.size /\ \A p \in Pieces \ unbacked : data[p] # Hole
      BY <2>1 DEF Backed, Filled
    <2>4. SuccessFilled'
      BY <1>0, <1>u, <2>1, <2>2, <2>3, SameServer DEF SuccessFilled
    <2> QED BY <1>f, <1>n, <1>t, <2>1, <2>2, <2>4 DEF Filled
  <1>6. CASE ManifestFail \/ HashFail \/ SyncFail
    <2>1. (End("unverified") \/ End("failed")) /\ UNCHANGED <<exists, data>>
      BY <1>6 DEF ManifestFail, HashFail, SyncFail
    <2>2. /\ d'.pc = "off" /\ d'.resume = d.resume /\ d'.completed = {}
          /\ exit' \in {"unverified", "failed"}
      BY <1>0, <2>1, EndTypes
    <2>3. Claims' \subseteq Claims \/ Claims' \subseteq d.completed
      <3>1. \/ sidecar' = sidecar \/ sidecar' = NoSidecar
            \/ sidecar' = [Saved(1, {}) EXCEPT !.done = Trimmed]
        BY <1>6 DEF ManifestFail, HashFail, SyncFail, Cleared
      <3> QED BY <1>c, <1>n, <3>1 DEF Trimmed, Saved, Claims
    <2> QED BY <1>f, <1>t, <1>u, <1>x, <2>1, <2>2, <2>3 DEF Backed, Filled
  <1>7. CASE ProbeFail \/ AllocateFail
    <2>1. (\E err : Failover(err)) /\ UNCHANGED <<exists, data, sidecar>> /\ exit = "none"
      BY <1>7 DEF ProbeFail, AllocateFail, disk, At, Progress
    <2>2. /\ d'.resume = d.resume /\ d'.pc \in {"off", "probe"} /\ exit' # "ok"
          /\ d'.completed = {} \/ d'.completed = d.completed
      BY <1>0, <2>1, FailoverTypes
    <2> QED BY <1>c, <1>f, <1>t, <1>u, <1>x, <2>1, <2>2 DEF Backed, Filled
  <1>8. CASE CleanUp
    <2>1. (\E err : Failover(err)) /\ UNCHANGED <<exists, data>> /\ sidecar' = NoSidecar
          /\ exit = "none"
      BY <1>8, <1>t DEF CleanUp, At, Progress
    <2>2. /\ d'.resume = d.resume /\ d'.pc \in {"off", "probe"} /\ exit' # "ok"
          /\ d'.completed = {} \/ d'.completed = d.completed
      BY <1>0, <2>1, FailoverTypes
    <2> QED BY <1>f, <1>n, <1>t, <1>u, <1>x, <2>1, <2>2 DEF Backed, Filled
  <1>9. CASE Interrupt
    <2>1. /\ d'.pc = d.pc /\ d'.url = d.url /\ d'.totalSize = d.totalSize /\ d'.resume = d.resume
          /\ d'.completed = d.completed /\ d'.skip = d.skip
      BY <1>0, <1>9 DEF Interrupt, DTypes
    <2>2. UNCHANGED <<exists, data, sidecar, unbacked, exit>>
      BY <1>9 DEF Interrupt, disk
    <2>3. S' = S /\ Pieces' = Pieces
      BY <1>0, <2>1, SameServer
    <2>4. Backed'
      BY <1>c, <2>1, <2>2, <2>3 DEF Backed, Filled, StaleFile
    <2> QED BY <2>2, <2>3, <2>4 DEF SuccessFilled
  <1>10. CASE ProbeOk
    <2>1. /\ d'.pc = "resolve" /\ d'.resume = d.resume /\ exit' = "none" /\ exists' = exists
          /\ \/ data' = data /\ sidecar' = sidecar /\ d'.completed = d.completed
             \/ sidecar' = NoSidecar /\ d'.completed = {}
      BY <1>0, <1>10 DEF ProbeOk, DTypes, At, Progress
    <2> QED BY <1>c, <1>f, <1>n, <1>t, <1>u, <1>x, <2>1 DEF Backed, Filled
  <1>11. CASE ResolveResume
    <2>1. /\ d'.pc = "allocate" /\ d'.resume = d.resume /\ exit' = "none"
          /\ d'.completed = Reuse /\ d'.skip = Reuse /\ d'.totalSize = d.totalSize
          /\ exists' = exists /\ data' = data
      BY <1>0, <1>11, <1>t DEF ResolveResume, DTypes, At, Progress
    <2>2. sidecar' = IF StaleFile THEN NoSidecar ELSE sidecar
      BY <1>11, <1>t DEF ResolveResume
    <2>3. StaleFile' = StaleFile
      BY <2>1 DEF StaleFile
    <2>4. CASE StaleFile
      BY <1>n, <1>t, <1>u, <1>x, <2>1, <2>2, <2>3, <2>4 DEF Reuse, Backed, Filled
    <2>5. CASE ~StaleFile
      <3>1. exists /\ sidecar' = sidecar /\ Reuse \in {Claims, d.completed, {}}
        BY <2>2, <2>5 DEF StaleFile, Reuse
      <3> QED BY <1>c, <1>t, <1>u, <1>x, <2>1, <2>3, <2>5, <3>1 DEF Backed, Filled
    <2> QED BY <2>4, <2>5
  <1>12. CASE Allocate
    <2>1. /\ d'.pc \in {"range", "single"} /\ d'.resume = d.resume /\ exit' = "none"
          /\ d'.completed = d.completed /\ d'.skip = d.skip /\ sidecar' = sidecar
      BY <1>0, <1>12 DEF Allocate, DTypes, At, Progress
    <2>2. d.pc = "allocate" /\ d.skip \subseteq d.completed
      BY <1>12 DEF Allocate, At, Backed
    <2>3. CASE StaleFile
      BY <1>c, <1>t, <1>x, <2>1, <2>2, <2>3 DEF Backed, Filled
    <2>4. CASE ~StaleFile
      <3>1. exists /\ data' = data
        BY <1>12, <1>t, <2>4 DEF Allocate, StaleFile
      <3> QED BY <1>c, <1>t, <1>u, <1>x, <2>1, <2>2, <3>1 DEF Backed, Filled
    <2> QED BY <2>3, <2>4
  <1>13. CASE FetchPiece
    <2>0. d.pc = "range" /\ exit' = "none" /\ exists /\ exists' = exists /\ sidecar' = sidecar
      BY <1>13 DEF FetchPiece, At, Progress
    <2>1. PICK p \in Pieces : /\ data' = [data EXCEPT ![p] = S.version]
                              /\ d' = [d EXCEPT !.fetched = @ \cup {p}]
      BY <1>13 DEF FetchPiece
    <2>2. DOMAIN data' = DOMAIN data
          /\ \A i \in DOMAIN data : data'[i] = IF i = p THEN S.version ELSE data[i]
      BY <1>s, <1>t, <2>1, OverwriteSeq
    <2>3. /\ d'.pc = "range" /\ d'.resume = d.resume /\ d'.skip = d.skip
          /\ d'.completed = d.completed
      BY <1>0, <2>0, <2>1 DEF DTypes
    <2>4. Filled(Claims \ unbacked)' /\ Filled(d.completed \ unbacked)'
      BY <1>c, <1>s, <1>u, <2>0, <2>2, <2>3 DEF Backed, Filled
    <2> QED BY <1>t, <1>x, <2>0, <2>3, <2>4 DEF Backed
  <1>20. CASE RecordPiece
    <2>0. d.pc = "range" /\ exit' = "none" /\ exists /\ UNCHANGED <<exists, data, sidecar>>
      BY <1>20 DEF RecordPiece, At, Progress
    <2>1. PICK p \in d.fetched : d' = [d EXCEPT !.completed = @ \cup {p}]
      BY <1>20 DEF RecordPiece
    <2>2. /\ d'.pc = "range" /\ d'.resume = d.resume /\ d'.skip = d.skip
          /\ d'.completed = d.completed \cup {p}
      BY <1>0, <2>0, <2>1 DEF DTypes
    <2>3. p \in DOMAIN data /\ data[p] # Hole
      BY <2>0, <2>1 DEF Progress, Filled
    <2>4. Filled(Claims \ unbacked)' /\ Filled(d.completed \ unbacked)'
      BY <1>c, <1>u, <2>0, <2>2, <2>3 DEF Backed, Filled
    <2> QED BY <1>t, <1>x, <2>0, <2>2, <2>4 DEF Backed
  <1>14. CASE RangeDone
    <2>0. /\ d.pc = "range" /\ exit' = "none" /\ UNCHANGED <<exists, data, sidecar>> /\ exists
          /\ unbacked' = unbacked \cup (Pieces \ (d.skip \cup d.fetched))
      BY <1>14 DEF RangeDone, At, Progress, disk
    <2>1. /\ d'.pc = "finalize" /\ d'.resume = d.resume /\ d'.completed = d.completed /\ d'.url = d.url
      BY <1>0, <1>14 DEF RangeDone, Goto, DTypes
    <2>2. Len(data) = S.size
      BY <1>s, <2>0 DEF Progress
    <2>3. Filled(Pieces \ unbacked')
      <3>1. Pieces \ unbacked' \subseteq (d.completed \ unbacked) \cup d.fetched
        BY <2>0 DEF Backed
      <3> QED BY <2>0, <3>1 DEF Backed, Progress, Filled
    <2>4. Len(data') = S'.size /\ Filled(Pieces \ unbacked)'
      BY <1>0, <2>0, <2>1, <2>2, <2>3, SameServer DEF Filled
    <2>5. Filled(Claims \ unbacked)' /\ Filled(d.completed \ unbacked)'
      BY <1>c, <1>u, <2>0, <2>1 DEF Backed, Filled
    <2> QED BY <1>t, <1>x, <2>0, <2>1, <2>4, <2>5 DEF Backed
  <1>15. CASE RangeNotSupported \/ DownloadFail
    <2>1. /\ d'.pc \in {"single", "failed"} /\ d'.resume = d.resume /\ d'.completed = d.completed
      BY <1>0, <1>15 DEF RangeNotSupported, DownloadFail, Goto, DTypes
    <2>2. exit' = "none" /\ UNCHANGED <<exists, data, sidecar>>
      BY <1>15 DEF RangeNotSupported, DownloadFail, At, Progress, disk
    <2> QED BY <1>c, <1>t, <1>u, <1>x, <2>1, <2>2 DEF Backed, Filled
  <1>16. CASE StreamPiece
    <2>0. d.pc = "single" /\ exit' = "none" /\ exists /\ exists' = exists /\ sidecar' = sidecar
      BY <1>16 DEF StreamPiece, At, Progress
    <2>1. PICK next \in Nat :
             /\ DOMAIN data \subseteq DOMAIN data' /\ data'[next] # Hole
             /\ \A i \in DOMAIN data : i # next => data'[i] = data[i]
      BY <1>16, StreamWrite
    <2>2. d'.pc = "single" /\ d'.resume = d.resume /\ d'.completed = d.completed
      BY <1>0, <1>16, <2>0 DEF StreamPiece, DTypes
    <2>3. Filled(Claims \ unbacked)' /\ Filled(d.completed \ unbacked)'
      BY <1>c, <1>u, <2>0, <2>1, <2>2 DEF Backed, Filled
    <2> QED BY <1>t, <1>x, <2>0, <2>2, <2>3 DEF Backed
  <1>17. CASE StreamDone
    <2>0. d.pc = "single" /\ exit' = "none" /\ exists /\ exists' = exists /\ d.fetched = Pieces
      BY <1>17 DEF StreamDone, At, Progress
    <2>1. CASE d.totalSize > 0
      <3>1. Goto("finalize") /\ data' = data /\ sidecar' = sidecar
        BY <1>17, <2>1 DEF StreamDone
      <3>2. d'.pc = "finalize" /\ d'.resume = d.resume /\ d'.completed = d.completed /\ d'.url = d.url
        BY <1>0, <3>1 DEF Goto, DTypes
      <3>3. Len(data) = S.size /\ Filled(Pieces)
        BY <1>s, <2>0, <2>1 DEF Progress
      <3>4. Len(data') = S'.size /\ Filled(Pieces \ unbacked)'
        BY <1>0, <3>1, <3>2, <3>3, SameServer DEF Filled
      <3>5. Filled(Claims \ unbacked)' /\ Filled(d.completed \ unbacked)'
        BY <1>c, <1>u, <2>0, <3>1, <3>2 DEF Backed, Filled
      <3> QED BY <1>t, <1>x, <2>0, <3>2, <3>4, <3>5 DEF Backed
    <2>2. CASE ~(d.totalSize > 0)
      <3>1. data' = SubSeq(data, 1, S.size) /\ sidecar' = NoSidecar
        BY <1>17, <1>t, <2>2 DEF StreamDone
      <3>2. d'.pc = "finalize" /\ d'.resume = d.resume /\ d'.completed = {} /\ d'.url = d.url
        BY <1>0, <1>17, <1>t, <2>2 DEF StreamDone, DTypes
      <3>3. /\ Len(data') = S.size /\ data' \in Seq(Version)
            /\ \A p \in Pieces : data'[p] # Hole
        BY <2>0, <3>1, CutSeq
      <3>4. DOMAIN data' = Pieces
        BY <3>3, LenProperties DEF Pieces
      <3>5. Len(data') = S'.size /\ Filled(Pieces \ unbacked)'
        BY <1>0, <3>2, <3>3, <3>4, SameServer DEF Filled
      <3>6. Filled(Claims \ unbacked)' /\ Filled(d.completed \ unbacked)'
        BY <1>n, <3>1, <3>2 DEF Filled
      <3> QED BY <1>t, <1>x, <2>0, <3>2, <3>5, <3>6 DEF Backed
    <2> QED BY <2>1, <2>2
  <1>18. CASE SaveResume
    <2>1. UNCHANGED <<env, exit, d, exists, data>> /\ SaveSidecar /\ d.pc = "range"
      BY <1>18 DEF SaveResume, At
    <2>2. exists' => Filled(Claims \ unbacked)' /\ Filled(d.completed \ unbacked)'
      BY <1>u, <1>v, <2>1 DEF Backed, Filled
    <2> QED BY <1>x, <2>1, <2>2 DEF Backed, Progress
  <1>19. CASE UNCHANGED vars
    <2>1. UNCHANGED <<env, exit, d, exists, data, sidecar, unbacked>>
      BY <1>19 DEF vars, disk
    <2> QED BY <1>c, <2>1 DEF Backed, Filled, StaleFile, S, Pieces, SuccessFilled
  <1> QED BY <1>1, <1>2, <1>3, <1>4, <1>5, <1>6, <1>7, <1>8, <1>9, <1>10, <1>11, <1>12, <1>13,
             <1>14, <1>15, <1>16, <1>17, <1>18, <1>19, <1>20 DEF Next

LEMMA StepInv == IInv /\ [Next]_vars => IInv'
  <1> SUFFICES ASSUME IInv, [Next]_vars PROVE IInv'
    OBVIOUS
  <1>1. Types' /\ Progress'
    BY TypesInv, ProgressInv DEF IInv
  <1>2. Resuming' => Resuming
    BY SameEnv DEF Resuming
  <1>3. Resuming => Backed' /\ SuccessFilled'
    BY BackedInv
  <1> QED BY <1>1, <1>2, <1>3 DEF IInv

LEMMA Invariant == Spec => []IInv
  <1> QED BY InitInv, StepInv, PTL DEF Spec

-----------------------------------------------------------------------------
(* One run: every action keeps FirstRun. *)

LEMMA FailoverMore ==
  ASSUME RunTypes, DTypes, NEW err, Failover(err), d'.pc # "off"
  PROVE  d'.pc = "probe" /\ d'.url = d.url + 1 /\ d'.skip = {} /\ d'.manifest = d.manifest
  <1>1. ~End("interrupted") /\ ~End("failed")
    BY DEF End, DTypes
  <1>2. d' = [d EXCEPT !.pc = "probe", !.url = @ + 1, !.skip = {}, !.fetched = {}]
    BY <1>1 DEF Failover
  <1> QED BY <1>2 DEF DTypes

LEMMA FreshInv == Types /\ Fresh /\ [Next]_vars => Fresh'
  <1> SUFFICES ASSUME Types, Fresh, [Next]_vars, runs' = 0
               PROVE  d'.pc = "off" /\ sidecar' = NoSidecar /\ ~exists' /\ exit' = "none"
    BY DEF Fresh
  <1>0. runs \in Nat
    BY TypesParts, MaxRunsAssumption DEF RunTypes
  <1>1. runs = 0 /\ d.pc = "off" /\ sidecar = NoSidecar /\ ~exists /\ exit = "none"
    <2>1. runs' = runs \/ runs' = runs + 1
      BY DEF Next, vars, At, StartRun, UserRemoves, Crash, Interrupt, ProbeOk, ProbeFail,
         ResolveResume, Allocate, AllocateFail, FetchPiece, RecordPiece, SaveResume, RangeDone,
         RangeNotSupported, RangeCancelled, StreamPiece, StreamDone, StreamCancelled,
         DownloadFail, CleanUp, FinalizeOk, ManifestFail, HashFail, SyncFail
    <2> QED BY <1>0, <2>1 DEF Fresh
  <1>2. UNCHANGED vars
    BY <1>0, <1>1 DEF Next, At, StartRun, UserRemoves, Crash, Interrupt, ProbeOk, ProbeFail,
         ResolveResume, Allocate, AllocateFail, FetchPiece, RecordPiece, SaveResume, RangeDone,
         RangeNotSupported, RangeCancelled, StreamPiece, StreamDone, StreamCancelled,
         DownloadFail, CleanUp, FinalizeOk, ManifestFail, HashFail, SyncFail
  <1> QED BY <1>1, <1>2 DEF vars

\* A step that stays in the run, other than an end, and the run it is in.
LEMMA SameRun ==
  ASSUME Types, Progress, Fresh, [Next]_vars, runs' = 1, d'.pc # "off"
  PROVE  \/ \E f \in env.flags : d' = NewDownloader(f) /\ exit' = "none" /\ sidecar' = NoSidecar
         \/ runs = 1 /\ d.pc # "off"
  <1>0. DTypes /\ runs \in Nat
    BY TypesParts, MaxRunsAssumption DEF RunTypes
  <1>1. CASE StartRun
    BY <1>0, <1>1 DEF StartRun, Fresh, disk
  <1>2. CASE ~StartRun
    BY <1>0, <1>2 DEF Next, vars, At, UserRemoves, Crash, Interrupt, ProbeOk, ProbeFail,
         ResolveResume, Allocate, AllocateFail, FetchPiece, RecordPiece, SaveResume, RangeDone,
         RangeNotSupported, RangeCancelled, StreamPiece, StreamDone, StreamCancelled,
         DownloadFail, CleanUp, FinalizeOk, ManifestFail, HashFail, SyncFail
  <1> QED BY <1>1, <1>2

ManifestLoaded == env.manifest /\ d.pc \in {"range", "single", "finalize"} => d.manifest

LEMMA ManifestInv == Types /\ ManifestLoaded /\ [Next]_vars => ManifestLoaded'
  <1> SUFFICES ASSUME Types, ManifestLoaded, [Next]_vars, env.manifest,
                      d'.pc \in {"range", "single", "finalize"}
               PROVE  d'.manifest
    BY SameEnv DEF ManifestLoaded
  <1>0. RunTypes /\ DTypes /\ d.manifest \in BOOLEAN
    BY TypesParts DEF DTypes
  <1>1. CASE Allocate
    BY <1>0, <1>1 DEF Allocate, DTypes
  <1>2. CASE ProbeFail \/ AllocateFail \/ CleanUp
    <2>1. \E err : Failover(err)
      BY <1>2 DEF ProbeFail, AllocateFail, CleanUp
    <2> QED BY <1>0, <2>1, FailoverMore
  <1>3. CASE StartRun \/ UserRemoves \/ Crash \/ Interrupt \/ ProbeOk \/ ResolveResume \/ SaveResume
             \/ UNCHANGED vars
    <2>1. CASE UNCHANGED d
      BY <2>1 DEF ManifestLoaded
    <2>2. CASE d'.pc = d.pc /\ d'.manifest = d.manifest
      BY <2>2 DEF ManifestLoaded
    <2>3. CASE StartRun /\ d' # d
      BY <2>3 DEF StartRun, NewDownloader
    <2>4. CASE Crash
      BY <1>0, <2>4, EndTypes, SameEnv DEF Crash
    <2>5. CASE Interrupt \/ ProbeOk \/ ResolveResume
      <3>1. d'.pc \in {"resolve", "allocate"} \/ (d'.pc = d.pc /\ d'.manifest = d.manifest)
        BY <1>0, <2>5 DEF Interrupt, ProbeOk, ResolveResume, Goto, DTypes
      <3> QED BY <2>2, <3>1
    <2> QED BY <1>3, <2>1, <2>3, <2>4, <2>5 DEF UserRemoves, SaveResume, At, vars
  <1>4. CASE FetchPiece \/ RecordPiece \/ RangeDone \/ RangeNotSupported \/ StreamPiece
             \/ StreamDone \/ DownloadFail
    <2>1. d.pc \in {"range", "single"} /\ d'.manifest = d.manifest
      BY <1>0, <1>4 DEF FetchPiece, RecordPiece, RangeDone, RangeNotSupported, StreamPiece, StreamDone,
         DownloadFail, At, Goto, DTypes
    <2> QED BY <2>1 DEF ManifestLoaded
  <1>5. CASE RangeCancelled \/ StreamCancelled \/ FinalizeOk \/ ManifestFail \/ HashFail \/ SyncFail
    <2>1. \E code : End(code)
      BY <1>5 DEF RangeCancelled, StreamCancelled, FinalizeOk, ManifestFail, HashFail, SyncFail
    <2> QED BY <1>0, <2>1, SameEnv, EndTypes
  <1> QED BY <1>1, <1>2, <1>3, <1>4, <1>5 DEF Next

LEMMA OneVersionInv ==
  ASSUME Types, Progress, Fresh, [Next]_vars, runs' = 1, d'.pc # "off", ~env.manifest,
         runs = 1 /\ d.pc # "off" => OneVersion
  PROVE  OneVersion'
  <1>0. RunTypes /\ DTypes /\ FileTypes /\ env' = env /\ data \in Seq(Version)
    BY TypesParts, SameEnv DEF FileTypes
  <1>s. S.size \in Nat \ {0} /\ S.version \in Version /\ d.url \in Nat
    BY <1>0, Servers DEF RunTypes, DTypes, Version
  <1>n. NoSidecar.url = 0
    BY DEF NoSidecar
  <1>1. CASE \E f \in env.flags : d' = NewDownloader(f) /\ sidecar' = NoSidecar
    BY <1>n, <1>1 DEF NewDownloader, OneVersion
  <1>2. CASE d.pc # "off" /\ OneVersion
    <2>1. /\ d.manifest = FALSE /\ d.skip = {} /\ sidecar.url <= d.url /\ sidecar.url \in Nat
          /\ d.url >= 1 /\ d.url \in Nat
      <3>1. d.manifest \in BOOLEAN /\ d.url \in DOMAIN env.servers /\ sidecar.url \in Nat
        BY TypesParts DEF DTypes, SidecarTypes
      <3>2. d.url >= 1
        BY <1>0, <1>s, <3>1, Servers DEF RunTypes, DTypes
      <3> QED BY <1>2, <1>s, <3>1, <3>2 DEF OneVersion
    \* At "allocate" and "failed" nothing is asked but the first three conjuncts.
    <2>f. ASSUME d'.pc \in {"allocate", "failed"}, d'.manifest = FALSE, d'.skip = {}, sidecar'.url <= d'.url
          PROVE  OneVersion'
      BY <2>f DEF OneVersion
    <2>2. CASE StartRun \/ UserRemoves
      BY <1>2, <2>2 DEF StartRun, UserRemoves, At
    <2>3. CASE Crash \/ RangeCancelled \/ StreamCancelled \/ FinalizeOk \/ ManifestFail \/ HashFail \/ SyncFail
      <3>1. \E code : End(code)
        BY <2>3 DEF Crash, RangeCancelled, StreamCancelled, FinalizeOk, ManifestFail, HashFail, SyncFail
      <3> QED BY <1>0, <3>1, EndTypes
    <2>4. CASE ProbeFail \/ AllocateFail \/ CleanUp
      <3>1. (\E err : Failover(err)) /\ sidecar' \in {sidecar, NoSidecar}
        BY <2>4 DEF ProbeFail, AllocateFail, CleanUp, disk
      <3>2. d'.pc = "probe" /\ d'.url = d.url + 1 /\ d'.skip = {} /\ d'.manifest = FALSE
        BY <1>0, <2>1, <3>1, FailoverMore
      <3>3. sidecar'.url < d'.url /\ sidecar'.url <= d'.url
        BY <1>s, <1>n, <2>1, <3>1, <3>2
      <3> QED BY <2>1, <3>2, <3>3 DEF OneVersion
    <2>5. CASE Interrupt
      <3>1. /\ d'.pc = d.pc /\ d'.url = d.url /\ d'.manifest = d.manifest /\ d'.skip = d.skip
            /\ d'.fetched = d.fetched /\ UNCHANGED <<data, sidecar, unbacked>>
        BY <1>0, <2>5 DEF Interrupt, DTypes, disk
      <3> QED BY <1>0, <1>2, <3>1, SameServer DEF OneVersion
    <2>6. CASE ProbeOk
      <3>1. /\ d.pc = "probe" /\ d'.pc = "resolve" /\ d'.url = d.url /\ d'.manifest = FALSE
            /\ d'.skip = {} /\ sidecar' \in {sidecar, NoSidecar}
        BY <1>0, <2>1, <2>6 DEF ProbeOk, At, DTypes
      <3>2. sidecar'.url < d'.url /\ sidecar'.url <= d'.url
        BY <1>2, <1>n, <2>1, <3>1 DEF OneVersion
      <3> QED BY <2>1, <3>1, <3>2 DEF OneVersion
    <2>7. CASE ResolveResume
      <3>1. sidecar.url < d.url
        BY <1>2, <2>7 DEF OneVersion, ResolveResume, At
      <3>2. Reuse = {}
        BY <2>1, <3>1 DEF Reuse, Matching
      <3>3. d'.pc = "allocate" /\ d'.url = d.url /\ d'.manifest = FALSE /\ d'.skip = {}
        BY <1>0, <2>1, <2>7, <3>2 DEF ResolveResume, Goto, DTypes
      <3>4. sidecar' \in {sidecar, NoSidecar}
        BY <2>7 DEF ResolveResume
      <3>5. sidecar'.url <= d'.url
        BY <1>n, <2>1, <3>3, <3>4
      <3> QED BY <2>f, <3>3, <3>5
    <2>8. CASE Allocate
      <3>1. /\ d.pc = "allocate" /\ d.fetched = {} /\ d'.pc \in {"range", "single"} /\ d'.url = d.url
            /\ d'.manifest = FALSE /\ d'.skip = {} /\ d'.fetched = {} /\ sidecar' = sidecar
        BY <1>0, <2>1, <2>8 DEF Allocate, At, DTypes, Progress
      <3> QED BY <2>1, <3>1 DEF OneVersion
    <2>9. CASE FetchPiece
      <3>0. d.pc = "range" /\ sidecar' = sidecar /\ Len(data) = S.size
        BY <1>s, <2>9 DEF FetchPiece, At, Progress
      <3>1. PICK p \in Pieces : /\ data' = [data EXCEPT ![p] = S.version]
                                /\ d' = [d EXCEPT !.fetched = @ \cup {p}]
        BY <2>9 DEF FetchPiece
      <3>2. /\ d'.pc = "range" /\ d'.url = d.url /\ d'.manifest = FALSE /\ d'.skip = {}
            /\ d'.fetched = d.fetched \cup {p}
        BY <1>0, <2>1, <3>0, <3>1 DEF DTypes
      <3>3. \A i \in DOMAIN data : data'[i] = IF i = p THEN S.version ELSE data[i]
        BY <1>0, <1>s, <3>1, OverwriteSeq
      <3>4. p \in DOMAIN data /\ d.fetched \subseteq DOMAIN data
        BY <1>0, <1>s, <3>0, <3>1, LenProperties DEF Pieces, Progress, Filled
      <3>5. \A i \in d'.fetched : data'[i] = S.version
        BY <1>2, <3>0, <3>2, <3>3, <3>4 DEF OneVersion
      <3>6. S' = S
        BY <1>0, <3>2, SameServer
      <3> QED BY <2>1, <3>0, <3>2, <3>5, <3>6 DEF OneVersion
    <2>17. CASE RecordPiece
      <3>1. /\ d'.pc = d.pc /\ d'.url = d.url /\ d'.manifest = d.manifest /\ d'.skip = d.skip
            /\ d'.fetched = d.fetched /\ data' = data /\ sidecar' = sidecar /\ d.pc = "range"
        BY <1>0, <2>17 DEF RecordPiece, At, DTypes
      <3> QED BY <1>0, <1>2, <3>1, SameServer DEF OneVersion
    <2>10. CASE SaveResume
      <3>1. d' = d /\ data' = data /\ sidecar'.url = d.url /\ d.pc = "range"
        BY <2>10 DEF SaveResume, SaveSidecar, At, Saved
      <3> QED BY <1>0, <1>2, <1>s, <3>1, SameServer DEF OneVersion
    <2>11. CASE RangeDone
      <3>1. /\ d.pc = "range" /\ d'.pc = "finalize" /\ d'.url = d.url /\ d'.manifest = FALSE
            /\ d'.skip = {} /\ sidecar' = sidecar /\ data' = data
            /\ Pieces \ unbacked' \subseteq d.fetched
        BY <1>0, <2>1, <2>11 DEF RangeDone, At, Goto, DTypes, disk
      <3>2. Len(data) = S.size /\ \A p \in Pieces \ unbacked' : data[p] = S.version
        BY <1>2, <1>s, <3>1 DEF Progress, OneVersion
      <3> QED BY <1>0, <2>1, <3>1, <3>2, SameServer DEF OneVersion
    <2>12. CASE RangeNotSupported
      <3>1. /\ d'.pc = "single" /\ d'.url = d.url /\ d'.manifest = FALSE /\ d'.skip = {}
            /\ d'.fetched = {} /\ sidecar' = sidecar
        BY <1>0, <2>1, <2>12 DEF RangeNotSupported, DTypes, disk
      <3> QED BY <2>1, <3>1 DEF OneVersion
    <2>13. CASE StreamPiece
      <3>0. d.pc = "single" /\ sidecar' = sidecar
        BY <2>13 DEF StreamPiece, At
      <3>1. PICK next \in Nat :
               /\ d' = [d EXCEPT !.fetched = @ \cup {next}]
               /\ data'[next] = S.version /\ d.fetched = 1..next - 1
               /\ \A i \in DOMAIN data : i # next => data'[i] = data[i]
        BY <2>13, StreamVersion
      <3>2. /\ d'.pc = "single" /\ d'.url = d.url /\ d'.manifest = FALSE /\ d'.skip = {}
            /\ d'.fetched = d.fetched \cup {next}
        BY <1>0, <2>1, <3>0, <3>1 DEF DTypes
      <3>3. d.fetched \subseteq DOMAIN data
        BY <3>0 DEF Progress, Filled
      <3>4. \A i \in d'.fetched : data'[i] = S.version
        BY <1>2, <3>0, <3>1, <3>2, <3>3 DEF OneVersion
      <3>5. S' = S
        BY <1>0, <3>2, SameServer
      <3> QED BY <2>1, <3>0, <3>2, <3>4, <3>5 DEF OneVersion
    <2>14. CASE StreamDone
      <3>0. d.pc = "single" /\ d.fetched = Pieces
        BY <2>14 DEF StreamDone, At
      <3>1. /\ d'.pc = "finalize" /\ d'.url = d.url /\ d'.manifest = FALSE /\ d'.skip = {}
            /\ sidecar' \in {sidecar, NoSidecar}
        BY <1>0, <2>1, <2>14 DEF StreamDone, Goto, DTypes
      <3>2. Len(data') = S.size /\ \A p \in Pieces : data'[p] = data[p]
        <4>1. CASE d.totalSize > 0
          BY <1>s, <2>14, <3>0, <4>1 DEF StreamDone, Progress
        <4>2. CASE ~(d.totalSize > 0)
          BY <2>14, <3>0, <4>2, CutSeq DEF StreamDone
        <4> QED BY <4>1, <4>2
      <3>3. \A p \in Pieces : data'[p] = S.version
        BY <1>2, <3>0, <3>2 DEF OneVersion
      <3>4. sidecar'.url <= d'.url
        BY <1>n, <2>1, <3>1
      <3>5. S' = S /\ Pieces' = Pieces
        BY <1>0, <3>1, SameServer
      <3> QED BY <3>1, <3>2, <3>3, <3>4, <3>5 DEF OneVersion
    <2>15. CASE DownloadFail
      <3>1. d'.pc = "failed" /\ d'.url = d.url /\ d'.manifest = FALSE /\ d'.skip = {} /\ sidecar' = sidecar
        BY <1>0, <2>1, <2>15 DEF DownloadFail, Goto, DTypes, disk
      <3> QED BY <2>1, <2>f, <3>1
    <2>16. CASE UNCHANGED vars
      BY <1>0, <1>2, <2>16, SameServer DEF vars, disk, OneVersion
    <2> QED BY <2>2, <2>3, <2>4, <2>5, <2>6, <2>7, <2>8, <2>9, <2>10, <2>11, <2>12, <2>13, <2>14,
               <2>15, <2>16, <2>17 DEF Next
  <1> QED BY <1>1, <1>2, SameRun

\* A success of the first run comes from finalize, where either the manifest
\* has been checked to the file's end or all pieces are the mirror's.
LEMMA UnsplicedInv ==
  ASSUME Types, Progress, Fresh, FirstRunUnspliced, ManifestLoaded, [Next]_vars,
         runs = 1 /\ d.pc # "off" /\ ~env.manifest => OneVersion
  PROVE  FirstRunUnspliced'
  <1> SUFFICES ASSUME runs' = 1, Reached', exit' = "ok"
               PROVE  \A p, q \in DOMAIN data' \ Doubtful' : data'[p] = data'[q]
    BY DEF FirstRunUnspliced, Unspliced
  <1>0. RunTypes /\ DTypes /\ data \in Seq(Version) /\ env' = env /\ runs \in Nat
    BY TypesParts, SameEnv, MaxRunsAssumption DEF RunTypes, FileTypes
  <1>s. /\ S.size \in Nat \ {0} /\ env.servers[1].size \in Nat \ {0} /\ env.manifest \in BOOLEAN
        /\ Len(data) \in Nat /\ DOMAIN data = 1..Len(data)
    BY <1>0, Servers, LenProperties DEF RunTypes, DTypes
  <1>1. CASE FinalizeOk
    <2>1. /\ d.pc = "finalize" /\ runs = 1 /\ data' = data /\ unbacked' = unbacked
          /\ (d.manifest => BadChunks = {})
      BY <1>1 DEF FinalizeOk, At
    <2>2. CASE env.manifest
      <3>1. BadChunks = {}
        BY <2>1, <2>2 DEF ManifestLoaded
      <3>2. DOMAIN WantedFile = 1..Len(WantedFile) /\ Len(data) <= Len(WantedFile)
            /\ Len(WantedFile) = env.servers[1].size
        <4>1. WantedFile \in [1..env.servers[1].size -> Version]
          BY DEF WantedFile, Wanted, Version
        <4>2. Len(WantedFile) = env.servers[1].size /\ DOMAIN WantedFile = 1..env.servers[1].size
          BY <1>s, <4>1, ArraySeq
        <4>3. WantedFile' = WantedFile
          BY <1>0 DEF WantedFile
        <4> QED BY <1>0, <2>1, <2>2, <4>2, <4>3 DEF Reached
      <3>3. \A p \in DOMAIN data : p \in DOMAIN WantedFile
        BY <1>s, <3>2
      <3>4. \A p \in DOMAIN data : data[p] = Wanted
        BY <3>1, <3>3 DEF BadChunks
      <3> QED BY <2>1, <3>4
    <2>3. CASE ~env.manifest
      <3>1. Len(data) = S.size /\ \A p \in Pieces \ unbacked : data[p] = S.version
        BY <2>1, <2>3 DEF OneVersion
      <3>2. DOMAIN data = Pieces
        BY <1>s, <3>1 DEF Pieces
      <3>3. Doubtful' = unbacked
        BY <1>0, <2>1, <2>3 DEF Doubtful
      <3> QED BY <2>1, <3>1, <3>2, <3>3
    <2> QED BY <2>2, <2>3
  <1>2. CASE ~FinalizeOk
    <2>1. runs' = runs /\ exit = "ok" /\ d.pc = "off" /\ UNCHANGED <<data, unbacked>>
      <3>1. d.pc # "off" => exit = "none"
        BY DEF Progress
      <3>2. CASE StartRun
        BY <1>0, <3>2 DEF StartRun, Fresh
      <3>3. CASE UserRemoves \/ Crash \/ UNCHANGED vars
        BY <3>1, <3>3 DEF UserRemoves, Crash, End, At, vars, disk
      <3>4. CASE ProbeFail \/ AllocateFail \/ CleanUp
        <4>1. (\E err : Failover(err)) /\ exit = "none"
          BY <3>1, <3>4 DEF ProbeFail, AllocateFail, CleanUp, At
        <4> QED BY <1>0, <4>1, FailoverTypes
      <3> QED BY <1>2, <3>1, <3>2, <3>3, <3>4 DEF Next, At, Interrupt, ProbeOk,
         ResolveResume, Allocate, FetchPiece, RecordPiece, SaveResume, RangeDone,
         RangeNotSupported, RangeCancelled, StreamPiece, StreamDone, StreamCancelled,
         DownloadFail, ManifestFail, HashFail, SyncFail, End
    <2>2. Reached
      BY <1>0, <2>1 DEF Reached, WantedFile
    <2>3. Doubtful' = Doubtful
      BY <1>0, <2>1 DEF Doubtful
    <2> QED BY <2>1, <2>2, <2>3 DEF FirstRunUnspliced, Unspliced
  <1> QED BY <1>1, <1>2

LEMMA FirstRunInv == Spec => []FirstRun
  <1>1. Init => FirstRun
    BY DEF Init, NewDownloader, FirstRun, Fresh, FirstRunUnspliced
  <1>2. IInv /\ FirstRun /\ [Next]_vars => FirstRun'
    <2> SUFFICES ASSUME Types, Progress, FirstRun, [Next]_vars PROVE FirstRun'
      BY DEF IInv
    <2>1. Fresh /\ FirstRunUnspliced /\ ManifestLoaded
          /\ (runs = 1 /\ d.pc # "off" /\ ~env.manifest => OneVersion)
      BY DEF FirstRun, ManifestLoaded
    <2>2. Fresh' /\ ManifestLoaded' /\ FirstRunUnspliced'
      BY <2>1, FreshInv, ManifestInv, UnsplicedInv
    <2>3. runs' = 1 /\ d'.pc # "off" /\ ~env'.manifest => OneVersion'
      BY <2>1, OneVersionInv, SameEnv
    <2> QED BY <2>2, <2>3 DEF FirstRun, ManifestLoaded
  <1> QED BY <1>1, <1>2, Invariant, PTL DEF Spec

-----------------------------------------------------------------------------
\* The disk, the Downloader and the exit code keep their types.
THEOREM TypeCorrect == Spec => []TypeOK
  <1>1. IInv => TypeOK
    BY DEF IInv, Types
  <1> QED BY <1>1, Invariant, PTL

\* resolveResume's promise: when resume is on in every run, a success leaves a
\* file of the right length, whatever servers, failovers, kills, interruptions
\* and removals came before, and its only holes are pieces that a torn pair
\* claimed (module WorkerState) or the engine gave up (module RangeEngine).
THEOREM NoHoleWhenResuming == Spec => []FilledWhenResuming
  <1>1. IInv => FilledWhenResuming
    BY DEF IInv, FilledWhenResuming, Resuming
  <1> QED BY <1>1, Invariant, PTL

\* finalize's promise: after a failed verification the sidecar claims nothing
\* that the manifest tells is wrong.
THEOREM FailureRepairable == Spec => []NoLastingCorruption
  <1>1. Init => NoLastingCorruption
    BY DEF Init, NoLastingCorruption
  <1>2. IInv /\ NoLastingCorruption /\ [Next]_vars => NoLastingCorruption'
    <2> SUFFICES ASSUME IInv, NoLastingCorruption, [Next]_vars, exit' = "unverified", d'.resume
                 PROVE  \A p \in Claims' \cap DOMAIN WantedFile' :
                            p \in DOMAIN data' /\ data'[p] = Wanted
      BY DEF NoLastingCorruption
    <2>0. RunTypes /\ DTypes /\ Progress /\ env' = env
      BY TypesParts, SameEnv DEF IInv
    <2>w. WantedFile' = WantedFile
      BY <2>0 DEF WantedFile
    <2>1. CASE ManifestFail \/ HashFail
      <3>1. End("unverified") /\ data' = data
        BY <2>1 DEF ManifestFail, HashFail
      <3>2. d.resume
        BY <2>0, <3>1, EndTypes
      <3>3. CASE ManifestFail
        BY <2>w, <3>1, <3>2, <3>3 DEF ManifestFail, Saved, Trimmed, BadChunks, Claims
      <3>4. CASE HashFail
        BY <2>w, <3>1, <3>2, <3>4 DEF HashFail, Cleared, NoSidecar, BadChunks, Claims
      <3> QED BY <2>1, <3>3, <3>4
    <2>2. CASE UNCHANGED vars
      BY <2>2, <2>w DEF vars, disk, NoLastingCorruption, Claims
    <2>3. CASE StartRun \/ UserRemoves \/ Crash \/ Interrupt \/ ProbeOk \/ ResolveResume \/ Allocate
               \/ FetchPiece \/ RecordPiece \/ SaveResume \/ RangeDone \/ RangeNotSupported \/ RangeCancelled
               \/ StreamPiece \/ StreamDone \/ StreamCancelled \/ DownloadFail \/ FinalizeOk \/ SyncFail
      <3>1. d.pc # "off" => exit # "unverified"
        BY <2>0 DEF Progress
      <3> QED BY <2>3, <3>1 DEF StartRun, UserRemoves, Crash, Interrupt, ProbeOk, ResolveResume,
                 Allocate, FetchPiece, RecordPiece, SaveResume, RangeDone, RangeNotSupported, RangeCancelled,
                 StreamPiece, StreamDone, StreamCancelled, DownloadFail, FinalizeOk, SyncFail, At, End
    <2>4. CASE ProbeFail \/ AllocateFail \/ CleanUp
      <3>1. (\E err : Failover(err)) /\ exit = "none"
        BY <2>0, <2>4 DEF ProbeFail, AllocateFail, CleanUp, At, Progress
      <3> QED BY <2>0, <3>1, FailoverTypes
    <2> QED BY <2>1, <2>2, <2>3, <2>4 DEF Next
  <1> QED BY <1>1, <1>2, Invariant, PTL DEF Spec

\* resolveResume's gate against "splicing bytes from two different files": in one
\* run a success leaves the content of one version, whatever mirrors failed, as
\* far as a manifest, if there is one, reaches to the file's end, and but for
\* pieces the engine gave up or a torn pair claimed.
THEOREM FirstRunPure == Spec => []FirstRunUnspliced
  <1>1. FirstRun => FirstRunUnspliced
    BY DEF FirstRun
  <1> QED BY <1>1, FirstRunInv, PTL
=============================================================================
