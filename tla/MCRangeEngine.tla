---- MODULE MCRangeEngine ----
(* Instances of RangeEngine for TLC. *)
EXTENDS RangeEngine

\* The seeds of an empty file of Size bytes, in chunks of three: a task long
\* enough to be stolen from, and when Size is four one to move on to.
Threes == INSTANCE RangeAlgebra WITH MaxInt <- 100, MaxSeedTasks <- 4, MinSeedChunk <- 3
MCSeeds == Threes!SeedQueue(Size, <<>>)

S(st, f, c) == [stealing |-> st, faults |-> f, cancellable |-> c]

\* One hazard at a time: stealing, a bad network, or Ctrl-C.
Noisy == FaultKinds \ {"stall"}
OneHazard == {S(TRUE, {}, FALSE), S(FALSE, Noisy, FALSE), S(FALSE, {}, TRUE)}

OnlySteal == {S(TRUE, {}, FALSE)}

\* ... and Ctrl-C on top of either, or of refusals whose bodies stall.
Hazards ==
    OneHazard \cup {S(TRUE, {}, TRUE), S(FALSE, {"transient"}, TRUE),
                    S(FALSE, {"status", "norange", "stall"}, TRUE)}
====
