---- MODULE MCLifecycle ----
(* Instances of Lifecycle for TLC: two or three servers, files of one to three
   pieces. *)
EXTENDS Lifecycle

Ranged(n, v) == [size |-> n, known |-> TRUE, ranges |-> TRUE, lies |-> FALSE, version |-> v]
Lying(n, v) == [Ranged(n, v) EXCEPT !.lies = TRUE]
Stream(n, v) == [Ranged(n, v) EXCEPT !.ranges = FALSE]
Endless(n, v) == [Stream(n, v) EXCEPT !.known = FALSE]

F(r, n, h) == [resume |-> r, noClobber |-> n, hash |-> h]
Plain == {F(TRUE, FALSE, FALSE)}
Hashed == Plain \cup {F(TRUE, FALSE, TRUE)}
NoResume == Plain \cup {F(FALSE, FALSE, FALSE)}
NoClobber == {F(TRUE, TRUE, FALSE)}

E(s1, s2, m, f) == [servers |-> <<s1, s2>>, manifest |-> m, flags |-> f, lapses |-> FALSE]
Lapsing(e) == [e EXCEPT !.lapses = TRUE]

\* A mirror with other content of the same size or of another, without ranges,
\* without a size, or breaking its promise of ranges; and three servers of which
\* the second hides that the third is of another size than the first.
Mixed == {E(Ranged(2, 1), s, m, Hashed) :
             s \in {Ranged(2, 2), Ranged(3, 1), Ranged(3, 2), Lying(2, 2), Endless(1, 2), Stream(2, 2)},
             m \in BOOLEAN}
         \cup {E(Lying(2, 1), Ranged(2, 2), FALSE, NoResume \cup NoClobber)}
         \cup {[servers |-> <<Ranged(1, 1), Endless(2, 1), Ranged(2, 2)>>,
                manifest |-> TRUE, flags |-> Plain, lapses |-> FALSE]}
         \cup {Lapsing(E(Ranged(2, 1), s, FALSE, Plain)) : s \in {Ranged(2, 2), Ranged(3, 1)}}

\* The two runs of a finding: one that leaves a sidecar, one that ignores it.
Unresumed == {E(Ranged(2, 1), Ranged(2, 1), FALSE, NoResume)}
====
