---------------------------- MODULE ResumeProofs ----------------------------
(***************************************************************************)
(* For files of any size and accumulators of any length: compacting,       *)
(* saving, restarting and trimming neither invent nor lose a claim, and    *)
(* the next run's work queue is exactly the rest of the file.              *)
(***************************************************************************)
EXTENDS ResumeAccumulator, SequenceTheorems, FiniteSetTheorems, WellFoundedInduction, TLAPS

(* Induction up to a bound, for a set in place of a predicate *)

LEMMA UpTo ==
  ASSUME NEW N \in Nat, NEW T, 0 \in T,
         \A n \in 1..N : n - 1 \in T => n \in T
  PROVE  \A n \in 0..N : n \in T
  <1> DEFINE Bad == (0..N) \ T
             R == OpToRel(<, Nat)
  <1> SUFFICES ASSUME Bad # {} PROVE FALSE
    OBVIOUS
  <1>1. PICK x \in Bad : \A y \in Bad : ~(<<y, x>> \in R)
    <2>1. IsWellFoundedOn(R, Nat)
      BY NatLessThanWellFounded DEF R
    <2>2. Bad \subseteq Nat
      OBVIOUS
    <2> HIDE DEF Bad, R
    <2> QED BY <2>1, <2>2, WFMin, Zenon
  <1>2. x \in 1..N /\ x - 1 \in Nat /\ x \in Nat
    OBVIOUS
  <1>3. x - 1 \in Bad
    BY <1>2
  <1>4. <<x - 1, x>> \in R
    BY <1>2 DEF OpToRel
  <1> QED BY <1>1, <1>3, <1>4

LEMMA LargestIsMax ==
  ASSUME NEW n \in Int, NEW s \in SUBSET Int, n \in s, \A x \in s : x <= n
  PROVE  Max(s) = n
  <1>1. \A x \in s : (\A y \in s : x >= y) => x = n
    OBVIOUS
  <1>2. (CHOOSE x \in s : \A y \in s : x >= y) = n
    BY <1>1
  <1> QED BY <1>2 DEF Max

LEMMA MaxInInterval ==
  ASSUME NEW N \in Nat
  PROVE  \A s \in SUBSET (1..N) : s # {} => Max(s) \in s
  <1> DEFINE T == {n \in 0..N : \A s \in SUBSET (1..n) : s # {} => Max(s) \in s}
  <1>1. 0 \in T
    <2>1. 1..0 = {} /\ 0 \in 0..N
      OBVIOUS
    <2>2. \A s \in SUBSET (1..0) : s = {}
      BY <2>1
    <2> QED BY <2>1, <2>2
  <1>2. ASSUME NEW n \in 1..N, n - 1 \in T PROVE n \in T
    <2> SUFFICES ASSUME NEW s \in SUBSET (1..n), s # {} PROVE Max(s) \in s
      OBVIOUS
    <2>1. CASE n \in s
      <3>1. s \in SUBSET Int /\ n \in Int /\ \A x \in s : x <= n
        OBVIOUS
      <3> QED BY <2>1, <3>1, LargestIsMax
    <2>2. CASE n \notin s
      <3>1. s \in SUBSET (1..(n-1))
        BY <2>2
      <3> QED BY <1>2, <3>1
    <2> QED BY <2>1, <2>2
  <1> HIDE DEF T
  <1>3. N \in T
    BY <1>1, <1>2, UpTo
  <1> QED BY <1>3 DEF T

\* The community modules' fold goes down the subsets of the domain by their
\* largest element: a function that does so exists.
Folds(g, A, base, N, step) ==
    /\ g \in [SUBSET (1..N) -> A]
    /\ g[{}] = base
    /\ \A s \in SUBSET (1..N) :
          s # {} => g[s] = step[<<g[s \ {Max(s)}], Max(s)>>]

LEMMA FoldExists ==
  ASSUME NEW A, NEW base \in A, NEW N \in Nat, NEW step \in [A \X (1..N) -> A]
  PROVE  \E g : Folds(g, A, base, N, step)
  <1> DEFINE Fold(n, g) ==
                /\ g[{}] = base
                /\ \A s \in SUBSET (1..n) :
                      s # {} => g[s] = step[<<g[s \ {Max(s)}], Max(s)>>]
             T == {n \in 0..N : \E g \in [SUBSET (1..n) -> A] : Fold(n, g)}
  <1>1. 0 \in T
    <2> DEFINE g == [s \in SUBSET (1..0) |-> base]
    <2>1. 0 \in 0..N /\ 1..0 = {} /\ \A s \in SUBSET (1..0) : s = {}
      OBVIOUS
    <2>2. g \in [SUBSET (1..0) -> A] /\ g[{}] = base
      OBVIOUS
    <2>3. \E k \in [SUBSET (1..0) -> A] : Fold(0, k)
      <3>1. Fold(0, g)
        BY <2>1, <2>2
      <3> HIDE DEF g, Fold
      <3> QED BY <2>2, <3>1
    <2> HIDE DEF g, Fold
    <2> QED BY <2>1, <2>3
  <1>2. ASSUME NEW n \in 1..N, n - 1 \in T PROVE n \in T
    <2>1. PICK h \in [SUBSET (1..(n-1)) -> A] : Fold(n - 1, h)
      BY <1>2
    <2> DEFINE g == [s \in SUBSET (1..n) |->
                        IF n \in s THEN step[<<h[s \ {n}], n>>] ELSE h[s]]
    <2>2. \A s \in SUBSET (1..n) : n \notin s => s \in SUBSET (1..(n-1))
      OBVIOUS
    <2>3. \A s \in SUBSET (1..n) : s \ {n} \in SUBSET (1..(n-1)) /\ s \ {n} \in SUBSET (1..n)
      OBVIOUS
    <2>4. \A s \in SUBSET (1..n) : g[s] \in A
      BY <2>2, <2>3
    <2>5. ASSUME NEW s \in SUBSET (1..n), s # {}
          PROVE  g[s] = step[<<g[s \ {Max(s)}], Max(s)>>]
      <3>1. CASE n \in s
        <4>1. Max(s) = n
          BY <3>1, LargestIsMax
        <4>2. g[s \ {n}] = h[s \ {n}]
          BY <2>3
        <4> QED BY <3>1, <4>1, <4>2
      <3>2. CASE n \notin s
        <4>1. s \in SUBSET (1..(n-1))
          BY <2>2, <3>2
        <4>2. h[s] = step[<<h[s \ {Max(s)}], Max(s)>>]
          BY <2>1, <2>5, <4>1
        <4>3. s \ {Max(s)} \in SUBSET (1..n) /\ n \notin s \ {Max(s)}
          BY <3>2
        <4>4. g[s \ {Max(s)}] = h[s \ {Max(s)}]
          BY <4>3
        <4> QED BY <3>2, <4>2, <4>4
      <3> QED BY <3>1, <3>2
    <2>6. g[{}] = base
      <3>1. {} \in SUBSET (1..n) /\ {} \in SUBSET (1..(n-1)) /\ n \notin {}
        OBVIOUS
      <3>2. h[{}] = base
        BY <2>1, <3>1
      <3> QED BY <3>1, <3>2
    <2>7. g \in [SUBSET (1..n) -> A]
      BY <2>4
    <2>8. Fold(n, g)
      BY <2>5, <2>6
    <2>9. \E k \in [SUBSET (1..n) -> A] : Fold(n, k)
      <3> HIDE DEF g, Fold
      <3> QED BY <2>7, <2>8
    <2> HIDE DEF g, Fold
    <2> QED BY <2>9
  <1>3. N \in T
    <2> HIDE DEF T
    <2> QED BY <1>1, <1>2, UpTo
  <1> QED BY <1>3 DEF Folds

LEMMA Intervals ==
  ASSUME NEW N \in Nat
  PROVE  /\ 1..0 = {}
         /\ \A n \in 0..N : 1..n \in SUBSET (1..N)
         /\ \A n \in 1..N : Max(1..n) = n /\ (1..n) \ {n} = 1..(n - 1) /\ 1..n # {}
  <1>1. \A n \in 1..N : Max(1..n) = n
    <2> SUFFICES ASSUME NEW n \in 1..N PROVE Max(1..n) = n
      OBVIOUS
    <2>1. 1..n \in SUBSET Int /\ n \in 1..n /\ \A x \in 1..n : x <= n
      OBVIOUS
    <2> QED BY <2>1, LargestIsMax
  <1>2. 1..0 = {} /\ \A n \in 0..N : 1..n \in SUBSET (1..N)
    OBVIOUS
  <1>3. \A n \in 1..N : (1..n) \ {n} = 1..(n - 1) /\ n \in 1..n
    OBVIOUS
  <1> QED BY <1>1, <1>2, <1>3

-----------------------------------------------------------------------------
(* Ranges, between any two integers, and one turn of each loop *)

Spans == [Start: Int, End: Int]

LEMMA TaskIsRange ==
  ASSUME NEW s \in Int, NEW e \in Int
  PROVE  Task(s, e) \in Spans /\ Task(s, e).Start = s /\ Task(s, e).End = e
  BY DEF Task, Spans

LEMMA MaxOfTwo ==
  ASSUME NEW a \in Int, NEW b \in Int
  PROVE  Max({a, b}) = IF a >= b THEN a ELSE b
  <1>1. CASE a >= b
    <2>1. a \in {a, b} /\ {a, b} \in SUBSET Int /\ \A x \in {a, b} : x <= a
      BY <1>1
    <2> QED BY <1>1, <2>1, LargestIsMax
  <1>2. CASE ~(a >= b)
    <2>1. b \in {a, b} /\ {a, b} \in SUBSET Int /\ \A x \in {a, b} : x <= b
      BY <1>2
    <2> QED BY <1>2, <2>1, LargestIsMax
  <1> QED BY <1>1, <1>2

LEMMA FrontFacts ==
  ASSUME NEW S, NEW seq \in Seq(S), seq # <<>>
  PROVE  /\ Front(seq) \in Seq(S) /\ Len(Front(seq)) = Len(seq) - 1
         /\ \A i \in 1..(Len(seq) - 1) : Front(seq)[i] = seq[i]
  <1>1. PICK n \in Nat : n = Len(seq) /\ n >= 1
    BY EmptySeq, LenProperties
  <1>2. \A i \in 1..(n - 1) : seq[i] \in S
    BY <1>1, ElementOfSeq
  <1>3. /\ Front(seq) = SubSeq(seq, 1, n - 1) /\ n - 1 \in Int
        /\ Len(SubSeq(seq, 1, n - 1)) = IF 1 <= n - 1 THEN n - 1 - 1 + 1 ELSE 0
        /\ \A i \in 1..(n - 1) - 1 + 1 : SubSeq(seq, 1, n - 1)[i] = seq[1 + i - 1]
        /\ SubSeq(seq, 1, n - 1) \in Seq(S)
    BY <1>1, <1>2, SubSeqProperties DEF Front
  <1>4. Len(Front(seq)) = n - 1
    BY <1>1, <1>3
  <1>5. \A i \in 1..(n - 1) : Front(seq)[i] = seq[i]
    BY <1>1, <1>3
  <1> QED BY <1>1, <1>3, <1>4, <1>5

\* What a turn of DedupTasks' loop makes of its output.
LEMMA MergeStep ==
  ASSUME NEW out \in Seq(Spans), NEW t \in Spans
  PROVE  LET n == Len(out)
             m == Merge(out, t)
         IN  /\ m \in Seq(Spans) /\ n \in Nat
             /\ IF out = <<>> \/ t.Start > out[n].End + 1
                THEN Len(m) = n + 1 /\ m[n + 1] = t /\ \A i \in 1..n : m[i] = out[i]
                ELSE /\ n >= 1 /\ Len(m) = n /\ \A i \in 1..(n - 1) : m[i] = out[i]
                     /\ m[n].Start = out[n].Start
                     /\ m[n].End = IF out[n].End >= t.End THEN out[n].End ELSE t.End
  <1> DEFINE n == Len(out)
  <1>0. n \in Nat /\ (out # <<>> => n >= 1 /\ out[n] \in Spans)
    <2>1. n \in Nat /\ (out # <<>> => n \in 1..n)
      BY EmptySeq
    <2>2. out # <<>> => out[n] \in Spans
      BY <2>1, ElementOfSeq
    <2> QED BY <2>1, <2>2
  <1>1. CASE out = <<>> \/ t.Start > out[n].End + 1
    <2>1. Merge(out, t) = Append(out, t)
      BY <1>1 DEF Merge
    <2> QED BY <1>0, <1>1, <2>1, AppendProperties
  <1>2. CASE ~(out = <<>> \/ t.Start > out[n].End + 1)
    <2> DEFINE u == Task(out[n].Start, Max({out[n].End, t.End}))
    <2>1. /\ u \in Spans /\ u.Start = out[n].Start
          /\ u.End = IF out[n].End >= t.End THEN out[n].End ELSE t.End
      <3>1. out[n].Start \in Int /\ out[n].End \in Int /\ t.End \in Int
        BY <1>0, <1>2 DEF Spans
      <3>2. Max({out[n].End, t.End}) = IF out[n].End >= t.End THEN out[n].End ELSE t.End
        BY <3>1, MaxOfTwo
      <3>3. Max({out[n].End, t.End}) \in Int
        BY <3>1, <3>2
      <3> QED BY <3>1, <3>2, <3>3, TaskIsRange
    <2>2. /\ Front(out) \in Seq(Spans) /\ Len(Front(out)) = n - 1
          /\ \A i \in 1..(n - 1) : Front(out)[i] = out[i]
      BY <1>2, FrontFacts
    <2>3. Merge(out, t) = Append(Front(out), u)
      BY <1>2 DEF Merge
    <2> HIDE DEF u
    <2>4. /\ Merge(out, t) \in Seq(Spans) /\ Len(Merge(out, t)) = n /\ n >= 1
          /\ Merge(out, t)[n] = u /\ \A i \in 1..(n - 1) : Merge(out, t)[i] = out[i]
      BY <1>0, <1>2, <2>1, <2>2, <2>3, AppendProperties
    <2> QED BY <1>0, <1>2, <2>1, <2>4
  <1> QED BY <1>1, <1>2

\* The loop of DedupTasks: out[i] is its output after i turns.
LEMMA MergeFold ==
  ASSUME NEW s \in Seq(Spans)
  PROVE  \E out : /\ out[0] = <<>> /\ out[Len(s)] = FoldLeft(Merge, <<>>, s)
                  /\ \A n \in 1..Len(s) : out[n] = Merge(out[n - 1], s[n])
  <1> DEFINE N == Len(s)
             A == Seq(Spans)
             step == [x \in A \X (1..N) |-> Merge(x[1], s[x[2]])]
             F(g) == g = [ss \in SUBSET (DOMAIN s) |->
                             IF ss = {} THEN <<>> ELSE Merge(g[ss \ {Max(ss)}], s[Max(ss)])]
  <1>0. N \in Nat /\ DOMAIN s = 1..N /\ <<>> \in A /\ \A n \in 1..N : s[n] \in Spans
    BY LenProperties, EmptySeq, ElementOfSeq
  <1>1. step \in [A \X (1..N) -> A]
    BY <1>0, MergeStep
  <1>2. PICK g : Folds(g, A, <<>>, N, step)
    <2>1. <<>> \in A /\ N \in Nat
      BY <1>0
    <2> HIDE DEF step, A, N
    <2> QED BY <1>1, <2>1, FoldExists, Zenon
  <1>3. \A ss \in SUBSET (1..N) : ss # {} => Max(ss) \in 1..N /\ ss \ {Max(ss)} \in SUBSET (1..N)
    BY <1>0, MaxInInterval
  <1>4. \A ss \in SUBSET (1..N) : ss # {} =>
           step[<<g[ss \ {Max(ss)}], Max(ss)>>] = Merge(g[ss \ {Max(ss)}], s[Max(ss)])
    <2> SUFFICES ASSUME NEW ss \in SUBSET (1..N), ss # {}
                 PROVE  step[<<g[ss \ {Max(ss)}], Max(ss)>>] = Merge(g[ss \ {Max(ss)}], s[Max(ss)])
      OBVIOUS
    <2>1. g[ss \ {Max(ss)}] \in A /\ Max(ss) \in 1..N
      BY <1>2, <1>3 DEF Folds
    <2> HIDE DEF A
    <2> QED BY <2>1
  <1>5. F(g)
    <2> DEFINE f == [ss \in SUBSET (1..N) |->
                        IF ss = {} THEN <<>> ELSE Merge(g[ss \ {Max(ss)}], s[Max(ss)])]
    <2> HIDE DEF step, A
    <2>1. \A ss \in SUBSET (1..N) : g[ss] = f[ss]
      BY <1>2, <1>4 DEF Folds
    <2>2. g = f
      BY <1>2, <2>1 DEF Folds
    <2> QED BY <1>0, <2>2
  <1> DEFINE it == CHOOSE it : F(it)
  <1>6. F(it)
    <2> HIDE DEF F
    <2> QED BY <1>5
  <1>7. it[1..N] = FoldLeft(Merge, <<>>, s)
    BY <1>0 DEF FoldLeft, MapThenFoldSet
  <1>8. \A ss \in SUBSET (1..N) :
           it[ss] = IF ss = {} THEN <<>> ELSE Merge(it[ss \ {Max(ss)}], s[Max(ss)])
    <2> HIDE DEF it
    <2> QED BY <1>0, <1>6
  <1> HIDE DEF it
  <1> DEFINE out == [n \in 0..N |-> it[1..n]]
  <1>9. out[0] = <<>> /\ out[N] = it[1..N]
    <2>1. 0 \in 0..N /\ N \in 0..N /\ 1..0 = {} /\ {} \in SUBSET (1..N)
      BY <1>0
    <2> QED BY <1>8, <2>1
  <1>10. ASSUME NEW n \in 1..N PROVE out[n] = Merge(out[n - 1], s[n])
    <2>1. n - 1 \in 0..N /\ n \in 0..N
      BY <1>0
    <2>2. /\ Max(1..n) = n /\ (1..n) \ {n} = 1..(n - 1) /\ 1..n # {}
          /\ 1..n \in SUBSET (1..N)
      BY <1>0, <2>1, Intervals
    <2> QED BY <1>8, <2>1, <2>2
  <1> HIDE DEF out
  <1> QED BY <1>7, <1>9, <1>10
-----------------------------------------------------------------------------
(* Sorting *)

\* A new value has its place after the last one that is not larger.
LEMMA InsertionPoint ==
  ASSUME NEW n \in Nat, NEW a \in [1..n -> Int], NEW x \in Int,
         \A i, j \in 1..n : i < j => a[i] <= a[j]
  PROVE  \E k \in 1..(n + 1) : /\ \A i \in 1..(k - 1) : a[i] <= x
                               /\ \A i \in k..n : x < a[i]
  <1> DEFINE Splits(m, k) == /\ \A i \in 1..(k - 1) : a[i] <= x
                             /\ \A i \in k..m : x < a[i]
             T == {m \in 0..n : \E k \in 1..(m + 1) : Splits(m, k)}
  <1>1. 0 \in T
    <2>1. 0 \in 0..n /\ 1 \in 1..(0 + 1) /\ Splits(0, 1)
      OBVIOUS
    <2> HIDE DEF Splits
    <2> QED BY <2>1
  <1>2. ASSUME NEW m \in 1..n, m - 1 \in T PROVE m \in T
    <2>1. PICK k \in 1..m : Splits(m - 1, k)
      BY <1>2
    <2>2. CASE x < a[m]
      <3>1. Splits(m, k) /\ k \in 1..(m + 1)
        BY <2>1, <2>2
      <3> HIDE DEF Splits
      <3> QED BY <3>1
    <2>3. CASE ~(x < a[m])
      <3>1. \A i \in 1..(m + 1 - 1) : a[i] <= x
        <4> SUFFICES ASSUME NEW i \in 1..m PROVE a[i] <= x
          OBVIOUS
        <4>1. a[i] \in Int /\ a[m] \in Int /\ a[m] <= x /\ i \in 1..n
          BY <2>3
        <4>2. i < m => a[i] <= a[m]
          BY <4>1
        <4> QED BY <4>1, <4>2
      <3>2. Splits(m, m + 1) /\ m + 1 \in 1..(m + 1)
        BY <3>1
      <3> HIDE DEF Splits
      <3> QED BY <3>2
    <2> QED BY <2>2, <2>3
  <1> HIDE DEF T
  <1>3. \A m \in 1..n : m - 1 \in T => m \in T
    BY <1>2
  <1>4. \A m \in 0..n : m \in T
    BY <1>1, <1>3, UpTo, Zenon
  <1>5. n \in T
    BY <1>4
  <1> QED BY <1>5 DEF T

Sorts(p, a, n) ==
    /\ p \in [1..n -> 1..n]
    /\ \A i, j \in 1..n : p[i] = p[j] => i = j
    /\ \A v \in 1..n : \E i \in 1..n : p[i] = v
    /\ \A i, j \in 1..n : i < j => a[p[i]] <= a[p[j]]

\* An order exists: insertion sort finds one.
LEMMA SortExists ==
  ASSUME NEW N \in Nat, NEW a \in [1..N -> Int]
  PROVE  \E p : Sorts(p, a, N)
  <1> DEFINE T == {n \in 0..N : \E p : Sorts(p, a, n)}
  <1>1. 0 \in T
    <2>1. Sorts([i \in 1..0 |-> i], a, 0)
      BY DEF Sorts
    <2> QED BY <2>1
  <1>2. ASSUME NEW n \in 1..N, n - 1 \in T PROVE n \in T
    <2>1. PICK p : Sorts(p, a, n - 1)
      BY <1>2
    <2> DEFINE b == [i \in 1..(n - 1) |-> a[p[i]]]
    <2>2. b \in [1..(n - 1) -> Int] /\ n - 1 \in Nat /\ a[n] \in Int
      <3>1. \A i \in 1..(n - 1) : p[i] \in 1..(n - 1)
        BY <2>1 DEF Sorts
      <3>2. \A i \in 1..(n - 1) : a[p[i]] \in Int
        BY <3>1
      <3> QED BY <3>2
    <2>3. \A i, j \in 1..(n - 1) : i < j => b[i] <= b[j]
      BY <2>1 DEF Sorts
    <2>4. PICK k \in 1..n : /\ \A i \in 1..(k - 1) : b[i] <= a[n]
                            /\ \A i \in k..(n - 1) : a[n] < b[i]
      <3> HIDE DEF b
      <3>1. n - 1 + 1 = n
        OBVIOUS
      <3>2. \E k \in 1..(n - 1 + 1) : /\ \A i \in 1..(k - 1) : b[i] <= a[n]
                                      /\ \A i \in k..(n - 1) : a[n] < b[i]
        BY <2>2, <2>3, InsertionPoint
      <3> QED BY <3>1, <3>2
    <2> DEFINE q == [i \in 1..n |-> IF i < k THEN p[i] ELSE IF i = k THEN n ELSE p[i - 1]]
    <2>5. \A i \in 1..n : /\ i < k => i \in 1..(n - 1) /\ i \in 1..(k - 1)
                          /\ i > k => i - 1 \in 1..(n - 1) /\ i - 1 \in k..(n - 1)
      OBVIOUS
    <2>6. \A i \in 1..(n - 1) : p[i] \in 1..(n - 1) /\ a[p[i]] = b[i] /\ b[i] \in Int
      BY <2>1, <2>2 DEF Sorts
    <2>7. q \in [1..n -> 1..n]
      BY <2>5, <2>6, SMTT(60)
    <2>8. \A i, j \in 1..n : q[i] = q[j] => i = j
      <3> SUFFICES ASSUME NEW i \in 1..n, NEW j \in 1..n, q[i] = q[j] PROVE i = j
        OBVIOUS
      <3>1. \A u, v \in 1..(n - 1) : p[u] = p[v] => u = v
        BY <2>1 DEF Sorts
      <3> QED BY <2>5, <2>6, <3>1, SMTT(60)
    <2>9. \A v \in 1..n : \E i \in 1..n : q[i] = v
      <3> SUFFICES ASSUME NEW v \in 1..n PROVE \E i \in 1..n : q[i] = v
        OBVIOUS
      <3>1. CASE v = n
        <4>1. q[k] = n
          OBVIOUS
        <4> QED BY <3>1, <4>1
      <3>2. CASE v # n
        <4>1. PICK u \in 1..(n - 1) : p[u] = v
          BY <2>1, <3>2 DEF Sorts
        <4>2. CASE u < k
          <5>1. u \in 1..n /\ q[u] = v
            BY <4>1, <4>2
          <5> QED BY <5>1
        <4>3. CASE ~(u < k)
          <5>1. u + 1 \in 1..n /\ u + 1 - 1 = u /\ u + 1 > k
            BY <4>3
          <5>2. q[u + 1] = v
            BY <4>1, <5>1
          <5> QED BY <5>1, <5>2
        <4> QED BY <4>2, <4>3
      <3> QED BY <3>1, <3>2
    <2>10. \A i, j \in 1..n : i < j => a[q[i]] <= a[q[j]]
      <3> SUFFICES ASSUME NEW i \in 1..n, NEW j \in 1..n, i < j PROVE a[q[i]] <= a[q[j]]
        OBVIOUS
      <3>1. \A u \in 1..n : a[q[u]] = IF u < k THEN b[u] ELSE IF u = k THEN a[n] ELSE b[u - 1]
        BY <2>5, <2>6
      <3> HIDE DEF b, q
      <3>2. a[q[i]] = (IF i < k THEN b[i] ELSE IF i = k THEN a[n] ELSE b[i - 1])
        BY <3>1
      <3>3. a[q[j]] = (IF j < k THEN b[j] ELSE IF j = k THEN a[n] ELSE b[j - 1])
        BY <3>1
      <3>4. CASE j < k
        <4>1. i < k /\ i \in 1..(n - 1) /\ j \in 1..(n - 1)
          BY <2>5, <3>4
        <4>2. b[i] <= b[j]
          BY <2>3, <4>1
        <4> QED BY <3>2, <3>3, <3>4, <4>1, <4>2
      <3>5. CASE j = k
        BY <2>4, <2>5, <3>2, <3>3, <3>5
      <3>6. CASE j > k /\ i < k
        <4>1. b[i] <= a[n] /\ a[n] < b[j - 1] /\ b[i] \in Int /\ b[j - 1] \in Int
          BY <2>4, <2>5, <2>6, <3>6
        <4> QED BY <2>2, <3>2, <3>3, <3>6, <4>1
      <3>7. CASE j > k /\ i = k
        <4>1. a[n] < b[j - 1] /\ b[j - 1] \in Int
          BY <2>4, <2>5, <2>6, <3>7
        <4> QED BY <2>2, <3>2, <3>3, <3>7, <4>1
      <3>8. CASE j > k /\ i > k
        <4>1. b[i - 1] <= b[j - 1]
          BY <2>3, <2>5, <3>8
        <4> QED BY <3>2, <3>3, <3>8, <4>1
      <3> QED BY <3>4, <3>5, <3>6, <3>7, <3>8
    <2>11. Sorts(q, a, n)
      <3> HIDE DEF q
      <3> QED BY <2>7, <2>8, <2>9, <2>10 DEF Sorts
    <2> QED BY <2>11
  <1> HIDE DEF T
  <1>3. \A n \in 1..N : n - 1 \in T => n \in T
    BY <1>2
  <1>4. \A n \in 0..N : n \in T
    BY <1>1, <1>3, UpTo, Zenon
  <1>5. N \in T
    BY <1>4
  <1> QED BY <1>5 DEF T

\* sortedByStart: the same ranges, in ascending order.
LEMMA SortedFacts ==
  ASSUME NEW S \in SUBSET Spans, NEW tasks \in Seq(S)
  PROVE  LET s == SortedByStart(tasks)
         IN  /\ s \in Seq(S) /\ Len(s) = Len(tasks)
             /\ \A i, j \in 1..Len(s) : i < j => s[i].Start <= s[j].Start
             /\ \A i \in 1..Len(s) : \E j \in 1..Len(tasks) : s[i] = tasks[j]
             /\ \A j \in 1..Len(tasks) : \E i \in 1..Len(s) : s[i] = tasks[j]
  <1>1. PICK N \in Nat : N = Len(tasks) /\ DOMAIN tasks = 1..N
    BY LenProperties
  <1> DEFINE InOrder(p) == \A i, j \in 1..N : i < j => tasks[p[i]].Start <= tasks[p[j]].Start
             B == Bijection(1..N, 1..N)
             order == CHOOSE p \in B : InOrder(p)
             a == [i \in 1..N |-> tasks[i].Start]
             s == [i \in 1..N |-> tasks[order[i]]]
  <1>2. \A i \in 1..N : tasks[i] \in S /\ tasks[i].Start \in Int
    BY <1>1, ElementOfSeq DEF Spans
  <1>3. PICK p : Sorts(p, a, N)
    <2>1. a \in [1..N -> Int]
      BY <1>2
    <2> HIDE DEF a
    <2> QED BY <2>1, SortExists
  <1>4. p \in B /\ InOrder(p)
    <2>1. p \in B
      BY <1>3 DEF Sorts, Bijection, Injection, Surjection, IsInjective
    <2>2. \A i \in 1..N : a[p[i]] = tasks[p[i]].Start
      BY <1>3 DEF Sorts
    <2>3. \A i, j \in 1..N : i < j => a[p[i]] <= a[p[j]]
      BY <1>3 DEF Sorts
    <2> HIDE DEF a
    <2> QED BY <2>1, <2>2, <2>3
  <1>5. order \in B /\ InOrder(order)
    <2> HIDE DEF B, InOrder
    <2> QED BY <1>4
  <1>6. SortedByStart(tasks) = s
    BY <1>1 DEF SortedByStart
  <1> HIDE DEF order
  <1>7. /\ order \in [1..N -> 1..N]
        /\ \A v \in 1..N : \E i \in 1..N : order[i] = v
    BY <1>5 DEF Bijection, Injection, Surjection
  <1>8. s \in Seq(S) /\ Len(s) = N
    <2>1. \A i \in 1..N : tasks[order[i]] \in S
      BY <1>2, <1>7
    <2> QED BY <2>1
  <1>9. \A i, j \in 1..N : i < j => s[i].Start <= s[j].Start
    BY <1>5
  <1>10. /\ \A i \in 1..N : \E j \in 1..N : s[i] = tasks[j]
         /\ \A j \in 1..N : \E i \in 1..N : s[i] = tasks[j]
    BY <1>7
  <1> HIDE DEF s, B, InOrder, a
  <1> QED BY <1>1, <1>6, <1>8, <1>9, <1>10
LEMMA ElementwiseSeq ==
  ASSUME NEW S, NEW T, NEW s \in Seq(S), \A i \in 1..Len(s) : s[i] \in T
  PROVE  s \in Seq(T)
  <1>1. PICK n \in Nat : n = Len(s) /\ DOMAIN s = 1..n /\ s = [i \in 1..n |-> s[i]]
    BY LenProperties
  <1>2. \A i \in 1..n : s[i] \in T
    BY <1>1
  <1>3. [i \in 1..n |-> s[i]] \in Seq(T)
    BY <1>2
  <1> QED BY <1>1, <1>3
-----------------------------------------------------------------------------
(* Bytes *)

NonEmpty == {t \in Spans : t.Start <= t.End}

\* Every range lies before the next ones, with a gap or without.
Apart(s) == \A i, j \in 1..Len(s) : i < j => s[i].End + 1 < s[j].Start
Ordered(s) == \A i, j \in 1..Len(s) : i < j => s[i].End < s[j].Start

LEMMA CoveredBy ==
  ASSUME NEW s \in Seq(Spans)
  PROVE  \A b : b \in Covered(s) <=>
                   b \in Int /\ \E i \in 1..Len(s) : s[i].Start <= b /\ b <= s[i].End
  <1>1. DOMAIN s = 1..Len(s)
    BY LenProperties
  <1>2. \A i \in 1..Len(s) : s[i].Start \in Int /\ s[i].End \in Int
    <2>1. \A i \in 1..Len(s) : s[i] \in Spans
      BY ElementOfSeq
    <2> QED BY <2>1 DEF Spans
  <1>3. \A b : b \in Covered(s) <=> \E i \in 1..Len(s) : b \in BytesOf(s[i])
    BY <1>1 DEF Covered
  <1>4. \A i \in 1..Len(s) : \A b :
           b \in BytesOf(s[i]) <=> b \in Int /\ s[i].Start <= b /\ b <= s[i].End
    BY <1>2 DEF BytesOf
  <1> QED BY <1>3, <1>4

LEMMA NonEmptySeq ==
  ASSUME NEW s \in Seq(NonEmpty)
  PROVE  /\ s \in Seq(Spans) /\ Len(s) \in Nat
         /\ \A i \in 1..Len(s) : /\ s[i] \in NonEmpty /\ s[i] \in Spans
                                 /\ s[i].Start \in Int /\ s[i].End \in Int
                                 /\ s[i].Start <= s[i].End
  <1>1. s \in Seq(Spans) /\ Len(s) \in Nat
    BY LenProperties, SeqMonotonic DEF NonEmpty
  <1>2. \A i \in 1..Len(s) : s[i] \in NonEmpty
    BY ElementOfSeq
  <1> QED BY <1>1, <1>2 DEF NonEmpty, Spans

-----------------------------------------------------------------------------
(* dedupTasks *)

\* What its output is after n turns over the sorted ranges s.
MergedUpTo(out, s, n) ==
    /\ out \in Seq(NonEmpty) /\ Apart(out)
    /\ out = <<>> <=> n = 0
    /\ out # <<>> => out[Len(out)].Start <= s[n].Start
    /\ \A b \in Int : (\E i \in 1..Len(out) : out[i].Start <= b /\ b <= out[i].End)
                  <=> (\E i \in 1..n : s[i].Start <= b /\ b <= s[i].End)

LEMMA MergeTurn ==
  ASSUME NEW s \in Seq(NonEmpty), NEW n \in 1..Len(s), NEW out,
         \A i, j \in 1..Len(s) : i < j => s[i].Start <= s[j].Start,
         MergedUpTo(out, s, n - 1)
  PROVE  MergedUpTo(Merge(out, s[n]), s, n)
  <1> DEFINE t == s[n]
             m == Merge(out, t)
  <1>1. /\ t \in Spans /\ t.Start \in Int /\ t.End \in Int /\ t.Start <= t.End
        /\ t \in NonEmpty /\ Len(s) \in Nat
    BY NonEmptySeq
  <1>2. PICK L \in Nat : L = Len(out)
    BY NonEmptySeq DEF MergedUpTo
  <1>3. /\ out \in Seq(Spans)
        /\ \A i \in 1..L : /\ out[i] \in NonEmpty /\ out[i] \in Spans
                           /\ out[i].Start \in Int /\ out[i].End \in Int
                           /\ out[i].Start <= out[i].End
    BY <1>2, NonEmptySeq DEF MergedUpTo
  <1>4. (out = <<>> <=> L = 0) /\ (out = <<>> <=> n = 1)
    BY <1>2, <1>3, EmptySeq DEF MergedUpTo
  <1>5. out # <<>> => out[L].Start <= t.Start
    <2> SUFFICES ASSUME out # <<>> PROVE out[L].Start <= t.Start
      OBVIOUS
    <2>1. n - 1 \in 1..Len(s) /\ L \in 1..L /\ n - 1 < n
      BY <1>1, <1>4
    <2>2. out[L].Start <= s[n - 1].Start /\ s[n - 1].Start <= t.Start
      BY <1>2, <2>1 DEF MergedUpTo
    <2>3. s[n - 1].Start \in Int
      BY <2>1, NonEmptySeq
    <2> QED BY <1>1, <1>3, <2>1, <2>2, <2>3, SMTT(60)
  <1>6. \A i \in 1..L : i # L => out[i].End + 1 < out[L].Start
    BY <1>2 DEF MergedUpTo, Apart
  <1>7. \A b \in Int : (\E i \in 1..L : out[i].Start <= b /\ b <= out[i].End)
                   <=> (\E i \in 1..(n - 1) : s[i].Start <= b /\ b <= s[i].End)
    BY <1>2 DEF MergedUpTo
  <1>8. \A b \in Int : (\E i \in 1..n : s[i].Start <= b /\ b <= s[i].End)
                   <=> \/ \E i \in 1..L : out[i].Start <= b /\ b <= out[i].End
                       \/ t.Start <= b /\ b <= t.End
    <2>1. \A i \in 1..n : i \in 1..(n - 1) \/ i = n
      OBVIOUS
    <2>2. n \in 1..n /\ \A i \in 1..(n - 1) : i \in 1..n
      OBVIOUS
    <2> QED BY <1>7, <2>1, <2>2
  <1> HIDE DEF t
  <1>9. /\ m \in Seq(Spans)
        /\ IF out = <<>> \/ t.Start > out[L].End + 1
           THEN Len(m) = L + 1 /\ m[L + 1] = t /\ \A i \in 1..L : m[i] = out[i]
           ELSE /\ L >= 1 /\ Len(m) = L /\ \A i \in 1..(L - 1) : m[i] = out[i]
                /\ m[L].Start = out[L].Start
                /\ m[L].End = IF out[L].End >= t.End THEN out[L].End ELSE t.End
    <2>1. /\ m \in Seq(Spans)
          /\ IF out = <<>> \/ t.Start > out[Len(out)].End + 1
             THEN /\ Len(m) = Len(out) + 1 /\ m[Len(out) + 1] = t
                  /\ \A i \in 1..Len(out) : m[i] = out[i]
             ELSE /\ Len(out) >= 1 /\ Len(m) = Len(out)
                  /\ \A i \in 1..(Len(out) - 1) : m[i] = out[i]
                  /\ m[Len(out)].Start = out[Len(out)].Start
                  /\ m[Len(out)].End = IF out[Len(out)].End >= t.End
                                        THEN out[Len(out)].End ELSE t.End
      BY <1>1, <1>3, MergeStep, ZenonT(60)
    <2> HIDE DEF m
    <2> QED BY <1>2, <2>1
  <1> HIDE DEF m
  <1>12. PICK M \in Nat : M = Len(m)
    BY <1>9, LenProperties
  <1>13. Len(<<>>) = 0 /\ n # 0
    BY EmptySeq
  <1>10. CASE out = <<>> \/ t.Start > out[L].End + 1
    <2>1. M = L + 1 /\ m[M] = t /\ \A i \in 1..L : m[i] = out[i]
      BY <1>9, <1>10, <1>12
    <2>2. \A i \in 1..M : m[i] = IF i = M THEN t ELSE out[i]
      BY <2>1
    <2>3. \A i \in 1..M : m[i] \in NonEmpty
      <3>1. \A i \in 1..M : i = M \/ i \in 1..L
        BY <2>1
      <3> QED BY <1>1, <1>3, <2>2, <3>1
    <2>4. \A i \in 1..L : out[i].End + 1 < t.Start
      <3> SUFFICES ASSUME NEW i \in 1..L PROVE out[i].End + 1 < t.Start
        OBVIOUS
      <3>1. out # <<>> /\ L \in 1..L /\ t.Start > out[L].End + 1
        BY <1>4, <1>10
      <3>2. out[L].Start <= out[L].End /\ out[L].Start \in Int /\ out[L].End \in Int
        BY <1>3, <3>1
      <3>3. i # L => out[i].End + 1 < out[L].Start /\ out[i].End \in Int
        BY <1>3, <1>6
      <3>4. CASE i = L
        BY <1>1, <3>1, <3>2, <3>4
      <3>5. CASE i # L
        <4>1. out[i].End + 1 < out[L].Start /\ out[i].End \in Int
          BY <3>3, <3>5
        <4>2. out[L].End + 1 < t.Start /\ t.Start \in Int
          BY <1>1, <3>1, <3>2
        <4> QED BY <3>2, <4>1, <4>2, SMTT(60)
      <3> QED BY <3>4, <3>5
    <2>5. Apart(m)
      <3> SUFFICES ASSUME NEW i \in 1..M, NEW j \in 1..M, i < j
                   PROVE  m[i].End + 1 < m[j].Start
        BY <1>12 DEF Apart
      <3>1. i \in 1..L /\ m[i] = out[i]
        BY <2>1
      <3>2. CASE j = M
        BY <2>1, <2>4, <3>1, <3>2
      <3>3. CASE j # M
        <4>1. j \in 1..L /\ m[j] = out[j]
          BY <2>1, <3>3
        <4> QED BY <1>2, <3>1, <4>1 DEF MergedUpTo, Apart
      <3> QED BY <3>2, <3>3
    <2>6. \A b \in Int : (\E i \in 1..M : m[i].Start <= b /\ b <= m[i].End)
                     <=> \/ \E i \in 1..L : out[i].Start <= b /\ b <= out[i].End
                         \/ t.Start <= b /\ b <= t.End
      <3>1. M \in 1..M /\ \A i \in 1..L : i \in 1..M
        BY <2>1
      <3>2. \A i \in 1..M : i = M \/ i \in 1..L
        BY <2>1
      <3> QED BY <2>1, <3>1, <3>2
    <2>7. m \in Seq(NonEmpty) /\ m # <<>>
      <3>1. m \in Seq(NonEmpty)
        BY <1>9, <1>12, <2>3, ElementwiseSeq
      <3>2. Len(m) # 0
        BY <1>12, <2>1
      <3> QED BY <1>13, <3>1, <3>2, Zenon
    <2>8. m[Len(m)].Start <= t.Start
      BY <1>1, <1>12, <2>1
    <2>9. MergedUpTo(m, s, n)
      BY <1>8, <1>12, <1>13, <2>5, <2>6, <2>7, <2>8, Zenon DEF MergedUpTo, t
    <2> QED BY <2>9 DEF m, t
  <1>11. CASE ~(out = <<>> \/ t.Start > out[L].End + 1)
    <2> DEFINE e == IF out[L].End >= t.End THEN out[L].End ELSE t.End
    <2>1. /\ M = L /\ L >= 1 /\ L \in 1..L /\ \A i \in 1..(L - 1) : m[i] = out[i]
          /\ m[L].Start = out[L].Start /\ m[L].End = e
      BY <1>9, <1>11, <1>12
    <2>2. e \in Int /\ out[L].End <= e /\ t.End <= e /\ (e = out[L].End \/ e = t.End)
      BY <1>1, <1>3, <2>1
    <2>3. \A i \in 1..L : i = L \/ (i \in 1..(L - 1) /\ i # L /\ m[i] = out[i])
      BY <2>1
    <2> HIDE DEF e
    <2>4. \A i \in 1..L : m[i].Start = out[i].Start /\ (i # L => m[i].End = out[i].End)
      BY <2>1, <2>3
    <2>5. m \in Seq(NonEmpty) /\ m # <<>>
      <3>1. m[L] \in NonEmpty
        <4>1. m[L] \in Spans
          BY <1>9, <2>1, ElementOfSeq
        <4>2. m[L].Start <= m[L].End
          BY <1>3, <2>1, <2>2
        <4> QED BY <4>1, <4>2 DEF NonEmpty
      <3>2. \A i \in 1..M : m[i] \in NonEmpty
        BY <1>3, <2>1, <2>3, <3>1
      <3>3. m \in Seq(NonEmpty)
        BY <1>9, <1>12, <3>2, ElementwiseSeq
      <3>4. Len(m) # 0
        BY <1>12, <2>1
      <3> QED BY <1>13, <3>3, <3>4, Zenon
    <2>6. Apart(m)
      <3> SUFFICES ASSUME NEW i \in 1..L, NEW j \in 1..L, i < j
                   PROVE  m[i].End + 1 < m[j].Start
        BY <1>12, <2>1 DEF Apart
      <3>1. out[i].End + 1 < out[j].Start
        BY <1>2 DEF MergedUpTo, Apart
      <3> QED BY <2>4, <3>1
    <2>7. \A b \in Int : (\E i \in 1..M : m[i].Start <= b /\ b <= m[i].End)
                     <=> \/ \E i \in 1..L : out[i].Start <= b /\ b <= out[i].End
                         \/ t.Start <= b /\ b <= t.End
      <3> SUFFICES ASSUME NEW b \in Int
                   PROVE  (\E i \in 1..L : m[i].Start <= b /\ b <= m[i].End)
                     <=> \/ \E i \in 1..L : out[i].Start <= b /\ b <= out[i].End
                         \/ t.Start <= b /\ b <= t.End
        BY <2>1
      <3>1. out[L].Start <= t.Start /\ t.Start <= out[L].End + 1
        BY <1>1, <1>3, <1>5, <1>11, <2>1
      <3>2. (m[L].Start <= b /\ b <= m[L].End) <=>
               \/ out[L].Start <= b /\ b <= out[L].End
               \/ t.Start <= b /\ b <= t.End
        <4>1. out[L].Start \in Int /\ out[L].End \in Int
          BY <1>3, <2>1
        <4>2. (out[L].Start <= b /\ b <= e) <=>
                 (out[L].Start <= b /\ b <= out[L].End) \/ (t.Start <= b /\ b <= t.End)
          <5>1. t.Start \in Int /\ t.End \in Int /\ t.Start <= t.End /\ e \in Int
            BY <1>1, <2>2
          <5>2. CASE e = out[L].End
            BY <2>2, <3>1, <4>1, <5>1, <5>2, SMTT(60)
          <5>3. CASE e = t.End
            BY <2>2, <3>1, <4>1, <5>1, <5>3, SMTT(60)
          <5> QED BY <2>2, <5>2, <5>3
        <4> QED BY <2>1, <4>2
      <3> QED BY <2>1, <2>4, <3>2
    <2>8. m[Len(m)].Start <= t.Start
      BY <1>5, <1>12, <1>11, <2>1
    <2>9. MergedUpTo(m, s, n)
      BY <1>8, <1>12, <1>13, <2>5, <2>6, <2>7, <2>8, Zenon DEF MergedUpTo, t
    <2> QED BY <2>9 DEF m, t
  <1> QED BY <1>2, <1>10, <1>11

\* dedupTasks keeps the bytes and leaves a gap between any two ranges.
LEMMA DedupFacts ==
  ASSUME NEW tasks \in Seq(NonEmpty)
  PROVE  LET out == DedupTasks(tasks)
         IN  out \in Seq(NonEmpty) /\ Apart(out) /\ Covered(out) = Covered(tasks)
  <1> DEFINE s == SortedByStart(tasks)
  <1>1. /\ s \in Seq(NonEmpty) /\ Len(s) = Len(tasks)
        /\ \A i, j \in 1..Len(s) : i < j => s[i].Start <= s[j].Start
        /\ \A i \in 1..Len(s) : \E j \in 1..Len(tasks) : s[i] = tasks[j]
        /\ \A j \in 1..Len(tasks) : \E i \in 1..Len(s) : s[i] = tasks[j]
    <2>1. NonEmpty \in SUBSET Spans
      BY DEF NonEmpty
    <2> QED BY <2>1, SortedFacts
  <1> HIDE DEF s
  <1>2. s \in Seq(Spans) /\ tasks \in Seq(Spans)
    BY <1>1, NonEmptySeq
  <1>3. PICK N \in Nat : N = Len(s)
    BY <1>1, NonEmptySeq
  <1>4. PICK out : /\ out[0] = <<>> /\ out[N] = FoldLeft(Merge, <<>>, s)
                   /\ \A n \in 1..N : out[n] = Merge(out[n - 1], s[n])
    BY <1>2, <1>3, MergeFold
  <1> DEFINE T == {n \in 0..N : MergedUpTo(out[n], s, n)}
  <1>5. 0 \in T
    <2>1. <<>> \in Seq(NonEmpty) /\ Len(<<>>) = 0 /\ 1..0 = {}
      BY EmptySeq
    <2>2. MergedUpTo(<<>>, s, 0)
      BY <2>1 DEF MergedUpTo, Apart
    <2> QED BY <1>4, <2>2
  <1>6. \A n \in 1..N : n - 1 \in T => n \in T
    <2> SUFFICES ASSUME NEW n \in 1..N, MergedUpTo(out[n - 1], s, n - 1)
                 PROVE  MergedUpTo(out[n], s, n)
      OBVIOUS
    <2>1. MergedUpTo(Merge(out[n - 1], s[n]), s, n)
      BY <1>1, <1>3, MergeTurn
    <2> QED BY <1>4, <2>1
  <1>7. N \in T
    <2> HIDE DEF T
    <2>1. \A n \in 0..N : n \in T
      BY <1>5, <1>6, UpTo, Zenon
    <2> QED BY <2>1
  <1> DEFINE r == out[N]
  <1>8. MergedUpTo(r, s, N) /\ r = DedupTasks(tasks)
    BY <1>4, <1>7 DEF DedupTasks, s
  <1> HIDE DEF r
  <1>9. r \in Seq(NonEmpty) /\ Apart(r) /\ r \in Seq(Spans)
    BY <1>8, NonEmptySeq DEF MergedUpTo
  <1>10. \A b \in Int : (\E i \in 1..Len(r) : r[i].Start <= b /\ b <= r[i].End)
                    <=> (\E i \in 1..N : s[i].Start <= b /\ b <= s[i].End)
    BY <1>8 DEF MergedUpTo
  <1>11. \A b \in Int : (\E i \in 1..N : s[i].Start <= b /\ b <= s[i].End)
                    <=> (\E i \in 1..Len(tasks) : tasks[i].Start <= b /\ b <= tasks[i].End)
    BY <1>1, <1>3
  <1>12. \A b : b \in Covered(r) <=> b \in Covered(tasks)
    BY <1>2, <1>9, <1>10, <1>11, CoveredBy
  <1> QED BY <1>8, <1>9, <1>12
-----------------------------------------------------------------------------
(* The trim: dropCompletedOverlapping *)

Cuts == [kept: Seq(Spans), cursor: Int]

LEMMA SubtractStep ==
  ASSUME NEW t \in Spans, NEW acc \in Cuts, NEW b \in Spans
  PROVE  Subtract(t, acc, b) \in Cuts
  <1>1. b.Start - 1 \in Int /\ b.End + 1 \in Int /\ acc.cursor \in Int /\ acc.kept \in Seq(Spans)
    BY DEF Spans, Cuts
  <1> DEFINE u == Task(acc.cursor, b.Start - 1)
  <1>2. u \in Spans
    BY <1>1, TaskIsRange
  <1> HIDE DEF u
  <1>3. Append(acc.kept, u) \in Seq(Spans)
    BY <1>1, <1>2, AppendProperties
  <1>4. [kept |-> IF b.Start > acc.cursor THEN Append(acc.kept, u) ELSE acc.kept,
         cursor |-> b.End + 1] \in Cuts
    BY <1>1, <1>3 DEF Cuts
  <1> QED BY <1>4 DEF Subtract, u

\* The loop of Fragments: out[i] is its state after i bad ranges.
LEMMA FragmentsFold ==
  ASSUME NEW t \in Spans, NEW bad \in Seq(Spans)
  PROVE  \E out : /\ out[0] = [kept |-> <<>>, cursor |-> t.Start] /\ Fragments(t, bad) =
                     (IF out[Len(bad)].cursor <= t.End THEN Append(out[Len(bad)].kept, Task(out[Len(bad)].cursor, t.End))
                      ELSE out[Len(bad)].kept)
                  /\ \A n \in 0..Len(bad) : out[n] \in Cuts
                  /\ \A n \in 1..Len(bad) : out[n] = Subtract(t, out[n - 1], bad[n])
  <1> DEFINE s == bad
             N == Len(s)
             A == Cuts
             step == [x \in A \X (1..N) |-> Subtract(t, x[1], s[x[2]])]
             F(g) == g = [ss \in SUBSET (DOMAIN s) |->
                             IF ss = {} THEN [kept |-> <<>>, cursor |-> t.Start] ELSE Subtract(t, g[ss \ {Max(ss)}], s[Max(ss)])]
  <1>0. /\ N \in Nat /\ DOMAIN s = 1..N /\ \A n \in 1..N : s[n] \in Spans
        /\ [kept |-> <<>>, cursor |-> t.Start] \in A
    <2>1. N \in Nat /\ DOMAIN s = 1..N /\ \A n \in 1..N : s[n] \in Spans
      BY LenProperties, ElementOfSeq
    <2>2. <<>> \in Seq(Spans) /\ t.Start \in Int
      BY EmptySeq DEF Spans
    <2> QED BY <2>1, <2>2 DEF Cuts
  <1>1. \A x \in A, n \in 1..N : Subtract(t, x, s[n]) \in A
    BY <1>0, SubtractStep
  <1> HIDE DEF s, A
  <1>2. PICK g : Folds(g, A, [kept |-> <<>>, cursor |-> t.Start], N, step)
    <2>1. [kept |-> <<>>, cursor |-> t.Start] \in A /\ N \in Nat /\ step \in [A \X (1..N) -> A]
      BY <1>0, <1>1
    <2> HIDE DEF step, N
    <2> QED BY <2>1, FoldExists, Zenon
  <1>3. \A ss \in SUBSET (1..N) : ss # {} => Max(ss) \in 1..N /\ ss \ {Max(ss)} \in SUBSET (1..N)
    BY <1>0, MaxInInterval
  <1>4. F(g)
    <2>1. ASSUME NEW ss \in SUBSET (1..N), ss # {}
          PROVE  step[<<g[ss \ {Max(ss)}], Max(ss)>>] = Subtract(t, g[ss \ {Max(ss)}], s[Max(ss)])
      BY <1>2, <1>3, <2>1 DEF Folds
    <2> DEFINE f == [ss \in SUBSET (1..N) |->
                        IF ss = {} THEN [kept |-> <<>>, cursor |-> t.Start] ELSE Subtract(t, g[ss \ {Max(ss)}], s[Max(ss)])]
    <2> HIDE DEF step
    <2>2. \A ss \in SUBSET (1..N) : g[ss] = f[ss]
      BY <1>2, <2>1 DEF Folds
    <2>3. g = f
      BY <1>2, <2>2 DEF Folds
    <2> QED BY <1>0, <2>3
  <1> DEFINE it == CHOOSE it : F(it)
  <1>5. F(it)
    <2> HIDE DEF F
    <2> QED BY <1>4
  <1>6. Fragments(t, bad) =
                     (IF it[1..N].cursor <= t.End THEN Append(it[1..N].kept, Task(it[1..N].cursor, t.End))
                      ELSE it[1..N].kept)
    BY <1>0 DEF Fragments, FoldLeft, MapThenFoldSet, s
  <1>7. \A ss \in SUBSET (1..N) :
           it[ss] = IF ss = {} THEN [kept |-> <<>>, cursor |-> t.Start] ELSE Subtract(t, it[ss \ {Max(ss)}], s[Max(ss)])
    <2> HIDE DEF it
    <2> QED BY <1>0, <1>5
  <1> HIDE DEF it
  <1> DEFINE out == [n \in 0..N |-> it[1..n]]
  <1>8. out[0] = [kept |-> <<>>, cursor |-> t.Start] /\ out[N] = it[1..N]
    <2>1. 0 \in 0..N /\ N \in 0..N /\ 1..0 = {} /\ {} \in SUBSET (1..N)
      BY <1>0
    <2> QED BY <1>7, <2>1
  <1>9. ASSUME NEW n \in 1..N PROVE out[n] = Subtract(t, out[n - 1], s[n])
    <2>1. n - 1 \in 0..N /\ n \in 0..N
      BY <1>0
    <2>2. /\ Max(1..n) = n /\ (1..n) \ {n} = 1..(n - 1) /\ 1..n # {}
          /\ 1..n \in SUBSET (1..N)
      BY <1>0, <2>1, Intervals
    <2> QED BY <1>7, <2>1, <2>2
  <1> HIDE DEF out
  <1>10. \A n \in 0..N : out[n] \in A
    <2> DEFINE T == {n \in 0..N : out[n] \in A}
    <2>1. 0 \in T /\ N \in Nat
      BY <1>0, <1>8
    <2>2. \A n \in 1..N : n - 1 \in T => n \in T
      BY <1>0, <1>1, <1>9
    <2> HIDE DEF T, N
    <2>3. \A n \in 0..N : n \in T
      BY <2>1, <2>2, UpTo, Zenon
    <2> QED BY <2>3 DEF T
  <1> HIDE DEF F, step
  <1> QED BY <1>6, <1>8, <1>9, <1>10 DEF s, A
\* A part of t that has no byte of a bad range.
Pieces(t, bad) ==
    {u \in NonEmpty : /\ t.Start <= u.Start /\ u.End <= t.End
                      /\ \A j \in 1..Len(bad) : u.End < bad[j].Start \/ bad[j].End < u.Start}

\* The cursor has passed the first n bad ranges, as far as they touch t.
CutUpTo(acc, t, bad, n) ==
    /\ acc.cursor \in Int /\ t.Start <= acc.cursor
    /\ acc.kept \in Seq(Pieces(t, bad))
    /\ \A j \in 1..n : \/ bad[j].End < acc.cursor \/ t.End < bad[j].Start
                       \/ t.End < acc.cursor

LEMMA CutTurn ==
  ASSUME NEW t \in NonEmpty, NEW bad \in Seq(NonEmpty),
         \A i, j \in 1..Len(bad) : i < j => bad[i].Start <= bad[j].Start,
         NEW n \in 1..Len(bad), NEW acc, CutUpTo(acc, t, bad, n - 1)
  PROVE  CutUpTo(Subtract(t, acc, bad[n]), t, bad, n)
  <1> DEFINE b == bad[n]
             c == acc.cursor
             r == Subtract(t, acc, b)
  <1>1. /\ t.Start \in Int /\ t.End \in Int /\ Len(bad) \in Nat
        /\ \A j \in 1..Len(bad) : /\ bad[j].Start \in Int /\ bad[j].End \in Int
                                  /\ bad[j].Start <= bad[j].End
    BY NonEmptySeq DEF NonEmpty, Spans
  <1>2. b.Start \in Int /\ b.End \in Int /\ b.Start <= b.End
    BY <1>1
  <1>3. c \in Int /\ t.Start <= c /\ acc.kept \in Seq(Pieces(t, bad))
    BY DEF CutUpTo
  <1>4. \A j \in 1..n : j = n \/ (bad[j].End < c \/ t.End < bad[j].Start \/ t.End < c)
    <2>1. \A j \in 1..n : j = n \/ j \in 1..(n - 1)
      OBVIOUS
    <2> QED BY <2>1 DEF CutUpTo
  <1>5. CASE b.End < c \/ b.Start > t.End \/ c > t.End
    <2>1. r = acc
      BY <1>5 DEF Subtract
    <2> QED BY <1>1, <1>2, <1>3, <1>4, <1>5, <2>1 DEF CutUpTo
  <1>6. CASE ~(b.End < c \/ b.Start > t.End \/ c > t.End)
    <2> DEFINE u == Task(c, b.Start - 1)
    <2>1. /\ r.cursor = b.End + 1
          /\ r.kept = IF b.Start > c THEN Append(acc.kept, u) ELSE acc.kept
      BY <1>6 DEF Subtract
    <2>2. r.cursor \in Int /\ t.Start <= r.cursor /\ c <= r.cursor
      BY <1>1, <1>2, <1>3, <1>6, <2>1, SMTT(60)
    <2>3. b.Start > c => u \in Pieces(t, bad)
      <3> SUFFICES ASSUME b.Start > c PROVE u \in Pieces(t, bad)
        OBVIOUS
      <3>1. u \in Spans /\ u.Start = c /\ u.End = b.Start - 1
        BY <1>2, <1>3, TaskIsRange
      <3> HIDE DEF u
      <3>2. u \in NonEmpty
        BY <1>2, <1>3, <3>1 DEF NonEmpty
      <3>3. ASSUME NEW j \in 1..Len(bad) PROVE u.End < bad[j].Start \/ bad[j].End < u.Start
        <4>1. CASE j <= n
          <5>1. j \in 1..n /\ bad[j].Start \in Int
            BY <1>1, <4>1
          <5> QED BY <1>1, <1>2, <1>3, <1>4, <1>6, <3>1, <5>1, SMTT(60)
        <4>2. CASE ~(j <= n)
          <5>1. b.Start <= bad[j].Start /\ bad[j].Start \in Int
            BY <1>1, <4>2
          <5> QED BY <1>2, <3>1, <5>1
        <4> QED BY <4>1, <4>2
      <3>4. t.Start <= u.Start /\ u.End <= t.End
        BY <1>1, <1>2, <1>3, <1>6, <3>1
      <3> QED BY <3>2, <3>3, <3>4 DEF Pieces
    <2> HIDE DEF u
    <2>4. r.kept \in Seq(Pieces(t, bad))
      <3>1. CASE b.Start > c
        BY <1>3, <2>1, <2>3, <3>1, AppendProperties
      <3>2. CASE ~(b.Start > c)
        BY <1>3, <2>1, <3>2
      <3> QED BY <3>1, <3>2
    <2>5. ASSUME NEW j \in 1..n
          PROVE  bad[j].End < r.cursor \/ t.End < bad[j].Start \/ t.End < r.cursor
      <3>1. bad[j].End \in Int
        BY <1>1
      <3> QED BY <1>1, <1>2, <1>3, <1>4, <1>6, <2>1, <2>2, <3>1, SMTT(60)
    <2> HIDE DEF r
    <2>6. CutUpTo(r, t, bad, n)
      BY <2>2, <2>4, <2>5 DEF CutUpTo
    <2> QED BY <2>6 DEF r
  <1> QED BY <1>5, <1>6

\* Nothing of a bad range is left of t, and nothing is added to it.
LEMMA FragmentsFacts ==
  ASSUME NEW t \in NonEmpty, NEW bad \in Seq(NonEmpty),
         \A i, j \in 1..Len(bad) : i < j => bad[i].Start <= bad[j].Start
  PROVE  Fragments(t, bad) \in Seq(Pieces(t, bad))
  <1>1. t \in Spans /\ bad \in Seq(Spans) /\ t.Start \in Int /\ t.End \in Int
    BY NonEmptySeq DEF NonEmpty, Spans
  <1>2. PICK N \in Nat : N = Len(bad)
    BY NonEmptySeq
  <1>3. PICK acc : /\ acc[0] = [kept |-> <<>>, cursor |-> t.Start]
                   /\ Fragments(t, bad) =
                         (IF acc[N].cursor <= t.End
                          THEN Append(acc[N].kept, Task(acc[N].cursor, t.End))
                          ELSE acc[N].kept)
                   /\ \A n \in 1..N : acc[n] = Subtract(t, acc[n - 1], bad[n])
    <2>1. PICK acc : /\ acc[0] = [kept |-> <<>>, cursor |-> t.Start]
                     /\ Fragments(t, bad) =
                           (IF acc[Len(bad)].cursor <= t.End
                            THEN Append(acc[Len(bad)].kept, Task(acc[Len(bad)].cursor, t.End))
                            ELSE acc[Len(bad)].kept)
                     /\ \A n \in 0..Len(bad) : acc[n] \in Cuts
                     /\ \A n \in 1..Len(bad) : acc[n] = Subtract(t, acc[n - 1], bad[n])
      BY <1>1, FragmentsFold, SMTT(60)
    <2> QED BY <1>2, <2>1
  <1> DEFINE T == {n \in 0..N : CutUpTo(acc[n], t, bad, n)}
  <1>4. 0 \in T
    <2>1. <<>> \in Seq(Pieces(t, bad)) /\ 1..0 = {}
      BY EmptySeq
    <2>2. acc[0].cursor = t.Start /\ acc[0].kept = <<>>
      BY <1>3
    <2>3. CutUpTo(acc[0], t, bad, 0)
      BY <1>1, <2>1, <2>2 DEF CutUpTo
    <2> QED BY <2>3
  <1>5. \A n \in 1..N : n - 1 \in T => n \in T
    <2> SUFFICES ASSUME NEW n \in 1..N, CutUpTo(acc[n - 1], t, bad, n - 1)
                 PROVE  CutUpTo(acc[n], t, bad, n)
      OBVIOUS
    <2>1. CutUpTo(Subtract(t, acc[n - 1], bad[n]), t, bad, n)
      BY <1>2, CutTurn
    <2> QED BY <1>3, <2>1
  <1>6. CutUpTo(acc[N], t, bad, N)
    <2> HIDE DEF T
    <2>1. \A n \in 0..N : n \in T
      BY <1>4, <1>5, UpTo, Zenon
    <2>2. N \in T
      BY <2>1
    <2> QED BY <2>2 DEF T
  <1> DEFINE c == acc[N].cursor
             u == Task(c, t.End)
  <1>7. /\ c \in Int /\ t.Start <= c /\ acc[N].kept \in Seq(Pieces(t, bad))
        /\ \A j \in 1..N : bad[j].End < c \/ t.End < bad[j].Start \/ t.End < c
    BY <1>6 DEF CutUpTo
  <1>8. c <= t.End => u \in Pieces(t, bad)
    <2> SUFFICES ASSUME c <= t.End PROVE u \in Pieces(t, bad)
      OBVIOUS
    <2>1. u \in Spans /\ u.Start = c /\ u.End = t.End
      BY <1>1, <1>7, TaskIsRange
    <2> HIDE DEF u
    <2>2. u \in NonEmpty /\ t.Start <= u.Start /\ u.End <= t.End
      BY <1>1, <1>7, <2>1 DEF NonEmpty
    <2>3. \A j \in 1..Len(bad) : u.End < bad[j].Start \/ bad[j].End < u.Start
      BY <1>1, <1>2, <1>7, <2>1
    <2> QED BY <2>2, <2>3 DEF Pieces
  <1> HIDE DEF u
  <1>9. CASE c <= t.End
    <2>1. Fragments(t, bad) = Append(acc[N].kept, u)
      BY <1>3, <1>9 DEF u
    <2> QED BY <1>7, <1>8, <1>9, <2>1, AppendProperties
  <1>10. CASE ~(c <= t.End)
    BY <1>3, <1>7, <1>10
  <1> QED BY <1>9, <1>10
\* What may be found in the accumulator while it is trimmed, and in what is
\* kept of it: parts of the completed ranges, the latter without a bad byte.
Inside(tasks) == {u \in NonEmpty : BytesOf(u) \subseteq Covered(tasks)}
Clean(tasks, bad) ==
    {u \in Inside(tasks) :
        \A j \in 1..Len(bad) : u.End < bad[j].Start \/ bad[j].End < u.Start}
Trims(tasks, bad) == [kept: Seq(Clean(tasks, bad)), array: [DOMAIN tasks -> Inside(tasks)]]

LEMMA BytesOfRange ==
  ASSUME NEW t \in Spans
  PROVE  \A b : b \in BytesOf(t) <=> b \in Int /\ t.Start <= b /\ b <= t.End
  <1>1. t.Start \in Int /\ t.End \in Int
    BY DEF Spans
  <1> QED BY <1>1 DEF BytesOf

LEMMA PiecesAreClean ==
  ASSUME NEW tasks, NEW bad, NEW t \in Inside(tasks)
  PROVE  Pieces(t, bad) \subseteq Clean(tasks, bad)
  <1> SUFFICES ASSUME NEW u \in Pieces(t, bad) PROVE u \in Inside(tasks)
    BY DEF Pieces, Clean
  <1>1. /\ t \in Spans /\ u \in Spans /\ u \in NonEmpty
        /\ t.Start <= u.Start /\ u.End <= t.End
        /\ t.Start \in Int /\ t.End \in Int /\ u.Start \in Int /\ u.End \in Int
    BY DEF Inside, Pieces, NonEmpty, Spans
  <1>2. BytesOf(u) \subseteq BytesOf(t)
    BY <1>1, BytesOfRange
  <1> QED BY <1>1, <1>2 DEF Inside

\* The slice that the loop reads and overwrites never holds anything foreign.
LEMMA DropStep ==
  ASSUME NEW tasks \in Seq(NonEmpty), NEW bad \in Seq(NonEmpty),
         \A i, j \in 1..Len(bad) : i < j => bad[i].Start <= bad[j].Start,
         NEW acc \in Trims(tasks, bad), NEW i \in DOMAIN tasks
  PROVE  DropTurn(bad, acc, i) \in Trims(tasks, bad)
  <1> DEFINE I == Inside(tasks)
             C == Clean(tasks, bad)
             f == Fragments(acc.array[i], bad)
             kept == acc.kept \o f
             array == [j \in DOMAIN acc.array |-> IF j <= Len(kept) THEN kept[j] ELSE acc.array[j]]
  <1>1. acc.kept \in Seq(C) /\ acc.array \in [DOMAIN tasks -> I]
    BY DEF Trims
  <1>2. DOMAIN acc.array = DOMAIN tasks /\ DOMAIN tasks = 1..Len(tasks) /\ Len(tasks) \in Nat
    BY <1>1, LenProperties
  <1>3. C \subseteq I /\ I \subseteq NonEmpty
    BY DEF Clean, Inside
  <1>4. f \in Seq(C)
    <2>1. acc.array[i] \in I /\ acc.array[i] \in NonEmpty
      BY <1>1, <1>3
    <2>2. f \in Seq(Pieces(acc.array[i], bad))
      BY <2>1, FragmentsFacts
    <2>3. Pieces(acc.array[i], bad) \subseteq C
      BY <2>1, PiecesAreClean
    <2> HIDE DEF f, C
    <2> QED BY <2>2, <2>3, SeqMonotonic
  <1> HIDE DEF f, C, I
  <1>5. kept \in Seq(C)
    BY <1>1, <1>4, ConcatProperties
  <1> HIDE DEF kept
  <1>6. ASSUME NEW j \in DOMAIN tasks PROVE array[j] \in I
    <2>1. CASE j <= Len(kept)
      <3>1. j \in 1..Len(kept) /\ kept[j] \in C
        BY <1>2, <1>5, <2>1, ElementOfSeq, LenProperties
      <3> QED BY <1>2, <1>3, <2>1, <3>1
    <2>2. CASE ~(j <= Len(kept))
      BY <1>1, <1>2, <2>2
    <2> QED BY <2>1, <2>2
  <1>7. array \in [DOMAIN tasks -> I]
    BY <1>2, <1>6
  <1>8. DropTurn(bad, acc, i) = [kept |-> kept, array |-> array]
    BY DEF DropTurn, kept, f
  <1> HIDE DEF array
  <1> QED BY <1>5, <1>7, <1>8 DEF Trims, I, C

\* The outer loop: out[i] is what is kept, and the slice, after i ranges.
LEMMA DropFold ==
  ASSUME NEW tasks \in Seq(NonEmpty), NEW bad \in Seq(NonEmpty),
         \A i, j \in 1..Len(bad) : i < j => bad[i].Start <= bad[j].Start
  PROVE  \E out : /\ out[0] = [kept |-> <<>>, array |-> tasks] /\ DropOverlapping(tasks, bad) = out[Len([i \in DOMAIN tasks |-> i])].kept
                  /\ \A n \in 0..Len([i \in DOMAIN tasks |-> i]) : out[n] \in Trims(tasks, bad)
                  /\ \A n \in 1..Len([i \in DOMAIN tasks |-> i]) : out[n] = DropTurn(bad, out[n - 1], [i \in DOMAIN tasks |-> i][n])
  <1> DEFINE s == [i \in DOMAIN tasks |-> i]
             N == Len(s)
             A == Trims(tasks, bad)
             step == [x \in A \X (1..N) |-> DropTurn(bad, x[1], s[x[2]])]
             F(g) == g = [ss \in SUBSET (DOMAIN s) |->
                             IF ss = {} THEN [kept |-> <<>>, array |-> tasks] ELSE DropTurn(bad, g[ss \ {Max(ss)}], s[Max(ss)])]
  <1>0. /\ N \in Nat /\ DOMAIN s = 1..N /\ \A n \in 1..N : s[n] \in DOMAIN tasks
        /\ [kept |-> <<>>, array |-> tasks] \in A
    <2>1. PICK L \in Nat : DOMAIN tasks = 1..L /\ tasks \in [1..L -> NonEmpty] /\ L = Len(tasks)
      BY LenProperties
    <2>2. s = [i \in 1..L |-> i] /\ Len(s) = L
      BY <2>1
    <2>3. <<>> \in Seq(Clean(tasks, bad))
      BY EmptySeq
    <2>4. \A i \in 1..L : tasks[i] \in Inside(tasks)
      BY <2>1 DEF Inside, Covered
    <2>5. tasks \in [DOMAIN tasks -> Inside(tasks)]
      BY <2>1, <2>4
    <2>6. [kept |-> <<>>, array |-> tasks] \in A
      BY <2>3, <2>5 DEF Trims
    <2> HIDE DEF A
    <2> QED BY <2>1, <2>2, <2>6
  <1>1. \A x \in A, n \in 1..N : DropTurn(bad, x, s[n]) \in A
    BY <1>0, DropStep
  <1> HIDE DEF s, A
  <1>2. PICK g : Folds(g, A, [kept |-> <<>>, array |-> tasks], N, step)
    <2>1. [kept |-> <<>>, array |-> tasks] \in A /\ N \in Nat /\ step \in [A \X (1..N) -> A]
      BY <1>0, <1>1
    <2> HIDE DEF step, N
    <2> QED BY <2>1, FoldExists, Zenon
  <1>3. \A ss \in SUBSET (1..N) : ss # {} => Max(ss) \in 1..N /\ ss \ {Max(ss)} \in SUBSET (1..N)
    BY <1>0, MaxInInterval
  <1>4. F(g)
    <2>1. ASSUME NEW ss \in SUBSET (1..N), ss # {}
          PROVE  step[<<g[ss \ {Max(ss)}], Max(ss)>>] = DropTurn(bad, g[ss \ {Max(ss)}], s[Max(ss)])
      BY <1>2, <1>3, <2>1 DEF Folds
    <2> DEFINE f == [ss \in SUBSET (1..N) |->
                        IF ss = {} THEN [kept |-> <<>>, array |-> tasks] ELSE DropTurn(bad, g[ss \ {Max(ss)}], s[Max(ss)])]
    <2> HIDE DEF step
    <2>2. \A ss \in SUBSET (1..N) : g[ss] = f[ss]
      BY <1>2, <2>1 DEF Folds
    <2>3. g = f
      BY <1>2, <2>2 DEF Folds
    <2> QED BY <1>0, <2>3
  <1> DEFINE it == CHOOSE it : F(it)
  <1>5. F(it)
    <2> HIDE DEF F
    <2> QED BY <1>4
  <1>6. DropOverlapping(tasks, bad) = it[1..N].kept
    BY <1>0 DEF DropOverlapping, FoldLeft, MapThenFoldSet, s
  <1>7. \A ss \in SUBSET (1..N) :
           it[ss] = IF ss = {} THEN [kept |-> <<>>, array |-> tasks] ELSE DropTurn(bad, it[ss \ {Max(ss)}], s[Max(ss)])
    <2> HIDE DEF it
    <2> QED BY <1>0, <1>5
  <1> HIDE DEF it
  <1> DEFINE out == [n \in 0..N |-> it[1..n]]
  <1>8. out[0] = [kept |-> <<>>, array |-> tasks] /\ out[N] = it[1..N]
    <2>1. 0 \in 0..N /\ N \in 0..N /\ 1..0 = {} /\ {} \in SUBSET (1..N)
      BY <1>0
    <2> QED BY <1>7, <2>1
  <1>9. ASSUME NEW n \in 1..N PROVE out[n] = DropTurn(bad, out[n - 1], s[n])
    <2>1. n - 1 \in 0..N /\ n \in 0..N
      BY <1>0
    <2>2. /\ Max(1..n) = n /\ (1..n) \ {n} = 1..(n - 1) /\ 1..n # {}
          /\ 1..n \in SUBSET (1..N)
      BY <1>0, <2>1, Intervals
    <2> QED BY <1>7, <2>1, <2>2
  <1> HIDE DEF out
  <1>10. \A n \in 0..N : out[n] \in A
    <2> DEFINE T == {n \in 0..N : out[n] \in A}
    <2>1. 0 \in T /\ N \in Nat
      BY <1>0, <1>8
    <2>2. \A n \in 1..N : n - 1 \in T => n \in T
      BY <1>0, <1>1, <1>9
    <2> HIDE DEF T, N
    <2>3. \A n \in 0..N : n \in T
      BY <2>1, <2>2, UpTo, Zenon
    <2> QED BY <2>3 DEF T
  <1> HIDE DEF F, step
  <1> QED BY <1>6, <1>8, <1>9, <1>10 DEF s, A

LEMMA DropFacts ==
  ASSUME NEW tasks \in Seq(NonEmpty), NEW bad \in Seq(NonEmpty),
         \A i, j \in 1..Len(bad) : i < j => bad[i].Start <= bad[j].Start
  PROVE  LET kept == DropOverlapping(tasks, bad)
         IN  /\ kept \in Seq(NonEmpty)
             /\ Covered(kept) \subseteq Covered(tasks)
             /\ Covered(kept) \cap Covered(bad) = {}
  <1> DEFINE kept == DropOverlapping(tasks, bad)
  <1>1. kept \in Seq(Clean(tasks, bad))
    <2> DEFINE s == [i \in DOMAIN tasks |-> i]
    <2>1. PICK out : kept = out[Len(s)].kept /\ \A n \in 0..Len(s) : out[n] \in Trims(tasks, bad)
      BY DropFold
    <2>2. Len(s) \in Nat
      <3>1. PICK L \in Nat : DOMAIN tasks = 1..L
        BY LenProperties
      <3> QED BY <3>1
    <2>3. out[Len(s)] \in Trims(tasks, bad)
      <3> HIDE DEF s
      <3> QED BY <2>1, <2>2
    <2> HIDE DEF s, kept
    <2> QED BY <2>1, <2>3 DEF Trims
  <1> HIDE DEF kept
  <1>2. kept \in Seq(NonEmpty) /\ kept \in Seq(Spans) /\ bad \in Seq(Spans)
    <2>1. Clean(tasks, bad) \subseteq NonEmpty
      BY DEF Clean, Inside
    <2>2. kept \in Seq(NonEmpty)
      BY <1>1, <2>1, SeqMonotonic
    <2> QED BY <2>2, NonEmptySeq
  <1>3. \A i \in 1..Len(kept) : /\ kept[i] \in Clean(tasks, bad) /\ kept[i] \in Spans
                                /\ kept[i].Start \in Int /\ kept[i].End \in Int
    <2>1. \A i \in 1..Len(kept) : kept[i] \in Clean(tasks, bad)
      BY <1>1, ElementOfSeq
    <2> QED BY <1>2, <2>1, NonEmptySeq
  <1>4. ASSUME NEW b \in Covered(kept) PROVE b \in Covered(tasks) /\ b \notin Covered(bad)
    <2>1. PICK i \in 1..Len(kept) : b \in Int /\ kept[i].Start <= b /\ b <= kept[i].End
      BY <1>2, CoveredBy
    <2>2. b \in Covered(tasks)
      BY <1>3, <2>1, BytesOfRange DEF Clean, Inside
    <2>3. \A j \in 1..Len(bad) : ~(bad[j].Start <= b /\ b <= bad[j].End)
      <3> SUFFICES ASSUME NEW j \in 1..Len(bad)
                   PROVE  ~(bad[j].Start <= b /\ b <= bad[j].End)
        OBVIOUS
      <3>1. kept[i].End < bad[j].Start \/ bad[j].End < kept[i].Start
        BY <1>3 DEF Clean
      <3>2. bad[j].Start \in Int /\ bad[j].End \in Int /\ kept[i].Start \in Int /\ kept[i].End \in Int
        BY <1>3, NonEmptySeq
      <3> QED BY <2>1, <3>1, <3>2
    <2> QED BY <1>2, <2>2, <2>3, CoveredBy
  <1> QED BY <1>2, <1>4 DEF kept

-----------------------------------------------------------------------------
(* The next run's queue: uncompleted, splitRange, seedQueue *)

Has(s, b) == \E i \in 1..Len(s) : s[i].Start <= b /\ b <= s[i].End

\* m is out with u behind it: still ordered, with the bytes of both.
Extended(m, out, u) ==
    /\ Len(m) = Len(out) + 1 /\ Len(out) \in Nat
    /\ Ordered(m)
    /\ \A i \in 1..Len(out) : m[i] = out[i]
    /\ m[Len(out) + 1] = u
    /\ \A b : Has(m, b) <=> Has(out, b) \/ (u.Start <= b /\ b <= u.End)

LEMMA OrderedAppend ==
  ASSUME NEW S \in SUBSET Spans, NEW out \in Seq(S), NEW u \in S, Ordered(out),
         \A i \in 1..Len(out) : out[i].End < u.Start
  PROVE  Append(out, u) \in Seq(S) /\ Extended(Append(out, u), out, u)
  <1> DEFINE m == Append(out, u)
  <1>1. PICK n \in Nat : n = Len(out)
    BY LenProperties
  <1>2. /\ m \in Seq(S) /\ Len(m) = n + 1 /\ \A i \in 1..n : m[i] = out[i]
        /\ m[n + 1] = u
    BY <1>1, AppendProperties
  <1> HIDE DEF m
  <1>3. \A i \in 1..(n + 1) : i = n + 1 \/ i \in 1..n
    OBVIOUS
  <1>4. Ordered(m)
    <2> SUFFICES ASSUME NEW i \in 1..(n + 1), NEW j \in 1..(n + 1), i < j
                 PROVE  m[i].End < m[j].Start
      BY <1>2 DEF Ordered
    <2>1. i \in 1..n /\ m[i] = out[i]
      BY <1>2
    <2>2. CASE j = n + 1
      BY <1>1, <1>2, <2>1, <2>2
    <2>3. CASE j # n + 1
      <3>1. j \in 1..n /\ m[j] = out[j]
        BY <1>2, <1>3, <2>3
      <3> QED BY <1>1, <2>1, <3>1 DEF Ordered
    <2> QED BY <2>2, <2>3
  <1>5. ASSUME NEW b PROVE Has(m, b) <=> Has(out, b) \/ (u.Start <= b /\ b <= u.End)
    <2>1. n + 1 \in 1..(n + 1) /\ \A i \in 1..n : i \in 1..(n + 1)
      OBVIOUS
    <2> QED BY <1>1, <1>2, <1>3, <2>1 DEF Has
  <1> QED BY <1>1, <1>2, <1>4, <1>5 DEF m, Extended

Gaps == [out: Seq(Spans), cursor: Int]

LEMMA SkipStep ==
  ASSUME NEW full \in Spans, NEW acc \in Gaps, NEW c \in Spans
  PROVE  /\ Skip(full, acc, c) \in Gaps
         /\ ~(c.End < c.Start \/ c.End < full.Start \/ c.Start > full.End) =>
               /\ Skip(full, acc, c).cursor =
                     IF acc.cursor >= c.End + 1 THEN acc.cursor ELSE c.End + 1
               /\ Skip(full, acc, c).out =
                     IF c.Start > acc.cursor
                     THEN Append(acc.out, Task(acc.cursor, c.Start - 1)) ELSE acc.out
  <1>1. c.Start - 1 \in Int /\ c.End + 1 \in Int /\ acc.cursor \in Int /\ acc.out \in Seq(Spans)
    BY DEF Spans, Gaps
  <1> DEFINE u == Task(acc.cursor, c.Start - 1)
             e == Max({acc.cursor, c.End + 1})
  <1>2. u \in Spans
    BY <1>1, TaskIsRange
  <1>3. e = IF acc.cursor >= c.End + 1 THEN acc.cursor ELSE c.End + 1
    BY <1>1, MaxOfTwo
  <1>4. e \in Int
    BY <1>1, <1>3
  <1> HIDE DEF u, e
  <1>5. Append(acc.out, u) \in Seq(Spans)
    BY <1>1, <1>2, AppendProperties
  <1>6. [out |-> IF c.Start > acc.cursor THEN Append(acc.out, u) ELSE acc.out,
         cursor |-> e] \in Gaps
    BY <1>1, <1>4, <1>5 DEF Gaps
  <1> QED BY <1>3, <1>6 DEF Skip, u, e

\* The loop of uncompleted: out[i] is its state after i completed ranges.
LEMMA UncompletedFold ==
  ASSUME NEW full \in Spans, NEW completedTasks \in Seq(Spans)
  PROVE  \E out : /\ out[0] = [out |-> <<>>, cursor |-> full.Start] /\ Uncompleted(full, completedTasks) =
                     (IF out[Len(SortedByStart(completedTasks))].cursor <= full.End THEN Append(out[Len(SortedByStart(completedTasks))].out, Task(out[Len(SortedByStart(completedTasks))].cursor, full.End))
                      ELSE out[Len(SortedByStart(completedTasks))].out)
                  /\ \A n \in 0..Len(SortedByStart(completedTasks)) : out[n] \in Gaps
                  /\ \A n \in 1..Len(SortedByStart(completedTasks)) : out[n] = Skip(full, out[n - 1], SortedByStart(completedTasks)[n])
  <1> DEFINE s == SortedByStart(completedTasks)
             N == Len(s)
             A == Gaps
             step == [x \in A \X (1..N) |-> Skip(full, x[1], s[x[2]])]
             F(g) == g = [ss \in SUBSET (DOMAIN s) |->
                             IF ss = {} THEN [out |-> <<>>, cursor |-> full.Start] ELSE Skip(full, g[ss \ {Max(ss)}], s[Max(ss)])]
  <1>0. /\ N \in Nat /\ DOMAIN s = 1..N /\ \A n \in 1..N : s[n] \in Spans
        /\ [out |-> <<>>, cursor |-> full.Start] \in A
    <2>1. s \in Seq(Spans)
      BY SortedFacts
    <2> HIDE DEF s
    <2>2. N \in Nat /\ DOMAIN s = 1..N /\ \A n \in 1..N : s[n] \in Spans
      BY <2>1, LenProperties, ElementOfSeq
    <2>3. <<>> \in Seq(Spans) /\ full.Start \in Int
      BY EmptySeq DEF Spans
    <2> QED BY <2>2, <2>3 DEF Gaps
  <1>1. \A x \in A, n \in 1..N : Skip(full, x, s[n]) \in A
    BY <1>0, SkipStep
  <1> HIDE DEF s, A
  <1>2. PICK g : Folds(g, A, [out |-> <<>>, cursor |-> full.Start], N, step)
    <2>1. [out |-> <<>>, cursor |-> full.Start] \in A /\ N \in Nat /\ step \in [A \X (1..N) -> A]
      BY <1>0, <1>1
    <2> HIDE DEF step, N
    <2> QED BY <2>1, FoldExists, Zenon
  <1>3. \A ss \in SUBSET (1..N) : ss # {} => Max(ss) \in 1..N /\ ss \ {Max(ss)} \in SUBSET (1..N)
    BY <1>0, MaxInInterval
  <1>4. F(g)
    <2>1. ASSUME NEW ss \in SUBSET (1..N), ss # {}
          PROVE  step[<<g[ss \ {Max(ss)}], Max(ss)>>] = Skip(full, g[ss \ {Max(ss)}], s[Max(ss)])
      BY <1>2, <1>3, <2>1 DEF Folds
    <2> DEFINE f == [ss \in SUBSET (1..N) |->
                        IF ss = {} THEN [out |-> <<>>, cursor |-> full.Start] ELSE Skip(full, g[ss \ {Max(ss)}], s[Max(ss)])]
    <2> HIDE DEF step
    <2>2. \A ss \in SUBSET (1..N) : g[ss] = f[ss]
      BY <1>2, <2>1 DEF Folds
    <2>3. g = f
      BY <1>2, <2>2 DEF Folds
    <2> QED BY <1>0, <2>3
  <1> DEFINE it == CHOOSE it : F(it)
  <1>5. F(it)
    <2> HIDE DEF F
    <2> QED BY <1>4
  <1>6. Uncompleted(full, completedTasks) =
                     (IF it[1..N].cursor <= full.End THEN Append(it[1..N].out, Task(it[1..N].cursor, full.End))
                      ELSE it[1..N].out)
    BY <1>0 DEF Uncompleted, FoldLeft, MapThenFoldSet, s
  <1>7. \A ss \in SUBSET (1..N) :
           it[ss] = IF ss = {} THEN [out |-> <<>>, cursor |-> full.Start] ELSE Skip(full, it[ss \ {Max(ss)}], s[Max(ss)])
    <2> HIDE DEF it
    <2> QED BY <1>0, <1>5
  <1> HIDE DEF it
  <1> DEFINE out == [n \in 0..N |-> it[1..n]]
  <1>8. out[0] = [out |-> <<>>, cursor |-> full.Start] /\ out[N] = it[1..N]
    <2>1. 0 \in 0..N /\ N \in 0..N /\ 1..0 = {} /\ {} \in SUBSET (1..N)
      BY <1>0
    <2> QED BY <1>7, <2>1
  <1>9. ASSUME NEW n \in 1..N PROVE out[n] = Skip(full, out[n - 1], s[n])
    <2>1. n - 1 \in 0..N /\ n \in 0..N
      BY <1>0
    <2>2. /\ Max(1..n) = n /\ (1..n) \ {n} = 1..(n - 1) /\ 1..n # {}
          /\ 1..n \in SUBSET (1..N)
      BY <1>0, <2>1, Intervals
    <2> QED BY <1>7, <2>1, <2>2
  <1> HIDE DEF out
  <1>10. \A n \in 0..N : out[n] \in A
    <2> DEFINE T == {n \in 0..N : out[n] \in A}
    <2>1. 0 \in T /\ N \in Nat
      BY <1>0, <1>8
    <2>2. \A n \in 1..N : n - 1 \in T => n \in T
      BY <1>0, <1>1, <1>9
    <2> HIDE DEF T, N
    <2>3. \A n \in 0..N : n \in T
      BY <2>1, <2>2, UpTo, Zenon
    <2> QED BY <2>3 DEF T
  <1> HIDE DEF F, step
  <1> QED BY <1>6, <1>8, <1>9, <1>10 DEF s, A

\* The gaps among the first n completed ranges; the cursor is behind them all.
GapsUpTo(acc, full, s, n) ==
    /\ acc.cursor \in Int /\ full.Start <= acc.cursor /\ acc.cursor <= full.End + 1
    /\ acc.out \in Seq(Pieces(full, s)) /\ Ordered(acc.out)
    /\ \A i \in 1..Len(acc.out) : acc.out[i].End < acc.cursor
    /\ \A j \in 1..n : s[j].End < acc.cursor
    /\ \A b \in Int : full.Start <= b /\ b < acc.cursor =>
          Has(acc.out, b) \/ \E j \in 1..n : s[j].Start <= b /\ b <= s[j].End

LEMMA SkipTurn ==
  ASSUME NEW full \in NonEmpty, NEW s \in Seq(NonEmpty),
         \A i, j \in 1..Len(s) : i < j => s[i].Start <= s[j].Start,
         \A i \in 1..Len(s) : full.Start <= s[i].Start /\ s[i].End <= full.End,
         NEW n \in 1..Len(s), NEW acc \in Gaps, GapsUpTo(acc, full, s, n - 1)
  PROVE  GapsUpTo(Skip(full, acc, s[n]), full, s, n)
  <1> DEFINE c == s[n]
             k == acc.cursor
             r == Skip(full, acc, c)
             u == Task(k, c.Start - 1)
  <1>1. /\ full \in Spans /\ full.Start \in Int /\ full.End \in Int
        /\ full.Start <= full.End /\ Len(s) \in Nat
        /\ \A j \in 1..Len(s) : /\ s[j].Start \in Int /\ s[j].End \in Int
                                /\ s[j].Start <= s[j].End
    BY NonEmptySeq DEF NonEmpty, Spans
  <1>2. /\ c \in Spans /\ c.Start \in Int /\ c.End \in Int /\ c.Start <= c.End
        /\ full.Start <= c.Start /\ c.End <= full.End
    BY NonEmptySeq
  <1>3. /\ k \in Int /\ full.Start <= k /\ k <= full.End + 1
        /\ acc.out \in Seq(Pieces(full, s)) /\ Ordered(acc.out)
        /\ \A i \in 1..Len(acc.out) : acc.out[i].End < k
        /\ \A b \in Int : full.Start <= b /\ b < k =>
              Has(acc.out, b) \/ \E j \in 1..(n - 1) : s[j].Start <= b /\ b <= s[j].End
    BY DEF GapsUpTo
  <1>4. \A j \in 1..n : j = n \/ (j \in 1..(n - 1) /\ s[j].End < k)
    <2>1. \A j \in 1..n : j = n \/ j \in 1..(n - 1)
      OBVIOUS
    <2> QED BY <2>1 DEF GapsUpTo
  <1>5. /\ r.cursor = IF k >= c.End + 1 THEN k ELSE c.End + 1
        /\ r.out = IF c.Start > k THEN Append(acc.out, u) ELSE acc.out
    <2>1. ~(c.End < c.Start \/ c.End < full.Start \/ c.Start > full.End)
      BY <1>1, <1>2
    <2>2. r.cursor = (IF k >= c.End + 1 THEN k ELSE c.End + 1)
      BY <1>1, <1>2, <2>1, SkipStep
    <2>3. r.out = (IF c.Start > k THEN Append(acc.out, u) ELSE acc.out)
      BY <1>1, <1>2, <2>1, SkipStep, SMTT(60)
    <2> QED BY <2>2, <2>3
  <1> HIDE DEF r
  <1>6. /\ r.cursor \in Int /\ full.Start <= r.cursor /\ r.cursor <= full.End + 1
        /\ k <= r.cursor /\ c.End < r.cursor /\ (r.cursor = k \/ r.cursor = c.End + 1)
    BY <1>1, <1>2, <1>3, <1>5, SMTT(60)
  <1>7. /\ Pieces(full, s) \in SUBSET Spans
        /\ \A i \in 1..Len(acc.out) : acc.out[i].End \in Int
    <2>1. \A i \in 1..Len(acc.out) : acc.out[i] \in Pieces(full, s)
      BY <1>3, ElementOfSeq
    <2> QED BY <2>1 DEF Pieces, NonEmpty, Spans
  <1>8. ASSUME NEW j \in 1..n PROVE s[j].End < r.cursor
    <2>1. s[j].End \in Int
      BY <1>1
    <2> QED BY <1>3, <1>4, <1>6, <2>1
  <1>9. n \in 1..n /\ \A j \in 1..(n - 1) : j \in 1..n
    OBVIOUS
  <1>10. CASE c.Start > k
    <2>1. u \in Spans /\ u.Start = k /\ u.End = c.Start - 1
      BY <1>2, <1>3, TaskIsRange
    <2> HIDE DEF u
    <2>2. u \in Pieces(full, s)
      <3>1. u \in NonEmpty /\ full.Start <= u.Start /\ u.End <= full.End
        BY <1>1, <1>2, <1>3, <1>10, <2>1, SMTT(60) DEF NonEmpty
      <3>2. ASSUME NEW j \in 1..Len(s) PROVE u.End < s[j].Start \/ s[j].End < u.Start
        <4>1. CASE j < n
          <5>1. j \in 1..n /\ j # n
            BY <1>1, <4>1
          <5> QED BY <1>4, <2>1, <5>1
        <4>2. CASE ~(j < n)
          <5>1. c.Start <= s[j].Start /\ s[j].Start \in Int
            BY <1>1, <1>2, <4>2
          <5> QED BY <1>2, <2>1, <5>1
        <4> QED BY <4>1, <4>2
      <3> QED BY <3>1, <3>2 DEF Pieces
    <2>3. /\ r.out \in Seq(Pieces(full, s)) /\ Len(r.out) = Len(acc.out) + 1
          /\ Len(acc.out) \in Nat /\ Ordered(r.out)
          /\ \A i \in 1..Len(acc.out) : r.out[i] = acc.out[i]
          /\ r.out[Len(acc.out) + 1] = u
          /\ \A b : Has(r.out, b) <=> Has(acc.out, b) \/ (u.Start <= b /\ b <= u.End)
      <3> DEFINE m == Append(acc.out, u)
      <3>1. r.out = m
        BY <1>5, <1>10 DEF u
      <3>2. \A i \in 1..Len(acc.out) : acc.out[i].End < u.Start
        BY <1>3, <2>1
      <3>3. m \in Seq(Pieces(full, s)) /\ Extended(m, acc.out, u)
        BY <1>3, <1>7, <2>2, <3>2, OrderedAppend
      <3> HIDE DEF m
      <3> QED BY <3>1, <3>3 DEF Extended
    <2>4. ASSUME NEW i \in 1..Len(r.out) PROVE r.out[i].End < r.cursor
      <3>1. CASE i = Len(acc.out) + 1
        <4>1. r.out[i].End = c.Start - 1
          BY <2>1, <2>3, <3>1
        <4> QED BY <1>2, <1>6, <4>1
      <3>2. CASE i # Len(acc.out) + 1
        <4>1. i \in 1..Len(acc.out)
          BY <2>3, <3>2
        <4>2. acc.out[i].End < k /\ acc.out[i].End \in Int
          BY <1>3, <1>7, <4>1
        <4>3. r.out[i] = acc.out[i]
          BY <2>3, <4>1
        <4>4. acc.out[i].End < r.cursor
          BY <1>3, <1>6, <4>2
        <4> QED BY <4>3, <4>4
      <3> QED BY <3>1, <3>2
    <2>5. ASSUME NEW b \in Int, full.Start <= b, b < r.cursor
          PROVE  Has(r.out, b) \/ \E j \in 1..n : s[j].Start <= b /\ b <= s[j].End
      <3>1. CASE b < k
        BY <1>3, <1>9, <2>3, <2>5, <3>1
      <3>2. CASE k <= b /\ b < c.Start
        BY <1>2, <1>3, <2>1, <2>3, <3>2
      <3>3. CASE c.Start <= b /\ b <= c.End
        BY <1>9, <3>3
      <3>4. b < k \/ (k <= b /\ b < c.Start) \/ (c.Start <= b /\ b <= c.End)
        BY <1>2, <1>3, <1>6, <1>10, <2>5, SMTT(60)
      <3> QED BY <3>1, <3>2, <3>3, <3>4
    <2>6. GapsUpTo(r, full, s, n)
      BY <1>6, <1>8, <2>3, <2>4, <2>5 DEF GapsUpTo
    <2> QED BY <2>6 DEF r
  <1>11. CASE ~(c.Start > k)
    <2>1. r.out = acc.out
      BY <1>5, <1>11
    <2>2. ASSUME NEW i \in 1..Len(acc.out) PROVE acc.out[i].End < r.cursor
      <3>1. acc.out[i].End < k /\ acc.out[i].End \in Int
        BY <1>3, <1>7
      <3> QED BY <1>3, <1>6, <3>1
    <2>3. ASSUME NEW b \in Int, full.Start <= b, b < r.cursor
          PROVE  Has(acc.out, b) \/ \E j \in 1..n : s[j].Start <= b /\ b <= s[j].End
      <3>1. CASE b < k
        BY <1>3, <1>9, <2>3, <3>1
      <3>2. CASE ~(b < k)
        <4>1. c.Start <= b /\ b <= c.End
          BY <1>2, <1>3, <1>6, <1>11, <2>3, <3>2
        <4> QED BY <1>9, <4>1
      <3> QED BY <3>1, <3>2
    <2>4. GapsUpTo(r, full, s, n)
      BY <1>3, <1>6, <1>8, <2>1, <2>2, <2>3 DEF GapsUpTo
    <2> QED BY <2>4 DEF r
  <1> QED BY <1>10, <1>11

\* uncompleted: in order, exactly the bytes of full that no range covers.
LEMMA UncompletedFacts ==
  ASSUME NEW full \in NonEmpty, NEW tasks \in Seq(NonEmpty),
         \A i \in 1..Len(tasks) : full.Start <= tasks[i].Start /\ tasks[i].End <= full.End
  PROVE  LET gaps == Uncompleted(full, tasks)
         IN  /\ gaps \in Seq(NonEmpty) /\ Ordered(gaps)
             /\ \A i \in 1..Len(gaps) : full.Start <= gaps[i].Start /\ gaps[i].End <= full.End
             /\ \A b \in Int : Has(gaps, b) <=> /\ full.Start <= b /\ b <= full.End
                                                /\ ~Has(tasks, b)
  <1> DEFINE gaps == Uncompleted(full, tasks)
             s == SortedByStart(tasks)
  <1>1. full \in Spans /\ tasks \in Seq(Spans) /\ full.Start \in Int /\ full.End \in Int
    BY NonEmptySeq DEF NonEmpty, Spans
  <1>2. /\ s \in Seq(NonEmpty) /\ Len(s) = Len(tasks)
        /\ \A i, j \in 1..Len(s) : i < j => s[i].Start <= s[j].Start
        /\ \A i \in 1..Len(s) : \E j \in 1..Len(tasks) : s[i] = tasks[j]
        /\ \A j \in 1..Len(tasks) : \E i \in 1..Len(s) : s[i] = tasks[j]
    <2>1. NonEmpty \in SUBSET Spans
      BY DEF NonEmpty
    <2> QED BY <2>1, SortedFacts
  <1>3. PICK acc : /\ acc[0] = [out |-> <<>>, cursor |-> full.Start]
                   /\ gaps = (IF acc[Len(s)].cursor <= full.End
                              THEN Append(acc[Len(s)].out, Task(acc[Len(s)].cursor, full.End))
                              ELSE acc[Len(s)].out)
                   /\ \A n \in 0..Len(s) : acc[n] \in Gaps
                   /\ \A n \in 1..Len(s) : acc[n] = Skip(full, acc[n - 1], s[n])
    BY <1>1, UncompletedFold
  <1> HIDE DEF gaps, s
  <1>4. PICK N \in Nat : N = Len(s)
    BY <1>2, NonEmptySeq
  <1>5. \A i \in 1..N : full.Start <= s[i].Start /\ s[i].End <= full.End
    BY <1>2, <1>4
  <1> DEFINE T == {n \in 0..N : GapsUpTo(acc[n], full, s, n)}
  <1>6. 0 \in T
    <2>1. acc[0].cursor = full.Start /\ acc[0].out = <<>>
      BY <1>3
    <2>2. <<>> \in Seq(Pieces(full, s)) /\ Len(<<>>) = 0 /\ 1..0 = {} /\ Ordered(<<>>)
      BY EmptySeq DEF Ordered
    <2>3. full.Start <= full.End
      BY DEF NonEmpty
    <2>4. GapsUpTo(acc[0], full, s, 0)
      BY <1>1, <2>1, <2>2, <2>3 DEF GapsUpTo
    <2> QED BY <2>4
  <1>7. \A n \in 1..N : n - 1 \in T => n \in T
    <2> SUFFICES ASSUME NEW n \in 1..N, GapsUpTo(acc[n - 1], full, s, n - 1)
                 PROVE  GapsUpTo(acc[n], full, s, n)
      OBVIOUS
    <2>1. acc[n - 1] \in Gaps /\ n \in 1..Len(s)
      BY <1>3, <1>4
    <2>2. GapsUpTo(Skip(full, acc[n - 1], s[n]), full, s, n)
      BY <1>2, <1>4, <1>5, <2>1, SkipTurn
    <2> QED BY <1>3, <1>4, <2>2
  <1>8. GapsUpTo(acc[N], full, s, N)
    <2> HIDE DEF T
    <2>1. \A n \in 0..N : n \in T
      BY <1>6, <1>7, UpTo, Zenon
    <2>2. N \in T
      BY <2>1
    <2> QED BY <2>2 DEF T
  <1> DEFINE out == acc[N].out
             k == acc[N].cursor
             u == Task(k, full.End)
  <1>9. /\ k \in Int /\ full.Start <= k /\ k <= full.End + 1
        /\ out \in Seq(Pieces(full, s)) /\ Ordered(out)
        /\ \A i \in 1..Len(out) : out[i].End < k
        /\ \A j \in 1..N : s[j].End < k
        /\ \A b \in Int : full.Start <= b /\ b < k => Has(out, b) \/ Has(s, b)
    BY <1>4, <1>8 DEF GapsUpTo, Has
  <1>10. gaps = IF k <= full.End THEN Append(out, u) ELSE out
    BY <1>3, <1>4
  <1> HIDE DEF out, k
  <1>11. \A b : Has(s, b) <=> Has(tasks, b)
    BY <1>2 DEF Has
  <1>12. Pieces(full, s) \in SUBSET Spans /\ Pieces(full, s) \subseteq NonEmpty
    BY DEF Pieces, NonEmpty
  <1>13. gaps \in Seq(Pieces(full, s)) /\ Ordered(gaps)
         /\ \A b \in Int : full.Start <= b /\ b <= full.End => Has(gaps, b) \/ Has(s, b)
    <2>1. CASE k <= full.End
      <3>1. u \in Spans /\ u.Start = k /\ u.End = full.End
        BY <1>1, <1>9, TaskIsRange
      <3>2. gaps = Append(out, u)
        BY <1>10, <2>1
      <3> HIDE DEF u
      <3>3. u \in Pieces(full, s)
        <4>1. u \in NonEmpty /\ full.Start <= u.Start /\ u.End <= full.End
          BY <1>1, <1>9, <2>1, <3>1 DEF NonEmpty
        <4>2. \A j \in 1..Len(s) : u.End < s[j].Start \/ s[j].End < u.Start
          BY <1>4, <1>9, <3>1
        <4> QED BY <4>1, <4>2 DEF Pieces
      <3>4. \A i \in 1..Len(out) : out[i].End < u.Start
        BY <1>9, <3>1
      <3>5. gaps \in Seq(Pieces(full, s)) /\ Extended(gaps, out, u)
        BY <1>9, <1>12, <3>2, <3>3, <3>4, OrderedAppend
      <3>6. ASSUME NEW b \in Int, full.Start <= b, b <= full.End
            PROVE  Has(gaps, b) \/ Has(s, b)
        <4>1. b < k \/ (u.Start <= b /\ b <= u.End)
          BY <1>9, <3>1, <3>6
        <4> QED BY <1>9, <3>5, <3>6, <4>1 DEF Extended
      <3> QED BY <3>5, <3>6 DEF Extended
    <2>2. CASE ~(k <= full.End)
      <3>1. gaps = out
        BY <1>10, <2>2
      <3>2. \A b \in Int : b <= full.End => b < k
        BY <1>1, <1>9, <2>2
      <3> QED BY <1>9, <3>1, <3>2
    <2> QED BY <2>1, <2>2
  <1>14. \A i \in 1..Len(gaps) : /\ gaps[i] \in Pieces(full, s)
                                 /\ gaps[i].Start \in Int /\ gaps[i].End \in Int
                                 /\ full.Start <= gaps[i].Start /\ gaps[i].End <= full.End
    <2>1. \A i \in 1..Len(gaps) : gaps[i] \in Pieces(full, s)
      BY <1>13, ElementOfSeq
    <2> QED BY <2>1 DEF Pieces, NonEmpty, Spans
  <1>15. gaps \in Seq(NonEmpty)
    BY <1>12, <1>13, SeqMonotonic
  <1>16. ASSUME NEW b \in Int, Has(gaps, b)
         PROVE  full.Start <= b /\ b <= full.End /\ ~Has(s, b)
    <2>1. PICK i \in 1..Len(gaps) : gaps[i].Start <= b /\ b <= gaps[i].End
      BY <1>16 DEF Has
    <2>2. ASSUME NEW j \in 1..Len(s) PROVE ~(s[j].Start <= b /\ b <= s[j].End)
      <3>1. gaps[i].End < s[j].Start \/ s[j].End < gaps[i].Start
        BY <1>14 DEF Pieces
      <3>2. s[j].Start \in Int /\ s[j].End \in Int /\ gaps[i].Start \in Int /\ gaps[i].End \in Int
        BY <1>2, <1>14, NonEmptySeq
      <3> QED BY <2>1, <3>1, <3>2
    <2>3. full.Start <= b /\ b <= full.End
      BY <1>1, <1>14, <2>1
    <2> QED BY <2>2, <2>3 DEF Has
  <1>17. \A b \in Int : Has(gaps, b) <=> /\ full.Start <= b /\ b <= full.End
                                         /\ ~Has(tasks, b)
    BY <1>11, <1>13, <1>16
  <1> QED BY <1>13, <1>14, <1>15, <1>17 DEF gaps

LEMMA CeilDivFacts ==
  ASSUME NEW a \in Nat, NEW b \in Nat \ {0}
  PROVE  CeilDiv(a, b) \in 0..a /\ (a >= 1 => CeilDiv(a, b) >= 1)
  <1> DEFINE q == a \div b
             r == a % b
  <1>1. q \in Int /\ r \in 0..(b - 1) /\ a = b * q + r
    OBVIOUS
  <1> HIDE DEF q, r
  <1>2. q >= 0
    <2> SUFFICES ASSUME q <= -1 PROVE FALSE
      BY <1>1
    <2>1. b * q <= b * (-1)
      BY <1>1
    <2> QED BY <1>1, <2>1
  <1>3. q <= b * q
    BY <1>1, <1>2
  <1>4. r # 0 => q + 1 <= a
    BY <1>1, <1>2, <1>3
  <1>5. r = 0 /\ a >= 1 => q >= 1
    BY <1>1, <1>2
  <1>6. CeilDiv(a, b) = q + (IF r # 0 THEN 1 ELSE 0)
    BY DEF CeilDiv, q, r
  <1> QED BY <1>1, <1>2, <1>3, <1>4, <1>5, <1>6

\* splitRange's end and the chunk it uses
EndOf(offset, length) == IF offset > MaxInt - length THEN MaxInt ELSE offset + length
ChunkOf(length, chunkSize) ==
    IF CeilDiv(length, chunkSize) > MaxSeedTasks
    THEN CeilDiv(length, MaxSeedTasks) ELSE chunkSize
CursorOf(offset, out) == IF out = <<>> THEN offset ELSE out[Len(out)].End + 1

LEMMA SplitArguments ==
  ASSUME NEW offset \in Nat, NEW length \in Nat \ {0}, NEW chunkSize \in 1..MaxInt,
         offset + length <= MaxInt
  PROVE  /\ EndOf(offset, length) = offset + length
         /\ ChunkOf(length, chunkSize) \in 1..MaxInt
         /\ MaxInt \in Nat /\ MaxSeedTasks \in Nat \ {0}
  <1>1. MaxInt \in Nat /\ MaxSeedTasks \in Nat \ {0}
    BY SeedAssumption
  <1>2. CeilDiv(length, MaxSeedTasks) \in 1..length
    BY <1>1, CeilDivFacts
  <1> QED BY <1>1, <1>2 DEF EndOf, ChunkOf

\* The next task ends behind its start and not behind the end, overflow or not.
LEMMA StopFacts ==
  ASSUME MaxInt \in Nat, NEW cursor \in Nat, NEW chunk \in 1..MaxInt, NEW end \in 0..MaxInt,
         cursor < end
  PROVE  Stop(cursor, chunk, end) \in (cursor + 1)..end
  <1> DEFINE stop == Wrap(cursor + chunk)
  <1>1. CASE cursor + chunk > MaxInt
    <2>1. stop = cursor + chunk - 2 * (MaxInt + 1)
      BY <1>1 DEF Wrap
    <2>2. stop < cursor
      BY <2>1
    <2> QED BY <2>2 DEF Stop
  <1>2. CASE ~(cursor + chunk > MaxInt)
    <2>1. stop = cursor + chunk
      BY <1>2 DEF Wrap
    <2> QED BY <2>1 DEF Stop
  <1> QED BY <1>1, <1>2

\* One turn: nothing more to do, or one task from the cursor on.
Continues(next, out, cursor, end, i) ==
    /\ cursor >= end => next = out
    /\ cursor < end => \E e \in (cursor + 1)..end : /\ next = Append(out, Task(cursor, e - 1))
                                                    /\ i = MaxSeedTasks => e = end

LEMMA SplitStep ==
  ASSUME MaxInt \in Nat, MaxSeedTasks \in Nat \ {0},
         NEW offset \in Nat, NEW end \in 0..MaxInt, NEW chunk \in 1..MaxInt,
         NEW out \in Seq(Spans), NEW i \in Nat, CursorOf(offset, out) \in Nat
  PROVE  Continues(SplitTurn(offset, end, chunk, out, i), out, CursorOf(offset, out), end, i)
  <1> DEFINE cursor == CursorOf(offset, out)
             next == SplitTurn(offset, end, chunk, out, i)
  <1>1. cursor >= end => next = out
    BY DEF SplitTurn, CursorOf
  <1>2. ASSUME cursor < end
        PROVE  \E e \in (cursor + 1)..end : /\ next = Append(out, Task(cursor, e - 1))
                                            /\ i = MaxSeedTasks => e = end
    <2> DEFINE e == IF i = MaxSeedTasks THEN end ELSE Stop(cursor, chunk, end)
    <2>1. e \in (cursor + 1)..end
      <3>1. Stop(cursor, chunk, end) \in (cursor + 1)..end
        BY <1>2, StopFacts
      <3>2. end \in (cursor + 1)..end
        BY <1>2
      <3> QED BY <3>1, <3>2
    <2>2. next = Append(out, Task(cursor, e - 1))
      BY <1>2 DEF SplitTurn, CursorOf
    <2>3. i = MaxSeedTasks => e = end
      OBVIOUS
    <2> HIDE DEF e, next
    <2> QED BY <2>1, <2>2, <2>3
  <1> QED BY <1>1, <1>2 DEF Continues

LEMMA SplitClosed ==
  ASSUME NEW offset \in Nat, NEW length \in Nat \ {0}, NEW chunkSize \in 1..MaxInt,
         offset + length <= MaxInt,
         NEW out \in {x \in Seq(Spans) : CursorOf(offset, x) \in Nat}, NEW i \in Nat
  PROVE  SplitTurn(offset, EndOf(offset, length), ChunkOf(length, chunkSize), out, i)
            \in {x \in Seq(Spans) : CursorOf(offset, x) \in Nat}
  <1> DEFINE end == EndOf(offset, length)
             chunk == ChunkOf(length, chunkSize)
             c == CursorOf(offset, out)
             r == SplitTurn(offset, end, chunk, out, i)
  <1>1. MaxInt \in Nat /\ MaxSeedTasks \in Nat \ {0} /\ end \in 0..MaxInt /\ chunk \in 1..MaxInt
    <2>1. /\ end = offset + length /\ chunk \in 1..MaxInt
          /\ MaxInt \in Nat /\ MaxSeedTasks \in Nat \ {0}
      BY SplitArguments, Zenon
    <2> HIDE DEF end, chunk
    <2> QED BY <2>1
  <1> HIDE DEF end, chunk
  <1>2. /\ c >= end => r = out
        /\ c < end => \E e \in (c + 1)..end : /\ r = Append(out, Task(c, e - 1))
                                              /\ i = MaxSeedTasks => e = end
    <2>1. out \in Seq(Spans) /\ c \in Nat
      OBVIOUS
    <2>2. Continues(r, out, c, end, i)
      BY <1>1, <2>1, SplitStep
    <2> QED BY <2>2 DEF Continues
  <1> HIDE DEF r
  <1>3. CASE c >= end
    BY <1>2, <1>3 DEF r, end, chunk
  <1>4. CASE c < end
    <2>1. PICK e \in (c + 1)..end : r = Append(out, Task(c, e - 1))
      BY <1>2, <1>4
    <2> DEFINE u == Task(c, e - 1)
    <2>2. u \in Spans /\ u.End = e - 1 /\ e \in Nat
      BY <1>1, <2>1, TaskIsRange
    <2>3. r = Append(out, u)
      BY <2>1
    <2> HIDE DEF u
    <2>4. Len(out) \in Nat
      BY LenProperties
    <2>5. r \in Seq(Spans) /\ Len(r) = Len(out) + 1 /\ r[Len(out) + 1] = u
      BY <2>2, <2>3, AppendProperties
    <2>6. r # <<>>
      <3>1. Len(<<>>) = 0 /\ Len(r) # 0
        BY <2>4, <2>5, EmptySeq
      <3> QED BY <3>1, Zenon
    <2>7. CursorOf(offset, r) = e
      BY <2>2, <2>5, <2>6 DEF CursorOf
    <2> QED BY <2>2, <2>5, <2>7 DEF r, end, chunk
  <1> QED BY <1>1, <1>3, <1>4

\* The loop of splitRange: out[i] is its output after i turns.
LEMMA SplitFold ==
  ASSUME NEW offset \in Nat, NEW length \in Nat \ {0}, NEW chunkSize \in 1..MaxInt,
         offset + length <= MaxInt
  PROVE  \E out : /\ out[0] = <<>> /\ SplitRange(offset, length, chunkSize) = out[Len([i \in 1..MaxSeedTasks |-> i])]
                  /\ \A n \in 0..Len([i \in 1..MaxSeedTasks |-> i]) : out[n] \in {x \in Seq(Spans) : CursorOf(offset, x) \in Nat}
                  /\ \A n \in 1..Len([i \in 1..MaxSeedTasks |-> i]) : out[n] = SplitTurn(offset, EndOf(offset, length), ChunkOf(length, chunkSize), out[n - 1], [i \in 1..MaxSeedTasks |-> i][n])
  <1> DEFINE s == [i \in 1..MaxSeedTasks |-> i]
             N == Len(s)
             A == {x \in Seq(Spans) : CursorOf(offset, x) \in Nat}
             step == [x \in A \X (1..N) |-> SplitTurn(offset, EndOf(offset, length), ChunkOf(length, chunkSize), x[1], s[x[2]])]
             F(g) == g = [ss \in SUBSET (DOMAIN s) |->
                             IF ss = {} THEN <<>> ELSE SplitTurn(offset, EndOf(offset, length), ChunkOf(length, chunkSize), g[ss \ {Max(ss)}], s[Max(ss)])]
  <1>0. /\ N \in Nat /\ DOMAIN s = 1..N /\ \A n \in 1..N : s[n] \in Nat
        /\ <<>> \in A
    <2>1. MaxSeedTasks \in Nat
      BY SeedAssumption
    <2>2. <<>> \in Seq(Spans) /\ CursorOf(offset, <<>>) \in Nat
      BY EmptySeq DEF CursorOf
    <2> QED BY <2>1, <2>2
  <1>1. \A x \in A, n \in 1..N : SplitTurn(offset, EndOf(offset, length), ChunkOf(length, chunkSize), x, s[n]) \in A
    BY <1>0, SplitClosed
  <1> HIDE DEF s, A
  <1>2. PICK g : Folds(g, A, <<>>, N, step)
    <2>1. <<>> \in A /\ N \in Nat /\ step \in [A \X (1..N) -> A]
      BY <1>0, <1>1
    <2> HIDE DEF step, N
    <2> QED BY <2>1, FoldExists, Zenon
  <1>3. \A ss \in SUBSET (1..N) : ss # {} => Max(ss) \in 1..N /\ ss \ {Max(ss)} \in SUBSET (1..N)
    BY <1>0, MaxInInterval
  <1>4. F(g)
    <2>1. ASSUME NEW ss \in SUBSET (1..N), ss # {}
          PROVE  step[<<g[ss \ {Max(ss)}], Max(ss)>>] = SplitTurn(offset, EndOf(offset, length), ChunkOf(length, chunkSize), g[ss \ {Max(ss)}], s[Max(ss)])
      BY <1>2, <1>3, <2>1 DEF Folds
    <2> DEFINE f == [ss \in SUBSET (1..N) |->
                        IF ss = {} THEN <<>> ELSE SplitTurn(offset, EndOf(offset, length), ChunkOf(length, chunkSize), g[ss \ {Max(ss)}], s[Max(ss)])]
    <2> HIDE DEF step
    <2>2. \A ss \in SUBSET (1..N) : g[ss] = f[ss]
      BY <1>2, <2>1 DEF Folds
    <2>3. g = f
      BY <1>2, <2>2 DEF Folds
    <2> QED BY <1>0, <2>3
  <1> DEFINE it == CHOOSE it : F(it)
  <1>5. F(it)
    <2> HIDE DEF F
    <2> QED BY <1>4
  <1>6. SplitRange(offset, length, chunkSize) = it[1..N]
    BY <1>0 DEF SplitRange, EndOf, ChunkOf, FoldLeft, MapThenFoldSet, s
  <1>7. \A ss \in SUBSET (1..N) :
           it[ss] = IF ss = {} THEN <<>> ELSE SplitTurn(offset, EndOf(offset, length), ChunkOf(length, chunkSize), it[ss \ {Max(ss)}], s[Max(ss)])
    <2> HIDE DEF it
    <2> QED BY <1>0, <1>5
  <1> HIDE DEF it
  <1> DEFINE out == [n \in 0..N |-> it[1..n]]
  <1>8. out[0] = <<>> /\ out[N] = it[1..N]
    <2>1. 0 \in 0..N /\ N \in 0..N /\ 1..0 = {} /\ {} \in SUBSET (1..N)
      BY <1>0
    <2> QED BY <1>7, <2>1
  <1>9. ASSUME NEW n \in 1..N PROVE out[n] = SplitTurn(offset, EndOf(offset, length), ChunkOf(length, chunkSize), out[n - 1], s[n])
    <2>1. n - 1 \in 0..N /\ n \in 0..N
      BY <1>0
    <2>2. /\ Max(1..n) = n /\ (1..n) \ {n} = 1..(n - 1) /\ 1..n # {}
          /\ 1..n \in SUBSET (1..N)
      BY <1>0, <2>1, Intervals
    <2> QED BY <1>7, <2>1, <2>2
  <1> HIDE DEF out
  <1>10. \A n \in 0..N : out[n] \in A
    <2> DEFINE T == {n \in 0..N : out[n] \in A}
    <2>1. 0 \in T /\ N \in Nat
      BY <1>0, <1>8
    <2>2. \A n \in 1..N : n - 1 \in T => n \in T
      BY <1>0, <1>1, <1>9
    <2> HIDE DEF T, N
    <2>3. \A n \in 0..N : n \in T
      BY <2>1, <2>2, UpTo, Zenon
    <2> QED BY <2>3 DEF T
  <1> HIDE DEF F, step
  <1> QED BY <1>6, <1>8, <1>9, <1>10 DEF s, A

\* The output after n turns: contiguous from offset to the cursor.
SplitUpTo(out, offset, end, n) ==
    LET cursor == CursorOf(offset, out) IN
    /\ out \in Seq(NonEmpty) /\ Len(out) <= n /\ Ordered(out)
    /\ cursor \in offset..end /\ (n = MaxSeedTasks => cursor = end)
    /\ \A i \in 1..Len(out) : out[i].End < cursor
    /\ \A i \in 1..(Len(out) - 1) : out[i].End + 1 = out[i + 1].Start
    /\ \A b \in Int : Has(out, b) <=> offset <= b /\ b < cursor

LEMMA SplitOneMore ==
  ASSUME MaxInt \in Nat, MaxSeedTasks \in Nat \ {0},
         NEW offset \in Nat, NEW end \in 0..MaxInt, NEW chunk \in 1..MaxInt,
         NEW n \in 1..MaxSeedTasks, NEW out, SplitUpTo(out, offset, end, n - 1)
  PROVE  SplitUpTo(SplitTurn(offset, end, chunk, out, n), offset, end, n)
  <1> DEFINE c == CursorOf(offset, out)
             r == SplitTurn(offset, end, chunk, out, n)
  <1>1. /\ out \in Seq(NonEmpty) /\ Len(out) <= n - 1 /\ Ordered(out)
        /\ c \in offset..end
        /\ \A i \in 1..Len(out) : out[i].End < c
        /\ \A i \in 1..(Len(out) - 1) : out[i].End + 1 = out[i + 1].Start
        /\ \A b \in Int : Has(out, b) <=> offset <= b /\ b < c
    BY DEF SplitUpTo
  <1>2. out \in Seq(Spans) /\ Len(out) \in Nat /\ c \in Nat /\ c <= end
    BY <1>1, NonEmptySeq
  <1>3. /\ c >= end => r = out
        /\ c < end => \E e \in (c + 1)..end : /\ r = Append(out, Task(c, e - 1))
                                              /\ n = MaxSeedTasks => e = end
    <2>1. Continues(r, out, c, end, n)
      BY <1>2, SplitStep
    <2> QED BY <2>1 DEF Continues
  <1>4. CASE c >= end
    <2>1. r = out /\ c = end
      BY <1>2, <1>3, <1>4
    <2>2. Len(out) <= n
      BY <1>1, <1>2
    <2> HIDE DEF r
    <2>3. SplitUpTo(r, offset, end, n)
      BY <1>1, <2>1, <2>2 DEF SplitUpTo
    <2> QED BY <2>3 DEF r
  <1>5. CASE c < end
    <2>1. PICK e \in (c + 1)..end : /\ r = Append(out, Task(c, e - 1))
                                    /\ n = MaxSeedTasks => e = end
      BY <1>3, <1>5
    <2> DEFINE u == Task(c, e - 1)
    <2>2. u \in Spans /\ u.Start = c /\ u.End = e - 1 /\ c <= e - 1
      BY <1>2, <2>1, TaskIsRange, SMTT(60)
    <2>3. r = Append(out, u)
      BY <2>1
    <2> HIDE DEF u, r, c
    <2>4. u \in NonEmpty /\ NonEmpty \in SUBSET Spans
      BY <2>2 DEF NonEmpty
    <2>5. \A i \in 1..Len(out) : out[i].End < u.Start
      BY <1>1, <2>2
    <2>6. r \in Seq(NonEmpty) /\ Extended(r, out, u)
      BY <1>1, <2>3, <2>4, <2>5, OrderedAppend
    <2>7. /\ Len(r) = Len(out) + 1 /\ r[Len(out) + 1] = u
          /\ \A i \in 1..Len(out) : r[i] = out[i]
          /\ Ordered(r) /\ \A b : Has(r, b) <=> Has(out, b) \/ (u.Start <= b /\ b <= u.End)
      BY <2>6 DEF Extended
    <2>8. r # <<>> /\ CursorOf(offset, r) = e
      <3>1. Len(<<>>) = 0 /\ Len(r) # 0
        BY <1>2, <2>7, EmptySeq
      <3>2. r # <<>>
        BY <3>1, Zenon
      <3> QED BY <2>2, <2>7, <3>2 DEF CursorOf
    <2>9. ASSUME NEW i \in 1..Len(r) PROVE r[i].End < e
      <3>1. CASE i = Len(out) + 1
        BY <2>2, <2>7, <3>1
      <3>2. CASE i # Len(out) + 1
        <4>1. i \in 1..Len(out) /\ r[i] = out[i]
          BY <1>2, <2>7, <3>2
        <4>2. out[i].End < c /\ out[i].End \in Int
          BY <1>1, <4>1, NonEmptySeq
        <4>3. out[i].End < e
          BY <1>2, <2>1, <4>2
        <4> QED BY <4>1, <4>3
      <3> QED BY <3>1, <3>2
    <2>10. ASSUME NEW i \in 1..(Len(r) - 1) PROVE r[i].End + 1 = r[i + 1].Start
      <3>1. i \in 1..Len(out) /\ r[i] = out[i] /\ Len(out) \in 1..Len(out)
        BY <1>2, <2>7
      <3>2. CASE i = Len(out)
        <4>1. c = out[Len(out)].End + 1
          <5>1. out # <<>>
            BY <3>1, EmptySeq
          <5> QED BY <5>1 DEF c, CursorOf
        <4> QED BY <2>2, <2>7, <3>1, <3>2, <4>1
      <3>3. CASE i # Len(out)
        <4>1. i \in 1..(Len(out) - 1) /\ i + 1 \in 1..Len(out)
          BY <1>2, <3>1, <3>3
        <4> QED BY <1>1, <2>7, <3>1, <4>1
      <3> QED BY <3>2, <3>3
    <2>11. ASSUME NEW b \in Int PROVE Has(r, b) <=> offset <= b /\ b < e
      <3>1. Has(r, b) <=> (offset <= b /\ b < c) \/ (c <= b /\ b <= e - 1)
        BY <1>1, <2>2, <2>7
      <3> QED BY <1>1, <1>2, <2>1, <3>1
    <2>12. e \in offset..end /\ Len(r) <= n
      BY <1>1, <1>2, <2>1, <2>7
    <2>13. SplitUpTo(r, offset, end, n)
      BY <2>1, <2>6, <2>7, <2>8, <2>9, <2>10, <2>11, <2>12 DEF SplitUpTo
    <2> QED BY <2>13 DEF r
  <1> QED BY <1>2, <1>4, <1>5

\* splitRange: contiguous, from offset to the end, never too many tasks.
LEMMA SplitFacts ==
  ASSUME NEW offset \in Nat, NEW length \in Nat \ {0}, NEW chunkSize \in 1..MaxInt,
         offset + length <= MaxInt
  PROVE  LET out == SplitRange(offset, length, chunkSize)
         IN  /\ out \in Seq(NonEmpty) /\ Len(out) <= MaxSeedTasks /\ Ordered(out)
             /\ \A i \in 1..(Len(out) - 1) : out[i].End + 1 = out[i + 1].Start
             /\ \A b \in Int : Has(out, b) <=> offset <= b /\ b < offset + length
  <1> DEFINE end == EndOf(offset, length)
             chunk == ChunkOf(length, chunkSize)
             s == [i \in 1..MaxSeedTasks |-> i]
             r == SplitRange(offset, length, chunkSize)
  <1>1. /\ MaxInt \in Nat /\ MaxSeedTasks \in Nat \ {0}
        /\ end = offset + length /\ end \in 0..MaxInt /\ chunk \in 1..MaxInt
    <2>1. /\ end = offset + length /\ chunk \in 1..MaxInt
          /\ MaxInt \in Nat /\ MaxSeedTasks \in Nat \ {0}
      BY SplitArguments, Zenon
    <2> HIDE DEF end, chunk
    <2> QED BY <2>1
  <1> DEFINE N == MaxSeedTasks
  <1>2. Len(s) = N /\ \A n \in 1..N : s[n] = n
    BY <1>1
  <1> HIDE DEF s, r, end, chunk
  <1>3. PICK out : /\ out[0] = <<>> /\ r = out[N]
                   /\ \A n \in 1..N : out[n] = SplitTurn(offset, end, chunk, out[n - 1], n)
    <2>1. PICK out : /\ out[0] = <<>> /\ r = out[Len(s)]
                     /\ \A n \in 0..Len(s) :
                           out[n] \in {x \in Seq(Spans) : CursorOf(offset, x) \in Nat}
                     /\ \A n \in 1..Len(s) : out[n] = SplitTurn(offset, end, chunk, out[n - 1], s[n])
      BY SplitFold DEF s, r, end, chunk
    <2>2. \A n \in 1..N : out[n] = SplitTurn(offset, end, chunk, out[n - 1], n)
      BY <1>2, <2>1
    <2> QED BY <1>2, <2>1, <2>2
  <1> DEFINE T == {n \in 0..N : SplitUpTo(out[n], offset, end, n)}
  <1>4. 0 \in T
    <2>1. <<>> \in Seq(NonEmpty) /\ Len(<<>>) = 0 /\ 1..0 = {}
      BY EmptySeq
    <2>2. CursorOf(offset, <<>>) = offset /\ Ordered(<<>>)
      BY <2>1 DEF CursorOf, Ordered
    <2>3. \A b \in Int : ~Has(<<>>, b) /\ ~(offset <= b /\ b < offset)
      BY <2>1 DEF Has
    <2>4. SplitUpTo(<<>>, offset, end, 0)
      BY <1>1, <2>1, <2>2, <2>3 DEF SplitUpTo
    <2> QED BY <1>1, <1>3, <2>4
  <1>5. \A n \in 1..N : n - 1 \in T => n \in T
    <2> SUFFICES ASSUME NEW n \in 1..N, SplitUpTo(out[n - 1], offset, end, n - 1)
                 PROVE  SplitUpTo(out[n], offset, end, n)
      OBVIOUS
    <2>1. SplitUpTo(SplitTurn(offset, end, chunk, out[n - 1], n), offset, end, n)
      BY <1>1, SplitOneMore
    <2> QED BY <1>3, <2>1
  <1>6. SplitUpTo(out[N], offset, end, N)
    <2>1. N \in Nat
      BY <1>1
    <2> HIDE DEF T
    <2>2. \A n \in 0..N : n \in T
      BY <1>4, <1>5, <2>1, UpTo, Zenon
    <2>3. N \in T
      BY <2>1, <2>2
    <2> QED BY <2>3 DEF T
  <1>7. SplitUpTo(r, offset, end, N)
    BY <1>3, <1>6
  <1>8. CursorOf(offset, r) = end
    BY <1>7 DEF SplitUpTo
  <1>9. /\ r \in Seq(NonEmpty) /\ Len(r) <= N /\ Ordered(r)
        /\ \A i \in 1..(Len(r) - 1) : r[i].End + 1 = r[i + 1].Start
        /\ \A b \in Int : Has(r, b) <=> offset <= b /\ b < end
    BY <1>7, <1>8 DEF SplitUpTo
  <1> QED BY <1>1, <1>9 DEF r

\* Tasks of a file of the given size
Within(size) == {g \in NonEmpty : 0 <= g.Start /\ g.End < size}
LengthOf(g) == g.End - g.Start + 1

LEMMA SeedChunkFacts ==
  ASSUME NEW size \in 1..MaxInt
  PROVE  SeedChunkSize(size) \in 1..MaxInt
  <1>1. /\ MaxInt \in Nat /\ MaxSeedTasks \in Nat \ {0}
        /\ MinSeedChunk \in Nat \ {0} /\ MinSeedChunk <= MaxInt
    BY SeedAssumption
  <1> DEFINE c == CeilDiv(size, MaxSeedTasks)
  <1>2. c \in 0..size
    BY <1>1, CeilDivFacts
  <1> HIDE DEF c
  <1>3. Max({MinSeedChunk, c}) = IF MinSeedChunk >= c THEN MinSeedChunk ELSE c
    BY <1>1, <1>2, MaxOfTwo
  <1> QED BY <1>1, <1>2, <1>3 DEF SeedChunkSize, c

\* A gap, split
LEMMA SplitGap ==
  ASSUME NEW size \in 1..MaxInt, NEW g \in Within(size), NEW chunk \in 1..MaxInt
  PROVE  LET out == SplitRange(g.Start, LengthOf(g), chunk)
         IN  /\ out \in Seq(NonEmpty) /\ Len(out) <= MaxSeedTasks /\ Ordered(out)
             /\ \A i \in 1..(Len(out) - 1) : out[i].End + 1 = out[i + 1].Start
             /\ \A b \in Int : Has(out, b) <=> g.Start <= b /\ b <= g.End
  <1> DEFINE o == g.Start
             l == LengthOf(g)
             out == SplitRange(o, l, chunk)
  <1>1. /\ o \in Nat /\ l \in Nat \ {0} /\ o + l <= MaxInt /\ o + l = g.End + 1
        /\ g.End \in Int
    BY SeedAssumption DEF Within, NonEmpty, Spans, LengthOf
  <1> HIDE DEF o, l
  <1>2. /\ out \in Seq(NonEmpty) /\ Len(out) <= MaxSeedTasks /\ Ordered(out)
        /\ \A i \in 1..(Len(out) - 1) : out[i].End + 1 = out[i + 1].Start
        /\ \A b \in Int : Has(out, b) <=> o <= b /\ b < o + l
    BY <1>1, SplitFacts
  <1>3. \A b \in Int : b < o + l <=> b <= g.End
    BY <1>1
  <1> HIDE DEF out
  <1>4. \A b \in Int : Has(out, b) <=> o <= b /\ b <= g.End
    BY <1>2, <1>3
  <1> QED BY <1>2, <1>4 DEF out, o, l

\* Ordered ranges behind ordered ranges.
LEMMA OrderedConcat ==
  ASSUME NEW out \in Seq(NonEmpty), NEW u \in Seq(NonEmpty), Ordered(out), Ordered(u),
         \A i \in 1..Len(out), j \in 1..Len(u) : out[i].End < u[j].Start
  PROVE  /\ out \o u \in Seq(NonEmpty) /\ Ordered(out \o u)
         /\ \A b : Has(out \o u, b) <=> Has(out, b) \/ Has(u, b)
  <1> DEFINE m == out \o u
  <1>1. PICK n \in Nat, k \in Nat : n = Len(out) /\ k = Len(u)
    BY NonEmptySeq
  <1>2. /\ m \in Seq(NonEmpty) /\ Len(m) = n + k
        /\ \A i \in 1..(n + k) : m[i] = IF i <= n THEN out[i] ELSE u[i - n]
    BY <1>1, ConcatProperties
  <1> HIDE DEF m
  <1>3. \A i \in 1..(n + k) : \/ i \in 1..n /\ m[i] = out[i]
                              \/ i - n \in 1..k /\ i > n /\ m[i] = u[i - n]
    BY <1>2
  <1>4. Ordered(m)
    <2> SUFFICES ASSUME NEW i \in 1..(n + k), NEW j \in 1..(n + k), i < j
                 PROVE  m[i].End < m[j].Start
      BY <1>2 DEF Ordered
    <2>1. CASE i \in 1..n /\ j \in 1..n
      BY <1>1, <1>2, <2>1 DEF Ordered
    <2>2. CASE i \in 1..n /\ j > n
      <3>1. j - n \in 1..k /\ m[j] = u[j - n] /\ m[i] = out[i]
        BY <1>2, <2>2
      <3> QED BY <1>1, <2>2, <3>1
    <2>3. CASE i > n
      <3>1. /\ i - n \in 1..k /\ j - n \in 1..k /\ i - n < j - n
            /\ m[i] = u[i - n] /\ m[j] = u[j - n]
        BY <1>2, <2>3
      <3> QED BY <1>1, <3>1 DEF Ordered
    <2>4. (i \in 1..n /\ j \in 1..n) \/ (i \in 1..n /\ j > n) \/ i > n
      OBVIOUS
    <2> QED BY <2>1, <2>2, <2>3, <2>4
  <1>5. ASSUME NEW b PROVE Has(m, b) <=> Has(out, b) \/ Has(u, b)
    <2>1. ASSUME Has(m, b) PROVE Has(out, b) \/ Has(u, b)
      <3>1. PICK i \in 1..(n + k) : m[i].Start <= b /\ b <= m[i].End
        BY <1>2, <2>1 DEF Has
      <3>2. CASE i \in 1..n /\ m[i] = out[i]
        BY <1>1, <3>1, <3>2 DEF Has
      <3>3. CASE i - n \in 1..k /\ m[i] = u[i - n]
        BY <1>1, <3>1, <3>3 DEF Has
      <3> QED BY <1>3, <3>2, <3>3
    <2>2. ASSUME Has(out, b) PROVE Has(m, b)
      <3>1. PICK i \in 1..n : out[i].Start <= b /\ b <= out[i].End
        BY <1>1, <2>2 DEF Has
      <3>2. i \in 1..(n + k) /\ m[i] = out[i]
        BY <1>2
      <3> QED BY <1>2, <3>1, <3>2 DEF Has
    <2>3. ASSUME Has(u, b) PROVE Has(m, b)
      <3>1. PICK j \in 1..k : u[j].Start <= b /\ b <= u[j].End
        BY <1>1, <2>3 DEF Has
      <3>2. n + j \in 1..(n + k) /\ ~(n + j <= n) /\ n + j - n = j
        OBVIOUS
      <3>3. m[n + j] = u[j]
        BY <1>2, <3>2
      <3> QED BY <1>2, <3>1, <3>2, <3>3 DEF Has
    <2> QED BY <2>1, <2>2, <2>3
  <1> QED BY <1>2, <1>4, <1>5 DEF m

\* The loop of seedQueue: out[i] is the queue after i gaps.
SeedRun(out, gaps, size) ==
    /\ out[0] = <<>>
    /\ \A n \in 1..Len(gaps) :
          out[n] = out[n - 1] \o SplitRange(gaps[n].Start, gaps[n].End - gaps[n].Start + 1, SeedChunkSize(size))

LEMMA SeedFold ==
  ASSUME NEW size \in 1..MaxInt, NEW tasks,
         Uncompleted(Task(0, size - 1), tasks) \in Seq(Within(size))
  PROVE  \E out : /\ SeedRun(out, Uncompleted(Task(0, size - 1), tasks), size)
                  /\ SeedQueue(size, tasks) = out[Len(Uncompleted(Task(0, size - 1), tasks))]
  <1> DEFINE s == Uncompleted(Task(0, size - 1), tasks)
             N == Len(s)
             A == Seq(NonEmpty)
             step == [x \in A \X (1..N) |-> x[1] \o SplitRange(s[x[2]].Start, s[x[2]].End - s[x[2]].Start + 1, SeedChunkSize(size))]
             F(g) == g = [ss \in SUBSET (DOMAIN s) |->
                             IF ss = {} THEN <<>> ELSE g[ss \ {Max(ss)}] \o SplitRange(s[Max(ss)].Start, s[Max(ss)].End - s[Max(ss)].Start + 1, SeedChunkSize(size))]
  <1>0. /\ N \in Nat /\ DOMAIN s = 1..N /\ \A n \in 1..N : s[n] \in Within(size)
        /\ <<>> \in A
    BY LenProperties, ElementOfSeq, EmptySeq
  <1>1. \A x \in A, n \in 1..N : x \o SplitRange(s[n].Start, s[n].End - s[n].Start + 1, SeedChunkSize(size)) \in A
    <2> SUFFICES ASSUME NEW x \in A, NEW n \in 1..N
                 PROVE  x \o SplitRange(s[n].Start, s[n].End - s[n].Start + 1, SeedChunkSize(size)) \in A
      OBVIOUS
    <2> DEFINE u == SplitRange(s[n].Start, LengthOf(s[n]), SeedChunkSize(size))
    <2>1. u \in Seq(NonEmpty)
      BY <1>0, SeedChunkFacts, SplitGap
    <2> HIDE DEF u
    <2>2. x \o u \in Seq(NonEmpty)
      BY <2>1, ConcatProperties
    <2> QED BY <2>2 DEF u, LengthOf
  <1> HIDE DEF s, A
  <1>2. PICK g : Folds(g, A, <<>>, N, step)
    <2>1. <<>> \in A /\ N \in Nat /\ step \in [A \X (1..N) -> A]
      BY <1>0, <1>1
    <2> HIDE DEF step, N
    <2> QED BY <2>1, FoldExists, Zenon
  <1>3. \A ss \in SUBSET (1..N) : ss # {} => Max(ss) \in 1..N /\ ss \ {Max(ss)} \in SUBSET (1..N)
    BY <1>0, MaxInInterval
  <1>4. F(g)
    <2>1. ASSUME NEW ss \in SUBSET (1..N), ss # {}
          PROVE  step[<<g[ss \ {Max(ss)}], Max(ss)>>] = g[ss \ {Max(ss)}] \o SplitRange(s[Max(ss)].Start, s[Max(ss)].End - s[Max(ss)].Start + 1, SeedChunkSize(size))
      BY <1>2, <1>3, <2>1 DEF Folds
    <2> DEFINE f == [ss \in SUBSET (1..N) |->
                        IF ss = {} THEN <<>> ELSE g[ss \ {Max(ss)}] \o SplitRange(s[Max(ss)].Start, s[Max(ss)].End - s[Max(ss)].Start + 1, SeedChunkSize(size))]
    <2> HIDE DEF step
    <2>2. \A ss \in SUBSET (1..N) : g[ss] = f[ss]
      BY <1>2, <2>1 DEF Folds
    <2>3. g = f
      BY <1>2, <2>2 DEF Folds
    <2> QED BY <1>0, <2>3
  <1> DEFINE it == CHOOSE it : F(it)
  <1>5. F(it)
    <2> HIDE DEF F
    <2> QED BY <1>4
  <1>6. SeedQueue(size, tasks) = it[1..N]
    BY <1>0 DEF SeedQueue, FoldLeft, MapThenFoldSet, s
  <1>7. \A ss \in SUBSET (1..N) :
           it[ss] = IF ss = {} THEN <<>> ELSE it[ss \ {Max(ss)}] \o SplitRange(s[Max(ss)].Start, s[Max(ss)].End - s[Max(ss)].Start + 1, SeedChunkSize(size))
    <2> HIDE DEF it
    <2> QED BY <1>0, <1>5
  <1> HIDE DEF it
  <1> DEFINE out == [n \in 0..N |-> it[1..n]]
  <1>8. out[0] = <<>> /\ out[N] = it[1..N]
    <2>1. 0 \in 0..N /\ N \in 0..N /\ 1..0 = {} /\ {} \in SUBSET (1..N)
      BY <1>0
    <2> QED BY <1>7, <2>1
  <1>9. ASSUME NEW n \in 1..N PROVE out[n] = out[n - 1] \o SplitRange(s[n].Start, s[n].End - s[n].Start + 1, SeedChunkSize(size))
    <2>1. n - 1 \in 0..N /\ n \in 0..N
      BY <1>0
    <2>2. /\ Max(1..n) = n /\ (1..n) \ {n} = 1..(n - 1) /\ 1..n # {}
          /\ 1..n \in SUBSET (1..N)
      BY <1>0, <2>1, Intervals
    <2> QED BY <1>7, <2>1, <2>2
  <1> HIDE DEF out
  <1> HIDE DEF F, step
  <1> QED BY <1>6, <1>8, <1>9 DEF s, SeedRun

\* The seeds of the first n gaps.
SeedsUpTo(out, gaps, n) ==
    /\ out \in Seq(NonEmpty) /\ Ordered(out)
    /\ \A b \in Int : Has(out, b) <=> \E i \in 1..n : gaps[i].Start <= b /\ b <= gaps[i].End

LEMMA SeedTurn ==
  ASSUME NEW gaps \in Seq(NonEmpty), Ordered(gaps), NEW n \in 1..Len(gaps),
         NEW out, SeedsUpTo(out, gaps, n - 1),
         NEW u \in Seq(NonEmpty), Ordered(u),
         \A b \in Int : Has(u, b) <=> gaps[n].Start <= b /\ b <= gaps[n].End
  PROVE  SeedsUpTo(out \o u, gaps, n)
  <1>1. /\ out \in Seq(NonEmpty) /\ Ordered(out)
        /\ \A b \in Int : Has(out, b) <=> \E i \in 1..(n - 1) : gaps[i].Start <= b /\ b <= gaps[i].End
    BY DEF SeedsUpTo
  <1>2. ASSUME NEW i \in 1..Len(out), NEW j \in 1..Len(u) PROVE out[i].End < u[j].Start
    <2>1. /\ out[i].Start \in Int /\ out[i].End \in Int /\ out[i].Start <= out[i].End
          /\ u[j].Start \in Int /\ u[j].End \in Int /\ u[j].Start <= u[j].End
          /\ Len(gaps) \in Nat
      BY <1>1, NonEmptySeq
    <2>2. Has(out, out[i].End) /\ Has(u, u[j].Start)
      <3>1. Has(out, out[i].End)
        BY <2>1, SMTT(60) DEF Has
      <3>2. Has(u, u[j].Start)
        BY <2>1 DEF Has
      <3> QED BY <3>1, <3>2
    <2>3. PICK k \in 1..(n - 1) : out[i].End <= gaps[k].End
      BY <1>1, <2>1, <2>2
    <2>4. k \in 1..Len(gaps) /\ k < n
      BY <2>1, SMTT(60)
    <2>5. gaps[k].End < gaps[n].Start /\ gaps[n].Start <= u[j].Start
      BY <2>1, <2>2, <2>4 DEF Ordered
    <2>6. gaps[k].End \in Int /\ gaps[n].Start \in Int
      BY <2>4, NonEmptySeq
    <2>7. out[i].End < gaps[n].Start
      BY <2>1, <2>3, <2>5, <2>6, SMTT(60)
    <2>8. u[j].Start \in Int /\ out[i].End \in Int /\ gaps[n].Start <= u[j].Start
      BY <2>1, <2>5
    <2> QED BY <2>6, <2>7, <2>8
  <1>3. /\ out \o u \in Seq(NonEmpty) /\ Ordered(out \o u)
        /\ \A b : Has(out \o u, b) <=> Has(out, b) \/ Has(u, b)
    BY <1>1, <1>2, OrderedConcat
  <1>4. ASSUME NEW b \in Int
        PROVE  Has(out \o u, b) <=> \E i \in 1..n : gaps[i].Start <= b /\ b <= gaps[i].End
    <2>1. \A i \in 1..n : i = n \/ i \in 1..(n - 1)
      OBVIOUS
    <2>2. n \in 1..n /\ \A i \in 1..(n - 1) : i \in 1..n
      OBVIOUS
    <2> QED BY <1>1, <1>3, <2>1, <2>2
  <1> QED BY <1>3, <1>4 DEF SeedsUpTo

\* seedQueue: in order, exactly the bytes of the gaps.
LEMMA SeedFacts ==
  ASSUME NEW size \in 1..MaxInt, NEW tasks, NEW gaps \in Seq(Within(size)),
         gaps = Uncompleted(Task(0, size - 1), tasks), Ordered(gaps)
  PROVE  LET seeds == SeedQueue(size, tasks)
         IN  /\ seeds \in Seq(NonEmpty) /\ Ordered(seeds)
             /\ \A b \in Int : Has(seeds, b) <=> Has(gaps, b)
  <1> DEFINE N == Len(gaps)
             seeds == SeedQueue(size, tasks)
             Split(g) == SplitRange(g.Start, g.End - g.Start + 1, SeedChunkSize(size))
  <1>1. gaps \in Seq(NonEmpty) /\ N \in Nat /\ \A n \in 1..N : gaps[n] \in Within(size)
    <2>1. Within(size) \subseteq NonEmpty
      BY DEF Within
    <2> QED BY <2>1, SeqMonotonic, LenProperties, ElementOfSeq
  <1>2. PICK out : /\ out[0] = <<>> /\ seeds = out[N]
                   /\ \A n \in 1..N : out[n] = out[n - 1] \o Split(gaps[n])
    <2>1. \E out : /\ SeedRun(out, Uncompleted(Task(0, size - 1), tasks), size)
                   /\ seeds = out[Len(Uncompleted(Task(0, size - 1), tasks))]
      BY SeedFold, Zenon
    <2>2. PICK out : SeedRun(out, gaps, size) /\ seeds = out[Len(gaps)]
      BY <2>1
    <2> HIDE DEF seeds
    <2> QED BY <2>2 DEF SeedRun
  <1>3. ASSUME NEW n \in 1..N
        PROVE  /\ Split(gaps[n]) \in Seq(NonEmpty) /\ Ordered(Split(gaps[n]))
               /\ \A b \in Int : Has(Split(gaps[n]), b) <=> gaps[n].Start <= b /\ b <= gaps[n].End
    BY <1>1, SeedChunkFacts, SplitGap DEF LengthOf
  <1> HIDE DEF Split, seeds
  <1> DEFINE T == {n \in 0..N : SeedsUpTo(out[n], gaps, n)}
  <1>4. 0 \in T
    <2>1. <<>> \in Seq(NonEmpty) /\ Len(<<>>) = 0 /\ 1..0 = {}
      BY EmptySeq
    <2>2. SeedsUpTo(<<>>, gaps, 0)
      BY <2>1 DEF SeedsUpTo, Ordered, Has
    <2> QED BY <1>1, <1>2, <2>2
  <1>5. \A n \in 1..N : n - 1 \in T => n \in T
    <2> SUFFICES ASSUME NEW n \in 1..N, SeedsUpTo(out[n - 1], gaps, n - 1)
                 PROVE  SeedsUpTo(out[n], gaps, n)
      OBVIOUS
    <2>1. SeedsUpTo(out[n - 1] \o Split(gaps[n]), gaps, n)
      BY <1>1, <1>3, SeedTurn
    <2> QED BY <1>2, <2>1
  <1>6. SeedsUpTo(seeds, gaps, N)
    <2> HIDE DEF T
    <2>1. \A n \in 0..N : n \in T
      BY <1>1, <1>4, <1>5, UpTo, Zenon
    <2>2. N \in T
      BY <1>1, <2>1
    <2> QED BY <1>2, <2>2 DEF T
  <1> QED BY <1>6 DEF SeedsUpTo, Has, seeds

-----------------------------------------------------------------------------
(* The operations *)

LEMMA TotalFacts ==
  ASSUME TypeOK
  PROVE  total \in Nat /\ 1 <= total /\ total <= MaxInt /\ MaxInt \in Nat
  BY TotalAssumption, SeedAssumption DEF TypeOK

\* A task of this file is a range of its bytes.
LEMMA TaskFacts ==
  ASSUME TypeOK
  PROVE  /\ Tasks \subseteq NonEmpty
         /\ \A t \in Tasks : /\ t \in NonEmpty /\ t.Start \in Bytes /\ t.End \in Bytes
                             /\ BytesOf(t) \subseteq Bytes
         /\ \A t \in NonEmpty : BytesOf(t) \subseteq Bytes => t \in Tasks
  <1>1. total \in Nat
    BY TotalFacts
  <1>2. ASSUME NEW t \in Tasks
        PROVE  t \in NonEmpty /\ t.Start \in Bytes /\ t.End \in Bytes /\ BytesOf(t) \subseteq Bytes
    BY <1>1 DEF Tasks, TasksOf, NonEmpty, Spans, Bytes, BytesOf
  <1>3. ASSUME NEW t \in NonEmpty, BytesOf(t) \subseteq Bytes PROVE t \in Tasks
    <2>1. t.Start \in BytesOf(t) /\ t.End \in BytesOf(t) /\ t.Start <= t.End
      BY DEF NonEmpty, Spans, BytesOf
    <2>2. t = [Start |-> t.Start, End |-> t.End]
      BY DEF NonEmpty, Spans
    <2> QED BY <1>1, <1>3, <2>1, <2>2 DEF Tasks, TasksOf, Bytes
  <1> QED BY <1>2, <1>3

LEMMA TaskSeqFacts ==
  ASSUME TypeOK
  PROVE  /\ \A s \in Seq(Tasks) : s \in Seq(NonEmpty) /\ Covered(s) \subseteq Bytes
         /\ \A s \in Seq(NonEmpty) : Covered(s) \subseteq Bytes => s \in Seq(Tasks)
  <1>1. ASSUME NEW s \in Seq(Tasks) PROVE s \in Seq(NonEmpty) /\ Covered(s) \subseteq Bytes
    <2>1. s \in Seq(NonEmpty)
      BY TaskFacts, SeqMonotonic
    <2>2. \A i \in DOMAIN s : BytesOf(s[i]) \subseteq Bytes
      BY TaskFacts, ElementOfSeq, LenProperties
    <2> QED BY <2>1, <2>2 DEF Covered
  <1>2. ASSUME NEW s \in Seq(NonEmpty), Covered(s) \subseteq Bytes PROVE s \in Seq(Tasks)
    <2>1. \A i \in 1..Len(s) : s[i] \in NonEmpty /\ BytesOf(s[i]) \subseteq Covered(s)
      BY ElementOfSeq, LenProperties DEF Covered
    <2>2. \A i \in 1..Len(s) : s[i] \in Tasks
      BY <1>2, <2>1, TaskFacts
    <2> QED BY <2>2, ElementwiseSeq
  <1> QED BY <1>1, <1>2

LEMMA EmptyCovers == Covered(<<>>) = {}
  <1>1. DOMAIN <<>> = {}
    OBVIOUS
  <1> QED BY <1>1 DEF Covered

LEMMA AppendCovers ==
  ASSUME NEW s \in Seq(Spans), NEW t \in Spans
  PROVE  Covered(Append(s, t)) = Covered(s) \cup BytesOf(t)
  <1>1. PICK n \in Nat : n = Len(s) /\ DOMAIN s = 1..n
    BY LenProperties
  <1>2. /\ Append(s, t) \in Seq(Spans) /\ Len(Append(s, t)) = n + 1
        /\ \A i \in 1..n : Append(s, t)[i] = s[i]
        /\ Append(s, t)[n + 1] = t
    BY <1>1, AppendProperties
  <1>3. DOMAIN Append(s, t) = 1..(n + 1)
    BY <1>2, LenProperties
  <1>4. \A b : (\E i \in 1..(n + 1) : b \in BytesOf(Append(s, t)[i]))
           <=> (\E i \in 1..n : b \in BytesOf(s[i])) \/ b \in BytesOf(t)
    <2>1. \A i \in 1..(n + 1) : i = n + 1 \/ i \in 1..n
      BY <1>1
    <2>2. n + 1 \in 1..(n + 1) /\ \A i \in 1..n : i \in 1..(n + 1)
      BY <1>1
    <2> QED BY <1>2, <2>1, <2>2
  <1> QED BY <1>1, <1>3, <1>4 DEF Covered

\* compact and save, with the task in progress or none
LEMMA SaveFacts ==
  ASSUME TypeOK, NEW r \in Seq(Tasks), Save(r)
  PROVE  /\ completed' \in Seq(Tasks) /\ Covered(completed') = Covered(completed)
         /\ sidecar' \in Seq(Tasks) /\ Apart(sidecar')
         /\ Covered(sidecar') = Covered(completed' \o r)
  <1>1. completed \in Seq(NonEmpty) /\ Covered(completed) \subseteq Bytes
    BY TaskSeqFacts DEF TypeOK
  <1>2. /\ completed' \in Seq(NonEmpty) /\ Covered(completed') = Covered(completed)
    BY <1>1, DedupFacts DEF Save
  <1>3. completed' \in Seq(Tasks)
    BY <1>1, <1>2, TaskSeqFacts
  <1>4. completed' \o r \in Seq(Tasks)
    BY <1>3, ConcatProperties
  <1>5. completed' \o r \in Seq(NonEmpty) /\ Covered(completed' \o r) \subseteq Bytes
    BY <1>4, TaskSeqFacts
  <1>6. /\ sidecar' \in Seq(NonEmpty) /\ Apart(sidecar')
        /\ Covered(sidecar') = Covered(completed' \o r)
    BY <1>5, DedupFacts DEF Save
  <1>7. sidecar' \in Seq(Tasks)
    BY <1>5, <1>6, TaskSeqFacts
  <1> QED BY <1>2, <1>3, <1>6, <1>7

LEMMA BadSeq ==
  ASSUME TypeOK, NEW bad \in Drops
  PROVE  SetToSeq(bad) \in Seq(NonEmpty)
  <1>1. bad \subseteq Tasks /\ Tasks \subseteq NonEmpty
    BY TaskFacts DEF Drops, Chunks
  <1>2. IsFiniteSet(bad)
    <2> DEFINE P == Bytes \X Bytes
               f == [t \in bad |-> <<t.Start, t.End>>]
    <2>1. IsFiniteSet(Bytes)
      BY TotalFacts, FS_Interval DEF Bytes
    <2>2. IsFiniteSet(P)
      BY <2>1, FS_Product
    <2>3. f \in [bad -> P]
      BY <1>1, TaskFacts
    <2>4. \A t, u \in bad : f[t] = f[u] => t = u
      <3>1. \A t \in bad : t = [Start |-> t.Start, End |-> t.End]
        BY <1>1 DEF NonEmpty, Spans
      <3> QED BY <3>1
    <2>5. f \in Injection(bad, P)
      <3> HIDE DEF P
      <3>1. IsInjective(f)
        BY <2>3, <2>4 DEF IsInjective
      <3> QED BY <2>3, <3>1 DEF Injection
    <2> HIDE DEF f, P
    <2> QED BY <2>2, <2>5, FS_Injection DEF ExistsInjection
  <1>3. PICK n \in Nat : n = Cardinality(bad) /\ ExistsBijection(1..n, bad)
    BY <1>2, FS_CardinalityType
  <1>4. \E f \in [1..n -> bad] : IsInjective(f)
    BY <1>3 DEF ExistsBijection, Bijection, Injection
  <1>5. SetToSeq(bad) \in [1..n -> bad]
    BY <1>3, <1>4 DEF SetToSeq
  <1>6. SetToSeq(bad) \in Seq(bad)
    BY <1>5
  <1> QED BY <1>1, <1>6, SeqMonotonic

\* dropCompletedOverlapping: what is left was there, and is not bad.
LEMMA DroppedFacts ==
  ASSUME TypeOK, NEW bad \in Drops
  PROVE  /\ Dropped(bad) \in Seq(Tasks) /\ Apart(Dropped(bad))
         /\ Covered(Dropped(bad)) \subseteq Covered(completed)
         /\ Covered(Dropped(bad)) \cap Covered(SetToSeq(bad)) = {}
  <1> DEFINE m == DedupTasks(SetToSeq(bad))
             kept == DropOverlapping(completed, m)
  <1>1. completed \in Seq(NonEmpty) /\ Covered(completed) \subseteq Bytes
    BY TaskSeqFacts DEF TypeOK
  <1>2. m \in Seq(NonEmpty) /\ Apart(m) /\ Covered(m) = Covered(SetToSeq(bad))
    BY BadSeq, DedupFacts
  <1> HIDE DEF m
  <1>3. \A i, j \in 1..Len(m) : i < j => m[i].Start <= m[j].Start
    <2> SUFFICES ASSUME NEW i \in 1..Len(m), NEW j \in 1..Len(m), i < j
                 PROVE  m[i].Start <= m[j].Start
      OBVIOUS
    <2>1. m[i].End + 1 < m[j].Start
      BY <1>2 DEF Apart
    <2>2. m[i].Start \in Int /\ m[i].End \in Int /\ m[j].Start \in Int /\ m[i].Start <= m[i].End
      BY <1>2, NonEmptySeq
    <2> QED BY <2>1, <2>2
  <1>4. /\ kept \in Seq(NonEmpty) /\ Covered(kept) \subseteq Covered(completed)
        /\ Covered(kept) \cap Covered(m) = {}
    BY <1>1, <1>2, <1>3, DropFacts
  <1> HIDE DEF kept
  <1>5. Dropped(bad) = DedupTasks(kept)
    BY DEF Dropped, kept, m
  <1>6. /\ Dropped(bad) \in Seq(NonEmpty) /\ Apart(Dropped(bad))
        /\ Covered(Dropped(bad)) = Covered(kept)
    BY <1>4, <1>5, DedupFacts
  <1>7. Dropped(bad) \in Seq(Tasks)
    BY <1>1, <1>4, <1>6, TaskSeqFacts
  <1> QED BY <1>2, <1>4, <1>6, <1>7

-----------------------------------------------------------------------------
(* The theorems *)

SidecarApart == TypeOK /\ Apart(sidecar)

LEMMA SidecarStep == SidecarApart /\ [Next]_vars => SidecarApart'
  <1> SUFFICES ASSUME SidecarApart, [Next]_vars
               PROVE  TypeOK' /\ Apart(sidecar')
    BY DEF SidecarApart
  <1>0. TypeOK /\ Apart(sidecar) /\ completed \in Seq(Tasks) /\ sidecar \in Seq(Tasks)
    BY DEF SidecarApart, TypeOK
  <1>1. ASSUME NEW t \in Tasks, RecordCompleted(t) PROVE TypeOK' /\ Apart(sidecar')
    <2>1. completed' \in Seq(Tasks)
      BY <1>0, <1>1, AppendProperties DEF RecordCompleted
    <2> QED BY <1>0, <1>1, <2>1 DEF RecordCompleted, TypeOK, Tasks
  <1>2. ASSUME NEW r \in Seq(Tasks), Save(r) PROVE TypeOK' /\ Apart(sidecar')
    <2>1. completed' \in Seq(Tasks) /\ sidecar' \in Seq(Tasks) /\ Apart(sidecar')
      BY <1>0, <1>2, SaveFacts
    <2> QED BY <1>0, <1>2, <2>1 DEF Save, TypeOK, Tasks
  <1>3. CASE Restart
    BY <1>0, <1>3 DEF Restart, TypeOK, Tasks
  <1>4. CASE Discard
    <2>1. <<>> \in Seq(Tasks) /\ Apart(<<>>)
      BY EmptySeq DEF Apart
    <2> QED BY <1>0, <1>4, <2>1 DEF Discard, TypeOK, Tasks
  <1>5. ASSUME NEW bad \in Drops, DropCompletedOverlapping(bad) PROVE TypeOK' /\ Apart(sidecar')
    <2>1. Dropped(bad) \in Seq(Tasks) /\ Apart(Dropped(bad))
      BY <1>0, <1>5, DroppedFacts
    <2> QED BY <1>0, <1>5, <2>1 DEF DropCompletedOverlapping, TypeOK, Tasks
  <1>6. CASE UNCHANGED vars
    BY <1>0, <1>6 DEF vars, TypeOK, Tasks
  <1>7. <<>> \in Seq(Tasks) /\ \A t \in Tasks : <<t>> \in Seq(Tasks)
    BY EmptySeq
  <1> QED BY <1>1, <1>2, <1>3, <1>4, <1>5, <1>6, <1>7 DEF Next

LEMMA SidecarAlways == Spec => []SidecarApart
  <1>1. Init => SidecarApart
    <2>1. <<>> \in Seq(Tasks) /\ Apart(<<>>)
      BY EmptySeq DEF Apart
    <2> QED BY <2>1 DEF Init, SidecarApart, TypeOK
  <1> QED BY <1>1, SidecarStep, PTL DEF Spec

\* Whatever is recorded, saved, reloaded and trimmed, in any order: memory and
\* sidecar hold ranges of the file's bytes, none empty, none past its end.
THEOREM TypeCorrect == Spec => []TypeOK
  <1>1. SidecarApart => TypeOK
    BY DEF SidecarApart
  <1> QED BY <1>1, SidecarAlways, PTL

\* The sidecar stays compact over any number of saves, restarts and trims.
THEOREM StaysCompact == Spec => []SidecarCompact
  <1>1. SidecarApart => SidecarCompact
    <2> SUFFICES ASSUME SidecarApart, NEW i \in 1..(Len(sidecar) - 1)
                 PROVE  sidecar[i].End + 1 < sidecar[i + 1].Start
      BY DEF SidecarCompact, Compact
    <2>1. Len(sidecar) \in Nat
      BY LenProperties DEF SidecarApart, TypeOK
    <2>2. i \in 1..Len(sidecar) /\ i + 1 \in 1..Len(sidecar) /\ i < i + 1
      BY <2>1
    <2> QED BY <2>2 DEF SidecarApart, Apart
  <1> QED BY <1>1, SidecarAlways, PTL

\* After a trim no byte of a corrupt chunk is claimed, so all are fetched again.
THEOREM TrimIsSafe == Spec => []TrimSafe
  <1>1. TypeOK => TrimSafe
    BY DroppedFacts DEF TrimSafe
  <1> QED BY <1>1, TypeCorrect, PTL

\* Memory and sidecar are the two sets of bytes of ClaimSet: no operation
\* forgets a byte but a trim or a discard, and none invents one.
THEOREM Refines == Spec => RefinesClaimSet
  <1>1. Init => Claimed = {} /\ Covered(sidecar) = {}
    BY EmptyCovers DEF Init, Claimed
  <1>2. TypeOK /\ [Next]_vars => [Abstract!Next]_<<Claimed, Covered(sidecar)>>
    <2> SUFFICES ASSUME TypeOK, [Next]_vars
                 PROVE  Abstract!Next \/ UNCHANGED <<Claimed, Covered(sidecar)>>
      OBVIOUS
    <2> DEFINE Ranges == {s..e : s, e \in 0..(MaxInt - 1)}
    <2>0. /\ completed \in Seq(Spans) /\ Tasks \subseteq Spans
          /\ \A t \in Tasks : BytesOf(t) \in Ranges
      <3>1. completed \in Seq(Spans) /\ Tasks \subseteq Spans
        BY TaskFacts, TaskSeqFacts, NonEmptySeq DEF TypeOK, NonEmpty
      <3>2. \A t \in Tasks : t.Start \in 0..(MaxInt - 1) /\ t.End \in 0..(MaxInt - 1)
        BY TaskFacts, TotalFacts DEF Bytes
      <3> QED BY <3>1, <3>2 DEF BytesOf
    <2>1. ASSUME NEW t \in Tasks, RecordCompleted(t) PROVE Abstract!Next
      <3>1. Claimed' = Claimed \cup BytesOf(t)
        BY <2>0, <2>1, AppendCovers DEF RecordCompleted, Claimed
      <3>2. Covered(sidecar)' = Covered(sidecar)
        BY <2>1 DEF RecordCompleted
      <3>3. PICK r \in Ranges : r = BytesOf(t)
        <4> HIDE DEF Ranges
        <4> QED BY <2>0
      <3>4. Abstract!Claim(r)
        BY <3>1, <3>2, <3>3 DEF Abstract!Claim
      <3> QED BY <3>4 DEF Abstract!Next
    <2>2. ASSUME NEW t \in Tasks, Save(<<t>>) PROVE Abstract!Next
      <3>1. <<t>> \in Seq(Tasks)
        OBVIOUS
      <3>2. /\ completed' \in Seq(Tasks) /\ Covered(completed') = Covered(completed)
            /\ Covered(sidecar') = Covered(completed' \o <<t>>)
        BY <2>2, <3>1, SaveFacts
      <3>3. completed' \in Seq(Spans)
        BY <3>2, TaskSeqFacts, NonEmptySeq
      <3>4. completed' \o <<t>> = Append(completed', t)
        BY <3>3
      <3>5. Covered(sidecar') = Covered(completed') \cup BytesOf(t)
        <4>0. t \in Spans
          BY <2>0
        <4>1. Covered(Append(completed', t)) = Covered(completed') \cup BytesOf(t)
          BY <3>3, <4>0, AppendCovers
        <4>2. Covered(completed' \o <<t>>) = Covered(Append(completed', t))
          BY <3>4, Zenon
        <4> QED BY <3>2, <4>1, <4>2, Zenon
      <3>6. PICK r \in Ranges : r = BytesOf(t)
        <4> HIDE DEF Ranges
        <4> QED BY <2>0
      <3>7. Abstract!Save(r)
        BY <3>2, <3>5, <3>6 DEF Abstract!Save, Claimed
      <3> QED BY <3>7 DEF Abstract!Next
    <2>3. CASE Save(<<>>)
      <3>1. <<>> \in Seq(Tasks)
        BY EmptySeq
      <3>2. /\ completed' \in Seq(Tasks) /\ Covered(completed') = Covered(completed)
            /\ Covered(sidecar') = Covered(completed' \o <<>>)
        BY <2>3, <3>1, SaveFacts
      <3>3. completed' \o <<>> = completed'
        BY <3>2, ConcatEmptySeq
      <3>4. Abstract!Save({})
        BY <3>2, <3>3 DEF Abstract!Save, Claimed
      <3> QED BY <3>4 DEF Abstract!Next
    <2>4. CASE Restart
      <3>1. Abstract!Restart
        BY <2>4 DEF Restart, Abstract!Restart, Claimed
      <3> QED BY <3>1 DEF Abstract!Next
    <2>5. CASE Discard
      <3>1. Abstract!Discard
        BY <2>5, EmptyCovers DEF Discard, Abstract!Discard, Claimed
      <3> QED BY <3>1 DEF Abstract!Next
    <2>6. ASSUME NEW bad \in Drops, DropCompletedOverlapping(bad) PROVE Abstract!Next
      <3>1. Abstract!Trim
        BY <2>6, DroppedFacts DEF DropCompletedOverlapping, Abstract!Trim, Claimed
      <3> QED BY <3>1 DEF Abstract!Next
    <2>7. CASE UNCHANGED vars
      BY <2>7 DEF vars, Claimed
    <2> QED BY <2>1, <2>2, <2>3, <2>4, <2>5, <2>6, <2>7 DEF Next
  <1> QED BY <1>1, <1>2, TypeCorrect, PTL DEF Spec, RefinesClaimSet, Abstract!Spec

\* The bytes that no completed range covers, in ranges of the file.
GapsExact(gaps) ==
    /\ gaps \in Seq(Within(total)) /\ gaps \in Seq(NonEmpty) /\ Ordered(gaps)
    /\ \A b \in Int : Has(gaps, b) <=> b \in Bytes /\ ~Has(completed, b)

LEMMA GapsFacts ==
  ASSUME TypeOK
  PROVE  GapsExact(Uncompleted(Task(0, total - 1), completed))
  <1> DEFINE full == Task(0, total - 1)
             gaps == Uncompleted(full, completed)
  <1>1. total \in Nat /\ 1 <= total
    BY TotalFacts
  <1>2. full \in NonEmpty /\ full.Start = 0 /\ full.End = total - 1
    BY <1>1 DEF Task, NonEmpty, Spans
  <1>3. completed \in Seq(Tasks) /\ completed \in Seq(NonEmpty)
    BY TaskSeqFacts DEF TypeOK
  <1>4. \A i \in 1..Len(completed) : completed[i].Start \in Bytes /\ completed[i].End \in Bytes
    <2>1. \A i \in 1..Len(completed) : completed[i] \in Tasks
      BY <1>3, ElementOfSeq
    <2> QED BY <2>1, TaskFacts
  <1>5. \A i \in 1..Len(completed) : full.Start <= completed[i].Start /\ completed[i].End <= full.End
    BY <1>1, <1>2, <1>4 DEF Bytes
  <1> HIDE DEF full
  <1>6. /\ gaps \in Seq(NonEmpty) /\ Ordered(gaps)
        /\ \A i \in 1..Len(gaps) : full.Start <= gaps[i].Start /\ gaps[i].End <= full.End
        /\ \A b \in Int : Has(gaps, b) <=> /\ full.Start <= b /\ b <= full.End
                                           /\ ~Has(completed, b)
    BY <1>2, <1>3, <1>5, UncompletedFacts
  <1> HIDE DEF gaps
  <1>7. gaps \in Seq(Within(total))
    <2>1. \A i \in 1..Len(gaps) : gaps[i] \in NonEmpty /\ gaps[i].End \in Int
      BY <1>6, NonEmptySeq
    <2>2. \A i \in 1..Len(gaps) : gaps[i] \in Within(total)
      BY <1>1, <1>2, <1>6, <2>1 DEF Within
    <2> QED BY <1>6, <2>2, ElementwiseSeq
  <1>8. \A b \in Int : b \in Bytes <=> full.Start <= b /\ b <= full.End
    BY <1>1, <1>2 DEF Bytes
  <1>9. GapsExact(gaps)
    BY <1>6, <1>7, <1>8 DEF GapsExact
  <1> QED BY <1>9 DEF gaps, full

\* Any gap, with any chunk size, is split without loss or overlap into at most
\* maxSeedTasks tasks.
THEOREM SplitIsBounded == Spec => []SplitBounded
  <1>1. TypeOK => SplitBounded
    <2> SUFFICES ASSUME TypeOK PROVE SplitBounded
      OBVIOUS
    <2> DEFINE gaps == Uncompleted(Task(0, total - 1), completed)
    <2>1. total \in 1..MaxInt /\ gaps \in Seq(Within(total))
      BY TotalFacts, GapsFacts DEF GapsExact
    <2> HIDE DEF gaps
    <2> SUFFICES ASSUME NEW k \in DOMAIN gaps, NEW chunk \in 1..MaxInt
                 PROVE  LET s == SplitRange(gaps[k].Start, gaps[k].End - gaps[k].Start + 1, chunk)
                        IN  /\ Len(s) <= MaxSeedTasks
                            /\ Covered(s) = BytesOf(gaps[k])
                            /\ \A i \in 1..(Len(s) - 1) : s[i].End + 1 = s[i + 1].Start
      BY DEF SplitBounded, gaps
    <2> DEFINE g == gaps[k]
               s == SplitRange(g.Start, LengthOf(g), chunk)
    <2>2. g \in Within(total) /\ g.Start \in Int /\ g.End \in Int
      <3>1. k \in 1..Len(gaps)
        BY <2>1, LenProperties
      <3>2. g \in Within(total)
        BY <2>1, <3>1, ElementOfSeq
      <3> QED BY <3>2 DEF Within, NonEmpty, Spans
    <2> HIDE DEF g
    <2>3. /\ s \in Seq(NonEmpty) /\ Len(s) <= MaxSeedTasks
          /\ \A i \in 1..(Len(s) - 1) : s[i].End + 1 = s[i + 1].Start
          /\ \A b \in Int : Has(s, b) <=> g.Start <= b /\ b <= g.End
      BY <2>1, <2>2, SplitGap
    <2> HIDE DEF s
    <2>4. Covered(s) = BytesOf(g)
      <3>1. \A b : b \in Covered(s) <=> b \in Int /\ Has(s, b)
        BY <2>3, NonEmptySeq, CoveredBy DEF Has
      <3>2. \A b : b \in BytesOf(g) <=> b \in Int /\ g.Start <= b /\ b <= g.End
        BY <2>2 DEF BytesOf
      <3> QED BY <2>3, <3>1, <3>2
    <2>5. s = SplitRange(gaps[k].Start, gaps[k].End - gaps[k].Start + 1, chunk)
      BY DEF s, g, LengthOf
    <2> QED BY <2>3, <2>4, <2>5 DEF g
  <1> QED BY <1>1, TypeCorrect, PTL

\* Whatever the accumulator claims, in whatever order, every other byte of the
\* file is in exactly one task of the next run, and no claimed byte in any.
THEOREM SeedsAreExact == Spec => []SeedsExact
  <1>1. TypeOK => SeedsExact
    <2> SUFFICES ASSUME TypeOK PROVE SeedsExact
      OBVIOUS
    <2> DEFINE gaps == Uncompleted(Task(0, total - 1), completed)
               seeds == SeedQueue(total, completed)
               At(b) == {i \in DOMAIN seeds : b \in BytesOf(seeds[i])}
    <2>1. /\ total \in 1..MaxInt /\ gaps \in Seq(Within(total)) /\ Ordered(gaps)
          /\ \A b \in Int : Has(gaps, b) <=> b \in Bytes /\ ~Has(completed, b)
      BY TotalFacts, GapsFacts DEF GapsExact
    <2>2. /\ seeds \in Seq(NonEmpty) /\ Ordered(seeds)
          /\ \A b \in Int : Has(seeds, b) <=> Has(gaps, b)
      BY <2>1, SeedFacts, Zenon
    <2> HIDE DEF gaps, seeds
    <2>3. \A b \in Bytes : b \in Int
      BY <2>1 DEF Bytes
    <2>4. \A b \in Bytes : b \in Claimed <=> Has(completed, b)
      <3>1. completed \in Seq(Spans)
        BY TaskSeqFacts, NonEmptySeq DEF TypeOK
      <3> QED BY <2>3, <3>1, CoveredBy DEF Claimed, Has
    <2>5. /\ Len(seeds) \in Nat /\ DOMAIN seeds = 1..Len(seeds)
          /\ \A i \in 1..Len(seeds) : seeds[i].Start \in Int /\ seeds[i].End \in Int
      BY <2>2, LenProperties, NonEmptySeq
    <2>6. \A i \in DOMAIN seeds, b \in Bytes :
             b \in BytesOf(seeds[i]) <=> seeds[i].Start <= b /\ b <= seeds[i].End
      BY <2>3, <2>5 DEF BytesOf
    <2>7. ASSUME NEW b \in Bytes, b \in Claimed PROVE Cardinality(At(b)) = 0
      <3>1. ~Has(seeds, b)
        BY <2>1, <2>2, <2>3, <2>4, <2>7
      <3>2. At(b) = {}
        BY <2>5, <2>6, <3>1 DEF Has
      <3> QED BY <3>2, FS_EmptySet
    <2>8. ASSUME NEW b \in Bytes, b \notin Claimed PROVE Cardinality(At(b)) = 1
      <3>1. Has(seeds, b)
        BY <2>1, <2>2, <2>3, <2>4, <2>8
      <3>2. PICK i \in 1..Len(seeds) : seeds[i].Start <= b /\ b <= seeds[i].End
        BY <3>1 DEF Has
      <3>3. ASSUME NEW j \in DOMAIN seeds, b \in BytesOf(seeds[j]) PROVE j = i
        <4>1. j \in 1..Len(seeds) /\ seeds[j].Start <= b /\ b <= seeds[j].End
          BY <2>5, <2>6, <3>3
        <4>2. ~(i < j)
          <5>1. i < j => seeds[i].End < seeds[j].Start
            BY <2>2, <4>1 DEF Ordered
          <5> QED BY <2>3, <2>5, <3>2, <4>1, <5>1
        <4>3. ~(j < i)
          <5>1. j < i => seeds[j].End < seeds[i].Start
            BY <2>2, <4>1 DEF Ordered
          <5> QED BY <2>3, <2>5, <3>2, <4>1, <5>1
        <4> QED BY <2>5, <4>1, <4>2, <4>3
      <3>4. i \in At(b)
        BY <2>5, <2>6, <3>2
      <3>5. At(b) = {i}
        BY <3>3, <3>4
      <3> QED BY <3>5, FS_Singleton
    <2> QED BY <2>7, <2>8 DEF SeedsExact, seeds
  <1> QED BY <1>1, TypeCorrect, PTL
=============================================================================
