------------------------ MODULE SandboxOutputProofs ------------------------
(***************************************************************************)
(* Proofs about what comes out of a sandbox, for any checkouts, suites,    *)
(* commands that fail and amounts of output.  HeadTailBuffer keeps the     *)
(* ends of it; an install that ends well has done what it had to and names *)
(* what it left out; the verdict and the numbers follow the tests; and a   *)
(* patch is read as what was changed.                                      *)
(*                                                                         *)
(* The model folds over sequences.  A fold is a choice of a function that  *)
(* takes one element after the other, so first there are lemmas that such  *)
(* a function exists and what it comes to; then one on each fold.          *)
(***************************************************************************)
EXTENDS SandboxOutput, SequenceTheorems, FiniteSetTheorems, WellFoundedInduction, TLAPS

(* A set of numbers has a least one; this stands for induction below. *)
LEMMA LeastNatural ==
  ASSUME NEW T \in SUBSET Nat, T # {}
  PROVE  \E m \in T : \A k \in T : m <= k
<1> DEFINE R == OpToRel(<, Nat)
<1>1. IsWellFoundedOn(R, Nat)
  BY NatLessThanWellFounded
<1>2. \A y, x \in Nat : y < x => <<y, x>> \in R
  BY DEF OpToRel
<1> HIDE DEF R
<1>3. PICK x \in T : \A y \in T : ~ (<<y, x>> \in R)
  BY <1>1, WFMin
<1>4. \A y \in T : ~ (y < x)
  BY <1>2, <1>3
<1> QED
  BY <1>4

(* What is so at 0 and carried from each number to the next is so up to N. *)
LEMMA Counting ==
  ASSUME NEW N \in Nat, NEW T, 0 \in T,
         \A n \in 1 .. N : n - 1 \in T => n \in T
  PROVE  0 .. N \subseteq T
<1> SUFFICES ASSUME ~(0 .. N \subseteq T) PROVE FALSE
  OBVIOUS
<1> DEFINE U == (0 .. N) \ T
<1>0. U \in SUBSET Nat /\ U # {}
  OBVIOUS
<1>1. PICK m \in U : \A k \in U : m <= k
  <2> HIDE DEF U
  <2> QED
    BY <1>0, LeastNatural
<1>2. m \in 1 .. N /\ m - 1 \in 0 .. N /\ ~(m <= m - 1)
  BY <1>1
<1> QED
  BY <1>1, <1>2

(* The largest number of a set that holds the bound. *)
LEMMA MaxOf ==
  ASSUME NEW N \in Nat, NEW s \in SUBSET (1 .. N), N \in s
  PROVE  Max(s) = N
<1>1. N \in s /\ \A y \in s : N >= y
  OBVIOUS
<1>2. \A x \in s : (\A y \in s : x >= y) => x = N
  BY <1>1
<1> QED
  BY <1>1, <1>2 DEF Max

(* The recursive function in a fold exists. *)
Iterates(step, base, seq, N, g) ==
  \A s \in SUBSET (1 .. N) :
    g[s] = IF s = {} THEN base ELSE step[<<g[s \ {Max(s)}], seq[Max(s)]>>]

(* There is a function on sets of positions that takes one element after the
   other. *)
LEMMA IterExists ==
  ASSUME NEW S, NEW L, NEW step \in [S \X L -> S], NEW base \in S, NEW seq \in Seq(L)
  PROVE  \E g \in [SUBSET (1 .. Len(seq)) -> S] : Iterates(step, base, seq, Len(seq), g)
<1> DEFINE N == Len(seq)
           T == {n \in 0 .. N : \E g \in [SUBSET (1 .. n) -> S] : Iterates(step, base, seq, n, g)}
<1>0. N \in Nat /\ \A n \in 1 .. N : seq[n] \in L
  OBVIOUS
<1> HIDE DEF N
<1>1. 0 \in T
  <2> DEFINE g == [s \in SUBSET (1 .. 0) |-> base]
  <2>1. g \in [SUBSET (1 .. 0) -> S]
    OBVIOUS
  <2>2. \A s \in SUBSET (1 .. 0) : s = {}
    OBVIOUS
  <2>3. Iterates(step, base, seq, 0, g)
    BY <2>2 DEF Iterates
  <2> QED
    BY <2>1, <2>3, <1>0
<1>2. ASSUME NEW n \in 1 .. N, n - 1 \in T
      PROVE  n \in T
  <2>1. PICK g \in [SUBSET (1 .. (n - 1)) -> S] : Iterates(step, base, seq, n - 1, g)
    BY <1>2
  <2> DEFINE h == [s \in SUBSET (1 .. n) |-> IF n \in s THEN step[<<g[s \ {n}], seq[n]>>] ELSE g[s]]
  <2>2. n \in Nat /\ seq[n] \in L
    BY <1>0
  <2>3. \A s \in SUBSET (1 .. n) : s \ {n} \in SUBSET (1 .. (n - 1))
    BY <2>2
  <2>4. \A s \in SUBSET (1 .. n) : n \notin s => s \in SUBSET (1 .. (n - 1))
    BY <2>2
  <2>5. h \in [SUBSET (1 .. n) -> S]
    <3> SUFFICES ASSUME NEW s \in SUBSET (1 .. n) PROVE h[s] \in S
      OBVIOUS
    <3>1. CASE n \in s
      <4>1. g[s \ {n}] \in S
        BY <2>3
      <4> QED
        BY <3>1, <4>1, <2>2
    <3>2. CASE n \notin s
      BY <3>2, <2>4
    <3> QED
      BY <3>1, <3>2
  <2>6. \A s \in SUBSET (1 .. n) :
          h[s] = IF s = {} THEN base ELSE step[<<h[s \ {Max(s)}], seq[Max(s)]>>]
    <3> SUFFICES ASSUME NEW s \in SUBSET (1 .. n)
                 PROVE  h[s] = IF s = {} THEN base ELSE step[<<h[s \ {Max(s)}], seq[Max(s)]>>]
      OBVIOUS
    <3>1. CASE n \in s
      <4>1. Max(s) = n
        BY <3>1, <2>2, MaxOf
      <4>2. h[s \ {n}] = g[s \ {n}] /\ h[s] = step[<<g[s \ {n}], seq[n]>>]
        BY <3>1
      <4> QED
        BY <3>1, <4>1, <4>2
    <3>2. CASE n \notin s
      <4>1. s \in SUBSET (1 .. (n - 1)) /\ h[s] = g[s]
        BY <3>2, <2>4
      <4>2. s \ {Max(s)} \in SUBSET (1 .. n) /\ n \notin s \ {Max(s)}
        BY <3>2
      <4>3. h[s \ {Max(s)}] = g[s \ {Max(s)}]
        BY <4>2
      <4> QED
        BY <4>1, <4>3, <2>1 DEF Iterates
    <3> QED
      BY <3>1, <3>2
  <2> HIDE DEF h
  <2>7. Iterates(step, base, seq, n, h)
    BY <2>6 DEF Iterates
  <2> QED
    BY <2>5, <2>7
<1>3. 0 .. N \subseteq T
  <2> HIDE DEF T
  <2> QED
    BY <1>0, <1>1, <1>2, Counting
<1>4. N \in T
  <2>1. N \in 0 .. N
    BY <1>0
  <2> HIDE DEF T
  <2> QED
    BY <2>1, <1>3
<1> QED
  BY <1>4 DEF N

(* The largest number of a set of positions is one of them. *)
LEMMA MaxIn ==
  ASSUME NEW N \in Nat, NEW s \in SUBSET (1 .. N), s # {}
  PROVE  Max(s) \in s /\ \A k \in s : k <= Max(s)
<1> DEFINE U == {N - k : k \in s}
<1>0. \A k \in s : k \in Nat /\ N - k \in Nat
  OBVIOUS
<1>1. U \in SUBSET Nat /\ U # {}
  BY <1>0
<1>2. PICK u \in U : \A k \in U : u <= k
  <2> HIDE DEF U
  <2> QED
    BY <1>1, LeastNatural
<1>3. PICK m \in s : u = N - m
  BY <1>2
<1>4. \A k \in s : N - k \in U
  OBVIOUS
<1>5. \A k \in s : m >= k
  <2> SUFFICES ASSUME NEW k \in s PROVE m >= k
    OBVIOUS
  <2>1. N - m <= N - k
    BY <1>2, <1>3
  <2> QED
    BY <2>1, <1>0
<1>6. \E x \in s : \A y \in s : x >= y
  BY <1>3, <1>5
<1>7. Max(s) \in s /\ \A y \in s : Max(s) >= y
  BY <1>6 DEF Max
<1> QED
  BY <1>7

(* So is the least. *)
LEMMA MinIn ==
  ASSUME NEW N \in Nat, NEW s \in SUBSET (1 .. N), s # {}
  PROVE  Min(s) \in s
<1>1. \E m \in s : \A k \in s : m <= k
  BY LeastNatural
<1> QED
  BY <1>1 DEF Min

(* What such a function g is, spelled out for the definition of
   MapThenFoldSet. *)
Folds(step, S, L, base, seq, g) ==
  /\ g = [s \in SUBSET DOMAIN seq |-> g[s]]
  /\ g[{}] = base
  /\ \A s \in SUBSET DOMAIN seq :
       s # {} => /\ g[s \ {Max(s)}] \in S
                 /\ seq[Max(s)] \in L
                 /\ g[s] = step[<<g[s \ {Max(s)}], seq[Max(s)]>>]

(* The function that MapThenFoldSet chooses is there to be chosen. *)
LEMMA FoldExists ==
  ASSUME NEW S, NEW L, NEW step \in [S \X L -> S], NEW base \in S, NEW seq \in Seq(L)
  PROVE  \E g : Folds(step, S, L, base, seq, g)
<1>1. /\ Len(seq) \in Nat /\ DOMAIN seq = 1 .. Len(seq)
      /\ \A n \in DOMAIN seq : seq[n] \in L
  OBVIOUS
<1>2. PICK g \in [SUBSET DOMAIN seq -> S] : Iterates(step, base, seq, Len(seq), g)
  BY <1>1, IterExists
<1>3. g[{}] = base
  BY <1>1, <1>2 DEF Iterates
<1>4. ASSUME NEW s \in SUBSET DOMAIN seq, s # {}
      PROVE  /\ g[s \ {Max(s)}] \in S
             /\ seq[Max(s)] \in L
             /\ g[s] = step[<<g[s \ {Max(s)}], seq[Max(s)]>>]
  <2>1. Max(s) \in s
    BY <1>1, <1>4, MaxIn
  <2>2. s \ {Max(s)} \in SUBSET DOMAIN seq
    OBVIOUS
  <2>3. g[s \ {Max(s)}] \in S /\ seq[Max(s)] \in L
    BY <2>1, <2>2, <1>1
  <2>4. s \in SUBSET (1 .. Len(seq))
    BY <1>1
  <2> QED
    BY <2>3, <2>4, <1>2, <1>4 DEF Iterates
<1> QED
  BY <1>3, <1>4 DEF Folds

(* What a fold comes to, step by step. *)
RunsTo(step, S, base, seq, t) ==
  \E f \in [0 .. Len(seq) -> S] :
    /\ f[0] = base
    /\ \A n \in 1 .. Len(seq) : f[n] = step[<<f[n - 1], seq[n]>>]
    /\ f[Len(seq)] = t

(* That h takes one element after the other. *)
Follows(step, S, L, base, seq, h) ==
  /\ h[{}] = base
  /\ \A s \in SUBSET DOMAIN seq :
       s # {} /\ h[s \ {Max(s)}] \in S /\ seq[Max(s)] \in L
         => h[s] = step[<<h[s \ {Max(s)}], seq[Max(s)]>>]

(* A fold from the left comes to what its steps come to. *)
LEMMA FoldRuns ==
  ASSUME NEW S, NEW L, NEW step \in [S \X L -> S], NEW base \in S, NEW seq \in Seq(L),
         NEW h, Follows(step, S, L, base, seq, h)
  PROVE  RunsTo(step, S, base, seq, h[DOMAIN seq])
<1> DEFINE N == Len(seq)
           f == [n \in 0 .. N |-> h[1 .. n]]
           T == {n \in 0 .. N : h[1 .. n] \in S}
<1>0. N \in Nat /\ DOMAIN seq = 1 .. N /\ \A n \in 1 .. N : seq[n] \in L
  OBVIOUS
<1> HIDE DEF N
<1>1. \A n \in 1 .. N : h[1 .. (n - 1)] \in S => h[1 .. n] = step[<<h[1 .. (n - 1)], seq[n]>>]
  <2> SUFFICES ASSUME NEW n \in 1 .. N, h[1 .. (n - 1)] \in S
               PROVE  h[1 .. n] = step[<<h[1 .. (n - 1)], seq[n]>>]
    OBVIOUS
  <2>0. n \in Nat /\ 1 <= n /\ n <= N
    BY <1>0
  <2>1. n \in Nat /\ n \in 1 .. n /\ 1 .. n \in SUBSET DOMAIN seq /\ 1 .. n # {}
    <3>1. n \in 1 .. n /\ 1 .. n \subseteq 1 .. N
      BY <2>0, <1>0
    <3> QED
      BY <2>0, <3>1, <1>0
  <2>2. Max(1 .. n) = n
    BY <2>1, MaxOf
  <2>3. (1 .. n) \ {n} = 1 .. (n - 1)
    BY <2>1
  <2>4. seq[n] \in L
    BY <1>0
  <2> QED
    BY <2>1, <2>2, <2>3, <2>4 DEF Follows
<1>2. 0 .. N \subseteq T
  <2>1. 0 \in T
    <3>1. 1 .. 0 = {}
      OBVIOUS
    <3> QED
      BY <3>1, <1>0 DEF Follows
  <2>2. \A n \in 1 .. N : n - 1 \in T => n \in T
    <3> SUFFICES ASSUME NEW n \in 1 .. N, n - 1 \in T PROVE n \in T
      OBVIOUS
    <3>1. n \in 0 .. N /\ seq[n] \in L /\ h[1 .. (n - 1)] \in S
      BY <1>0
    <3>2. h[1 .. n] = step[<<h[1 .. (n - 1)], seq[n]>>]
      BY <3>1, <1>1
    <3>3. h[1 .. n] \in S
      BY <3>1, <3>2
    <3> QED
      BY <3>1, <3>3
  <2> HIDE DEF T
  <2> QED
    BY <2>1, <2>2, <1>0, Counting
<1>3. f \in [0 .. N -> S]
  BY <1>2
<1>4. f[0] = base
  <2>1. 1 .. 0 = {} /\ 0 \in 0 .. N
    BY <1>0
  <2> QED
    BY <2>1 DEF Follows
<1>5. \A n \in 1 .. N : f[n] = step[<<f[n - 1], seq[n]>>]
  <2> SUFFICES ASSUME NEW n \in 1 .. N PROVE f[n] = step[<<f[n - 1], seq[n]>>]
    OBVIOUS
  <2>1. n \in 0 .. N /\ n - 1 \in 0 .. N
    BY <1>0
  <2> QED
    BY <2>1, <1>1, <1>2
<1>6. f[N] = h[DOMAIN seq]
  BY <1>0
<1> HIDE DEF f
<1> QED
  BY <1>3, <1>4, <1>5, <1>6 DEF RunsTo, N

-----------------------------------------------------------------------------
(* The result of a fold has the type of its steps. *)
LEMMA RunsType ==
  ASSUME NEW S, NEW step, NEW base, NEW L, NEW seq \in Seq(L), NEW t,
         RunsTo(step, S, base, seq, t)
  PROVE  base \in S /\ t \in S
<1>1. 0 \in 0 .. Len(seq) /\ Len(seq) \in 0 .. Len(seq)
  OBVIOUS
<1> QED
  BY <1>1 DEF RunsTo

(* A fold has one result. *)
LEMMA RunsUnique ==
  ASSUME NEW S, NEW step, NEW base, NEW L, NEW seq \in Seq(L), NEW t, NEW u,
         RunsTo(step, S, base, seq, t), RunsTo(step, S, base, seq, u)
  PROVE  t = u
<1> DEFINE N == Len(seq)
<1>0. N \in Nat
  OBVIOUS
<1>1. PICK f \in [0 .. N -> S] :
        f[0] = base /\ f[N] = t /\ \A n \in 1 .. N : f[n] = step[<<f[n - 1], seq[n]>>]
  BY DEF RunsTo
<1>2. PICK g \in [0 .. N -> S] :
        g[0] = base /\ g[N] = u /\ \A n \in 1 .. N : g[n] = step[<<g[n - 1], seq[n]>>]
  BY DEF RunsTo
<1> HIDE DEF N
<1> DEFINE T == {n \in 0 .. N : f[n] = g[n]}
<1>3. 0 \in T
  BY <1>0, <1>1, <1>2
<1>4. \A n \in 1 .. N : n - 1 \in T => n \in T
  BY <1>0, <1>1, <1>2
<1>5. N \in T
  <2> HIDE DEF T
  <2>1. N \in 0 .. N
    BY <1>0
  <2> QED
    BY <2>1, <1>0, <1>3, <1>4, Counting
<1> QED
  BY <1>1, <1>2, <1>5

(* Of no elements it is the base. *)
LEMMA RunsEmpty ==
  ASSUME NEW S, NEW step, NEW base \in S
  PROVE  RunsTo(step, S, base, <<>>, base)
<1> DEFINE f == [n \in 0 .. 0 |-> base]
<1>1. Len(<<>>) = 0 /\ f \in [0 .. 0 -> S] /\ f[0] = base
  OBVIOUS
<1>2. \A n \in 1 .. 0 : FALSE
  OBVIOUS
<1> HIDE DEF f
<1> QED
  BY <1>1, <1>2 DEF RunsTo

(* Of one element it is one step. *)
LEMMA RunsOne ==
  ASSUME NEW S, NEW L, NEW step \in [S \X L -> S], NEW base \in S, NEW x \in L
  PROVE  RunsTo(step, S, base, <<x>>, step[<<base, x>>])
<1> DEFINE f == [n \in 0 .. 1 |-> IF n = 0 THEN base ELSE step[<<base, x>>]]
<1>1. Len(<<x>>) = 1 /\ <<x>>[1] = x
  OBVIOUS
<1>2. f \in [0 .. 1 -> S] /\ f[0] = base /\ f[1] = step[<<base, x>>]
  OBVIOUS
<1>3. \A n \in 1 .. 1 : n = 1 /\ n - 1 = 0
  OBVIOUS
<1> HIDE DEF f
<1>4. \A n \in 1 .. 1 : f[n] = step[<<f[n - 1], <<x>>[n]>>]
  BY <1>1, <1>2, <1>3
<1> QED
  BY <1>1, <1>2, <1>4 DEF RunsTo

(* A fold of two sequences goes on where the first one ended. *)
LEMMA RunsConcat ==
  ASSUME NEW S, NEW L, NEW step \in [S \X L -> S], NEW base, NEW s \in Seq(L), NEW r \in Seq(L),
         NEW t, NEW u,
         RunsTo(step, S, base, s, t), RunsTo(step, S, t, r, u)
  PROVE  RunsTo(step, S, base, s \o r, u)
<1> DEFINE M == Len(s)
           N == Len(r)
<1>0. /\ M \in Nat /\ N \in Nat /\ Len(s \o r) = M + N
      /\ \A n \in 1 .. M : (s \o r)[n] = s[n]
      /\ \A n \in (M + 1) .. (M + N) : (s \o r)[n] = r[n - M]
  OBVIOUS
<1>1. PICK f \in [0 .. M -> S] :
        f[0] = base /\ f[M] = t /\ \A n \in 1 .. M : f[n] = step[<<f[n - 1], s[n]>>]
  BY DEF RunsTo
<1>2. PICK g \in [0 .. N -> S] :
        g[0] = t /\ g[N] = u /\ \A n \in 1 .. N : g[n] = step[<<g[n - 1], r[n]>>]
  BY DEF RunsTo
<1> HIDE DEF M, N
<1> DEFINE h == [n \in 0 .. (M + N) |-> IF n <= M THEN f[n] ELSE g[n - M]]
<1>3. h \in [0 .. (M + N) -> S]
  BY <1>0
<1>4. h[0] = base /\ h[M + N] = u
  <2>1. 0 \in 0 .. (M + N) /\ 0 <= M /\ M + N \in 0 .. (M + N) /\ (M + N) - M = N
    BY <1>0
  <2>2. M + N <= M => N = 0 /\ M + N = M
    BY <1>0
  <2> QED
    BY <2>1, <2>2, <1>1, <1>2
<1>5. ASSUME NEW n \in 1 .. (M + N)
      PROVE  h[n] = step[<<h[n - 1], (s \o r)[n]>>]
  <2>0. n \in 0 .. (M + N) /\ n - 1 \in 0 .. (M + N)
    BY <1>0
  <2>1. CASE n <= M
    <3>1. n \in 1 .. M /\ n - 1 <= M
      BY <2>1, <1>0
    <3>2. h[n] = f[n] /\ h[n - 1] = f[n - 1]
      BY <2>0, <2>1, <3>1
    <3>3. f[n] = step[<<f[n - 1], s[n]>>] /\ (s \o r)[n] = s[n]
      BY <3>1, <1>0, <1>1
    <3> QED
      BY <3>2, <3>3
  <2>2. CASE n > M
    <3>1. n \in (M + 1) .. (M + N) /\ n - M \in 1 .. N /\ ~(n <= M)
      BY <2>2, <1>0
    <3>2. h[n] = g[n - M] /\ g[n - M] = step[<<g[(n - M) - 1], (s \o r)[n]>>]
      <4>1. h[n] = g[n - M]
        BY <2>0, <3>1
      <4> QED
        BY <4>1, <3>1, <1>0, <1>2
    <3>3. h[n - 1] = g[(n - M) - 1]
      <4>1. CASE n = M + 1
        <5>1. n - 1 = M /\ (n - M) - 1 = 0 /\ M <= M /\ M \in 0 .. (M + N)
          BY <4>1, <1>0
        <5>2. h[M] = f[M]
          BY <5>1, <2>0
        <5>3. g[0] = f[M]
          BY <1>1, <1>2
        <5> QED
          BY <5>1, <5>2, <5>3
      <4>2. CASE n # M + 1
        <5>1. ~(n - 1 <= M) /\ (n - 1) - M = (n - M) - 1
          BY <4>2, <2>2, <1>0
        <5> QED
          BY <5>1, <2>0
      <4> QED
        BY <4>1, <4>2
    <3> QED
      BY <3>2, <3>3
  <2>3. n <= M \/ n > M
    BY <1>0
  <2> QED
    BY <2>1, <2>2, <2>3
<1> HIDE DEF h
<1> QED
  BY <1>0, <1>3, <1>4, <1>5 DEF RunsTo

-----------------------------------------------------------------------------
(* What can become of a suite, and the sums of such counts. *)
Counts == [passed : Nat, failed : Nat, skipped : Nat, aside : Nat, unloaded : Nat]

(* Zero is one of them. *)
LEMMA ZeroCounts == Zero \in Counts
  BY DEF Zero, Counts

(* The sum of two is taken field by field. *)
LEMMA PlusCounts ==
  ASSUME NEW s \in Counts, NEW t \in Counts
  PROVE  /\ plus(s, t) \in Counts
         /\ plus(s, t).passed = s.passed + t.passed
         /\ plus(s, t).failed = s.failed + t.failed
         /\ plus(s, t).skipped = s.skipped + t.skipped
         /\ plus(s, t).aside = s.aside + t.aside
         /\ plus(s, t).unloaded = s.unloaded + t.unloaded
<1>1. DOMAIN s = {"passed", "failed", "skipped", "aside", "unloaded"}
  BY DEF Counts
<1>2. \A f \in DOMAIN s : s[f] \in Nat /\ t[f] \in Nat
  BY DEF Counts
<1>3. plus(s, t) = [f \in {"passed", "failed", "skipped", "aside", "unloaded"} |-> s[f] + t[f]]
  BY <1>1 DEF plus
<1>4. plus(s, t) = [passed |-> s.passed + t.passed, failed |-> s.failed + t.failed,
                    skipped |-> s.skipped + t.skipped, aside |-> s.aside + t.aside,
                    unloaded |-> s.unloaded + t.unloaded]
  BY <1>3
<1> QED
  BY <1>1, <1>2, <1>4 DEF Counts

(* Nothing is added to the first one. *)
LEMMA PlusZero ==
  ASSUME NEW t \in Counts
  PROVE  plus(Zero, t) = t
<1>1. plus(Zero, t) \in Counts
  BY ZeroCounts, PlusCounts
<1>2. /\ plus(Zero, t).passed = t.passed /\ plus(Zero, t).failed = t.failed
      /\ plus(Zero, t).skipped = t.skipped /\ plus(Zero, t).aside = t.aside
      /\ plus(Zero, t).unloaded = t.unloaded
  BY ZeroCounts, PlusCounts DEF Zero, Counts
<1> QED
  BY <1>1, <1>2 DEF Counts

(* The step of total. *)
AddCounts == [p \in Counts \X Counts |-> plus(p[1], p[2])]

(* The total of suites is a fold of plus. *)
LEMMA TotalRuns ==
  ASSUME NEW suites \in Seq(Counts)
  PROVE  RunsTo(AddCounts, Counts, Zero, suites, total(suites))
<1> DEFINE Iter(h) == h = [s \in SUBSET DOMAIN suites |->
                             IF s = {} THEN Zero ELSE plus(h[s \ {Max(s)}], suites[Max(s)])]
<1>1. /\ AddCounts \in [Counts \X Counts -> Counts]
      /\ \A x \in Counts, l \in Counts : AddCounts[<<x, l>>] = plus(x, l)
  BY PlusCounts DEF AddCounts
<1>2. \E h : Iter(h)
  <2>1. PICK g : Folds(AddCounts, Counts, Counts, Zero, suites, g)
    BY <1>1, ZeroCounts, FoldExists
  <2>2. Iter(g)
    BY <1>1, <2>1 DEF Folds
  <2> QED
    BY <2>2
<1> DEFINE fold == CHOOSE h : Iter(h)
<1>3. Iter(fold)
  BY <1>2
<1>4. total(suites) = fold[DOMAIN suites]
  BY DEF total, FoldLeft, MapThenFoldSet
<1> HIDE DEF fold
<1>5. Follows(AddCounts, Counts, Counts, Zero, suites, fold)
  BY <1>1, <1>3 DEF Follows
<1>6. RunsTo(AddCounts, Counts, Zero, suites, fold[DOMAIN suites])
  BY <1>1, <1>5, ZeroCounts, FoldRuns
<1> QED
  BY <1>4, <1>6

(* The total of one suite is what it did. *)
LEMMA TotalOne ==
  ASSUME NEW t \in Counts
  PROVE  total(<<t>>) = t
<1>0. <<t>> \in Seq(Counts)
  OBVIOUS
<1>1. RunsTo(AddCounts, Counts, Zero, <<t>>, total(<<t>>))
  BY <1>0, TotalRuns
<1>2. Len(<<t>>) = 1 /\ <<t>>[1] = t
  OBVIOUS
<1>3. total(<<t>>) = AddCounts[<<Zero, t>>]
  <2>1. PICK f \in [0 .. 1 -> Counts] :
          /\ f[0] = Zero /\ f[1] = total(<<t>>)
          /\ \A n \in 1 .. 1 : f[n] = AddCounts[<<f[n - 1], <<t>>[n]>>]
    BY <1>1, <1>2 DEF RunsTo
  <2> QED
    BY <2>1, <1>2
<1> QED
  BY <1>3, ZeroCounts, PlusZero DEF AddCounts

(* The total of two is their sum. *)
LEMMA TotalTwo ==
  ASSUME NEW t \in Counts, NEW u \in Counts
  PROVE  total(<<t, u>>) = plus(t, u)
<1>0. <<t, u>> \in Seq(Counts)
  OBVIOUS
<1>1. RunsTo(AddCounts, Counts, Zero, <<t, u>>, total(<<t, u>>))
  BY <1>0, TotalRuns
<1>2. Len(<<t, u>>) = 2 /\ <<t, u>>[1] = t /\ <<t, u>>[2] = u
  OBVIOUS
<1>3. total(<<t, u>>) = AddCounts[<<AddCounts[<<Zero, t>>], u>>]
  <2>1. PICK f \in [0 .. 2 -> Counts] :
          /\ f[0] = Zero /\ f[2] = total(<<t, u>>)
          /\ \A n \in 1 .. 2 : f[n] = AddCounts[<<f[n - 1], <<t, u>>[n]>>]
    BY <1>1, <1>2 DEF RunsTo
  <2>2. f[1] = AddCounts[<<f[0], <<t, u>>[1]>>] /\ f[2] = AddCounts[<<f[1], <<t, u>>[2]>>]
    BY <2>1
  <2> QED
    BY <2>1, <2>2, <1>2
<1>4. AddCounts[<<Zero, t>>] = t
  BY ZeroCounts, PlusZero DEF AddCounts
<1> QED
  BY <1>3, <1>4 DEF AddCounts

-----------------------------------------------------------------------------
(* Where the items of two sequences, one after the other, are found. *)
LEMMA ConcatItems ==
  ASSUME NEW S, NEW s \in Seq(S), NEW t \in Seq(S)
  PROVE  /\ s \o t \in Seq(S)
         /\ Len(s \o t) = Len(s) + Len(t)
         /\ \A n \in 1 .. Len(s) : (s \o t)[n] = s[n]
         /\ \A n \in (Len(s) + 1) .. (Len(s) + Len(t)) : (s \o t)[n] = t[n - Len(s)]
  OBVIOUS

(* What is printed tells of one runner and of the suites of U. *)
Runners == {"pytest", "unittest", "vitest", "jest", "node", "other"}

(* A summary in the output is the runner's, and of a suite in U. *)
Fits(item, runner, U) == item.kind = "summary" => item.from = runner /\ item.counts \in U

(* Output of that kind. *)
Telling(runner, U) == {s \in Seq(Items) : \A n \in 1 .. Len(s) : Fits(s[n], runner, U)}

(* It stays so when more of the kind follows. *)
LEMMA TellingConcat ==
  ASSUME NEW runner, NEW U, NEW s \in Telling(runner, U), NEW r \in Telling(runner, U)
  PROVE  s \o r \in Telling(runner, U)
<1>1. /\ s \in Seq(Items) /\ r \in Seq(Items)
      /\ \A n \in 1 .. Len(s) : Fits(s[n], runner, U)
      /\ \A n \in 1 .. Len(r) : Fits(r[n], runner, U)
  BY DEF Telling
<1>2. /\ s \o r \in Seq(Items)
      /\ Len(s \o r) = Len(s) + Len(r)
      /\ \A n \in 1 .. Len(s) : (s \o r)[n] = s[n]
      /\ \A n \in (Len(s) + 1) .. (Len(s) + Len(r)) : (s \o r)[n] = r[n - Len(s)]
  BY <1>1, ConcatItems
<1>3. ASSUME NEW n \in 1 .. Len(s \o r)
      PROVE  Fits((s \o r)[n], runner, U)
  <2>0. Len(s) \in Nat /\ Len(r) \in Nat
    BY <1>1
  <2>1. CASE n \in 1 .. Len(s)
    BY <2>1, <1>1, <1>2
  <2>2. CASE n \notin 1 .. Len(s)
    <3>1. n \in (Len(s) + 1) .. (Len(s) + Len(r)) /\ n - Len(s) \in 1 .. Len(r)
      BY <2>0, <2>2, <1>2
    <3> QED
      BY <3>1, <1>1, <1>2
  <2> QED
    BY <2>1, <2>2
<1> QED
  BY <1>2, <1>3 DEF Telling

(* The pieces that a runner prints are of the kind. *)
LEMMA TellingFew ==
  ASSUME NEW runner \in Runners, NEW U \in SUBSET Truths, NEW t \in U
  PROVE  /\ <<>> \in Telling(runner, U) /\ <<Log>> \in Telling(runner, U)
         /\ <<Log, Log>> \in Telling(runner, U)
         /\ summaryItems(runner, t) \in Telling(runner, U)
<1>1. Log \in Items /\ Fits(Log, runner, U)
  BY ItemsAssumption DEF Log, Item, Fits
<1>2. runner # "other" => Item("summary", runner, t) \in Items
  BY ItemsAssumption DEF Runners
<1>3. Fits(Item("summary", runner, t), runner, U)
  BY DEF Fits, Item
<1>4. <<>> \in Telling(runner, U)
  BY DEF Telling
<1>5. \A i \in Items : Fits(i, runner, U) => <<i>> \in Telling(runner, U)
  <2> SUFFICES ASSUME NEW i \in Items, Fits(i, runner, U) PROVE <<i>> \in Telling(runner, U)
    OBVIOUS
  <2>1. <<i>> \in Seq(Items) /\ Len(<<i>>) = 1 /\ \A n \in 1 .. 1 : <<i>>[n] = i
    OBVIOUS
  <2> QED
    BY <2>1 DEF Telling
<1>6. <<Log, Log>> \in Telling(runner, U)
  <2>1. /\ <<Log, Log>> \in Seq(Items) /\ Len(<<Log, Log>>) = 2
        /\ \A n \in 1 .. 2 : <<Log, Log>>[n] = Log
    BY <1>1
  <2> QED
    BY <1>1, <2>1 DEF Telling
<1>7. summaryItems(runner, t) \in {<<>>, <<Item("summary", runner, t)>>}
      /\ (runner = "other" => summaryItems(runner, t) = <<>>)
  <2>1. CASE runner = "other"
    BY <2>1 DEF summaryItems
  <2>2. CASE runner = "vitest" /\ collected(t) = 0
    BY <2>2 DEF summaryItems
  <2>3. CASE ~(runner = "other") /\ ~(runner = "vitest" /\ collected(t) = 0)
    BY <2>3 DEF summaryItems
  <2> QED
    BY <2>1, <2>2, <2>3
<1> QED
  BY <1>1, <1>2, <1>3, <1>4, <1>5, <1>6, <1>7

(* The step of printed. *)
PrintStep(runner, U) ==
  [p \in Telling(runner, U) \X U |->
     p[1] \o <<Log>> \o summaryItems(runner, p[2])
     \o (IF runner = "node" /\ ~Green(p[2]) THEN <<Log, Log>> ELSE <<>>)]

(* All that a runner prints tells of it and of its suites. *)
LEMMA PrintedTells ==
  ASSUME NEW runner \in Runners, NEW U \in SUBSET Truths, NEW suites \in Seq(U)
  PROVE  printed(runner, suites) \in Telling(runner, U)
<1> DEFINE T == Telling(runner, U)
           next(x, t) == x \o <<Log>> \o summaryItems(runner, t)
                           \o (IF runner = "node" /\ ~Green(t) THEN <<Log, Log>> ELSE <<>>)
           Iter(h) == h = [s \in SUBSET DOMAIN suites |->
                             IF s = {} THEN <<>> ELSE next(h[s \ {Max(s)}], suites[Max(s)])]
<1>0. <<>> \in T
  BY DEF Telling
<1>1. /\ PrintStep(runner, U) \in [T \X U -> T]
      /\ \A x \in T, t \in U : PrintStep(runner, U)[<<x, t>>] = next(x, t)
  <2>1. ASSUME NEW x \in T, NEW t \in U PROVE next(x, t) \in T
    <3>1. x \o <<Log>> \in T
      BY TellingConcat, TellingFew
    <3>2. x \o <<Log>> \o summaryItems(runner, t) \in T
      BY <3>1, TellingConcat, TellingFew
    <3> QED
      BY <3>2, TellingConcat, TellingFew
  <2> QED
    BY <2>1 DEF PrintStep
<1>2. \E h : Iter(h)
  <2>1. PICK g : Folds(PrintStep(runner, U), T, U, <<>>, suites, g)
    BY <1>0, <1>1, FoldExists
  <2> HIDE DEF next
  <2>2. Iter(g)
    BY <1>1, <2>1 DEF Folds
  <2> QED
    BY <2>2
<1> DEFINE fold == CHOOSE h : Iter(h)
<1>3. Iter(fold)
  BY <1>2
<1>4. printed(runner, suites) = fold[DOMAIN suites]
  BY DEF printed, FoldLeft, MapThenFoldSet
<1> HIDE DEF fold, next
<1>5. Follows(PrintStep(runner, U), T, U, <<>>, suites, fold)
  BY <1>1, <1>3 DEF Follows
<1> HIDE DEF T
<1>6. RunsTo(PrintStep(runner, U), T, <<>>, suites, fold[DOMAIN suites])
  BY <1>0, <1>1, <1>5, FoldRuns
<1> QED
  BY <1>4, <1>6, RunsType DEF T

-----------------------------------------------------------------------------
(* What is made of a runner's summary. *)
readAs(runner, t) ==
  CASE runner = "pytest" -> readPytest(t)
    [] runner = "vitest" -> readVitest(t)
    [] runner = "jest" -> readJest(t)
    [] runner = "node" -> readNode(t)
    [] OTHER -> readUnittest(t)

(* parseOutput finds nothing in such output, or a summary of the runner's. *)
LEMMA OutputRead ==
  ASSUME NEW runner \in Runners, NEW U, NEW output \in Telling(runner, U)
  PROVE  \/ parseOutput(output) = NoSummary
         \/ runner # "other" /\ \E t \in U : parseOutput(output) = readAs(runner, t)
<1> DEFINE in(r) == summariesIn(output, r)
           min == Min(in(runner))
           max == Max(in(runner))
<1>1. /\ output \in Seq(Items) /\ Len(output) \in Nat /\ DOMAIN output = 1 .. Len(output)
      /\ \A n \in 1 .. Len(output) : Fits(output[n], runner, U)
  BY DEF Telling
<1>2. \A r : in(r) \in SUBSET (1 .. Len(output))
  BY <1>1 DEF summariesIn
<1>3. \A r : r # runner => in(r) = {}
  BY <1>1 DEF summariesIn, Fits
<1>4. in(runner) # {} => min \in in(runner) /\ max \in in(runner)
  <2> HIDE DEF in
  <2> QED
    BY <1>1, <1>2, MinIn, MaxIn
<1>5. \A n \in in(runner) : output[n].counts \in U
  BY <1>1 DEF summariesIn, Fits
<1> HIDE DEF in, min, max
<1>6. parseOutput(output) =
        CASE in("pytest") # {} -> readPytest(output[Max(in("pytest"))].counts)
          [] in("vitest") # {} -> readVitest(output[Max(in("vitest"))].counts)
          [] in("jest") # {} -> readJest(output[Max(in("jest"))].counts)
          [] in("node") # {} -> readNode(output[Min(in("node"))].counts)
          [] in("unittest") # {} -> readUnittest(output[Min(in("unittest"))].counts)
          [] OTHER -> NoSummary
  BY DEF parseOutput, in
<1>7. CASE in(runner) = {}
  <2>1. /\ in("pytest") = {} /\ in("vitest") = {} /\ in("jest") = {} /\ in("node") = {}
        /\ in("unittest") = {}
    BY <1>3, <1>7
  <2> QED
    BY <1>6, <2>1
<1>8. CASE in(runner) # {}
  <2>0. output[min].counts \in U /\ output[max].counts \in U
    BY <1>4, <1>5, <1>8
  <2>1. CASE runner = "pytest"
    <3>1. parseOutput(output) = readAs(runner, output[max].counts)
      BY <2>1, <1>3, <1>6, <1>8 DEF readAs, max
    <3> QED
      BY <2>0, <2>1, <3>1
  <2>2. CASE runner = "vitest"
    <3>1. parseOutput(output) = readAs(runner, output[max].counts)
      BY <2>2, <1>3, <1>6, <1>8 DEF readAs, max
    <3> QED
      BY <2>0, <2>2, <3>1
  <2>3. CASE runner = "jest"
    <3>1. parseOutput(output) = readAs(runner, output[max].counts)
      BY <2>3, <1>3, <1>6, <1>8 DEF readAs, max
    <3> QED
      BY <2>0, <2>3, <3>1
  <2>4. CASE runner = "node"
    <3>1. parseOutput(output) = readAs(runner, output[min].counts)
      BY <2>4, <1>3, <1>6, <1>8 DEF readAs, min
    <3> QED
      BY <2>0, <2>4, <3>1
  <2>5. CASE runner = "unittest"
    <3>1. parseOutput(output) = readAs(runner, output[min].counts)
      BY <2>5, <1>3, <1>6, <1>8 DEF readAs, min
    <3> QED
      BY <2>0, <2>5, <3>1
  <2>6. CASE runner = "other"
    <3>1. /\ in("pytest") = {} /\ in("vitest") = {} /\ in("jest") = {} /\ in("node") = {}
          /\ in("unittest") = {}
      BY <2>6, <1>3
    <3> QED
      BY <1>6, <3>1
  <2> QED
    BY <2>1, <2>2, <2>3, <2>4, <2>5, <2>6 DEF Runners
<1> QED
  BY <1>7, <1>8

-----------------------------------------------------------------------------
(* Test cases of a JUnit report, and cases that may hold cases. *)
Results == {"passed", "failure", "skipped", "error"}
Leaf == [result : Results, inner : {<<>>}]
Case == [result : Results, inner : Seq(Leaf)]

(* The result of the k-th of so many passed, failed and skipped test cases. *)
resultAt(k, p, f, s) ==
  IF k <= p THEN "passed" ELSE IF k <= p + f THEN "failure"
  ELSE IF k <= p + f + s THEN "skipped" ELSE "error"

(* So many cases with a result. *)
AreLeaves(s, n, result) ==
  s \in Seq(Leaf) /\ Len(s) = n /\ \A k \in 1 .. n : s[k].result = result

(* times makes them. *)
LEMMA TimesItems ==
  ASSUME NEW n \in Nat, NEW result \in Results
  PROVE  AreLeaves(times(n, result), n, result)
<1> DEFINE leaf == [result |-> result, inner |-> <<>>]
<1>1. leaf \in Leaf /\ leaf.result = result
  BY DEF Leaf
<1>2. times(n, result) = [k \in 1 .. n |-> leaf]
  BY DEF times
<1> HIDE DEF leaf
<1> QED
  BY <1>1, <1>2 DEF AreLeaves

(* Cases of two kinds, one after the other. *)
Joined(j, s, m, t, n) ==
  /\ j \in Seq(Leaf) /\ Len(j) = m + n
  /\ \A k \in 1 .. m : j[k] = s[k]
  /\ \A k \in (m + 1) .. (m + n) : j[k] = t[k - m]

(* Concatenation joins them. *)
LEMMA LeavesJoined ==
  ASSUME NEW s \in Seq(Leaf), NEW t \in Seq(Leaf), NEW m \in Nat, NEW n \in Nat,
         Len(s) = m, Len(t) = n, NEW j, j = s \o t
  PROVE  Joined(j, s, m, t, n)
  BY ConcatItems DEF Joined

(* Of four kinds, one after the other, each place has its result. *)
LEMMA JoinedResults ==
  ASSUME NEW p \in Nat, NEW f \in Nat, NEW s \in Nat, NEW u \in Nat,
         NEW a, NEW b, NEW c, NEW d, NEW ab, NEW abc, NEW cases,
         AreLeaves(a, p, "passed"), AreLeaves(b, f, "failure"), AreLeaves(c, s, "skipped"),
         AreLeaves(d, u, "error"),
         Joined(ab, a, p, b, f), Joined(abc, ab, p + f, c, s), Joined(cases, abc, p + f + s, d, u)
  PROVE  \A k \in 1 .. (p + f + s + u) : cases[k].result = resultAt(k, p, f, s)
<1> SUFFICES ASSUME NEW k \in 1 .. (p + f + s + u)
             PROVE  cases[k].result = resultAt(k, p, f, s)
  OBVIOUS
<1>1. CASE k <= p
  <2>1. k \in 1 .. p /\ k \in 1 .. (p + f) /\ k \in 1 .. (p + f + s)
    BY <1>1
  <2> QED
    BY <1>1, <2>1 DEF resultAt, AreLeaves, Joined
<1>2. CASE k > p /\ k <= p + f
  <2>1. /\ k \in (p + 1) .. (p + f) /\ k - p \in 1 .. f
        /\ k \in 1 .. (p + f) /\ k \in 1 .. (p + f + s)
    BY <1>2
  <2> QED
    BY <1>2, <2>1 DEF resultAt, AreLeaves, Joined
<1>3. CASE k > p + f /\ k <= p + f + s
  <2>1. /\ k \in (p + f + 1) .. (p + f + s) /\ k - (p + f) \in 1 .. s /\ k > p
        /\ k \in 1 .. (p + f + s)
    BY <1>3
  <2> QED
    BY <1>3, <2>1 DEF resultAt, AreLeaves, Joined
<1>4. CASE k > p + f + s
  <2>1. /\ k \in (p + f + s + 1) .. (p + f + s + u) /\ k - (p + f + s) \in 1 .. u
        /\ k > p /\ k > p + f
    BY <1>4
  <2> QED
    BY <1>4, <2>1 DEF resultAt, AreLeaves, Joined
<1> QED
  BY <1>1, <1>2, <1>3, <1>4

(* The four kinds of cases, one after the other. *)
fourKinds(p, f, s, u) ==
  times(p, "passed") \o times(f, "failure") \o times(s, "skipped") \o times(u, "error")

(* Cases in that order. *)
Holds(cases, p, f, s, u) ==
  /\ cases \in Seq(Leaf)
  /\ Len(cases) = p + f + s + u
  /\ \A k \in 1 .. (p + f + s + u) : cases[k].result = resultAt(k, p, f, s)

(* The cases of a report are in that order. *)
LEMMA CasesInOrder ==
  ASSUME NEW p \in Nat, NEW f \in Nat, NEW s \in Nat, NEW u \in Nat
  PROVE  Holds(fourKinds(p, f, s, u), p, f, s, u)
<1> DEFINE a == times(p, "passed")
           b == times(f, "failure")
           c == times(s, "skipped")
           d == times(u, "error")
           ab == a \o b
           abc == ab \o c
           cases == abc \o d
<1> HIDE DEF a, b, c, d, ab, abc, cases
<1>1. /\ AreLeaves(a, p, "passed") /\ AreLeaves(b, f, "failure")
      /\ AreLeaves(c, s, "skipped") /\ AreLeaves(d, u, "error")
  <2> QED
    BY TimesItems DEF Results, a, b, c, d
<1>2. ab = a \o b /\ abc = ab \o c /\ cases = abc \o d
  BY DEF ab, abc, cases
<1>3. Joined(ab, a, p, b, f)
  BY <1>1, <1>2, LeavesJoined DEF AreLeaves
<1>4. Joined(abc, ab, p + f, c, s)
  <2>1. p + f \in Nat /\ ab \in Seq(Leaf) /\ Len(ab) = p + f
    BY <1>3 DEF Joined
  <2> QED
    BY <2>1, <1>1, <1>2, LeavesJoined DEF AreLeaves
<1>5. Joined(cases, abc, p + f + s, d, u)
  <2>1. p + f + s \in Nat /\ abc \in Seq(Leaf) /\ Len(abc) = p + f + s
    BY <1>4 DEF Joined
  <2> QED
    BY <2>1, <1>1, <1>2, LeavesJoined DEF AreLeaves
<1>6. \A k \in 1 .. (p + f + s + u) : cases[k].result = resultAt(k, p, f, s)
  BY <1>1, <1>3, <1>4, <1>5, JoinedResults
<1>7. cases \in Seq(Leaf) /\ Len(cases) = p + f + s + u
  BY <1>5 DEF Joined
<1> QED
  BY <1>6, <1>7 DEF Holds, fourKinds, a, b, c, d, ab, abc, cases

(* And counted. *)
LEMMA CasesCounted ==
  ASSUME NEW p \in Nat, NEW f \in Nat, NEW s \in Nat, NEW u \in Nat,
         NEW cases, Holds(cases, p, f, s, u)
  PROVE  /\ count(cases, {"passed"}) = p
         /\ count(cases, {"failure", "error"}) = f + u
         /\ count(cases, {"skipped"}) = s
<1>0. /\ DOMAIN cases = 1 .. (p + f + s + u)
      /\ \A k \in 1 .. (p + f + s + u) : cases[k].result = resultAt(k, p, f, s)
  BY DEF Holds
<1>1. {n \in DOMAIN cases : cases[n].result \in {"passed"}} = 1 .. p
  BY <1>0 DEF resultAt
<1>2. {n \in DOMAIN cases : cases[n].result \in {"skipped"}} = (p + f + 1) .. (p + f + s)
  BY <1>0 DEF resultAt
<1>3. {n \in DOMAIN cases : cases[n].result \in {"failure", "error"}}
        = ((p + 1) .. (p + f)) \cup ((p + f + s + 1) .. (p + f + s + u))
  BY <1>0 DEF resultAt
<1>4. /\ Cardinality(1 .. p) = p
      /\ Cardinality((p + f + 1) .. (p + f + s)) = s
      /\ IsFiniteSet((p + 1) .. (p + f)) /\ Cardinality((p + 1) .. (p + f)) = f
      /\ IsFiniteSet((p + f + s + 1) .. (p + f + s + u))
      /\ Cardinality((p + f + s + 1) .. (p + f + s + u)) = u
  <2>2. \A m, n \in Nat : /\ IsFiniteSet((m + 1) .. (m + n))
                           /\ Cardinality((m + 1) .. (m + n)) = n
    <3> SUFFICES ASSUME NEW m \in Nat, NEW n \in Nat
                 PROVE  /\ IsFiniteSet((m + 1) .. (m + n))
                        /\ Cardinality((m + 1) .. (m + n)) = n
      OBVIOUS
    <3> DEFINE x == m + 1
               y == m + n
    <3>1. x \in Int /\ y \in Int /\ (x > y => n = 0) /\ y - x + 1 = n
      OBVIOUS
    <3> HIDE DEF x, y
    <3>2. IsFiniteSet(x .. y) /\ Cardinality(x .. y) = IF x > y THEN 0 ELSE y - x + 1
      BY <3>1, FS_Interval
    <3>3. IsFiniteSet(x .. y) /\ Cardinality(x .. y) = n
      BY <3>1, <3>2
    <3> QED
      BY <3>3 DEF x, y
  <2>3. p + f \in Nat /\ p + f + s \in Nat
    OBVIOUS
  <2>4. Cardinality((0 + 1) .. (0 + p)) = p /\ 0 + 1 = 1 /\ 0 + p = p
    BY <2>2
  <2>5. Cardinality((p + f + 1) .. (p + f + s)) = s
    BY <2>2, <2>3
  <2>6. IsFiniteSet((p + 1) .. (p + f)) /\ Cardinality((p + 1) .. (p + f)) = f
    BY <2>2
  <2>7. /\ IsFiniteSet((p + f + s + 1) .. (p + f + s + u))
        /\ Cardinality((p + f + s + 1) .. (p + f + s + u)) = u
    BY <2>2, <2>3
  <2> QED
    BY <2>4, <2>5, <2>6, <2>7
<1>5. ((p + 1) .. (p + f)) \cap ((p + f + s + 1) .. (p + f + s + u)) = {}
  OBVIOUS
<1>6. Cardinality(((p + 1) .. (p + f)) \cup ((p + f + s + 1) .. (p + f + s + u))) = f + u
  <2> DEFINE A == (p + 1) .. (p + f)
             B == (p + f + s + 1) .. (p + f + s + u)
  <2>1. /\ IsFiniteSet(A) /\ IsFiniteSet(B) /\ A \cap B = {}
        /\ Cardinality(A) = f /\ Cardinality(B) = u
    BY <1>4, <1>5
  <2> HIDE DEF A, B
  <2>2. Cardinality({}) = 0
    BY FS_EmptySet
  <2>3. Cardinality(A \cup B) = Cardinality(A) + Cardinality(B) - Cardinality(A \cap B)
    BY <2>1, FS_Union
  <2>4. Cardinality(A \cap B) = 0
    BY <2>1, <2>2, Zenon
  <2>5. Cardinality(A \cup B) = f + u
    BY <2>1, <2>3, <2>4
  <2> QED
    BY <2>5 DEF A, B
<1> QED
  BY <1>1, <1>2, <1>3, <1>4, <1>6 DEF count

-----------------------------------------------------------------------------
(* The step of leaves. *)
LeafStep ==
  [p \in Seq(Leaf) \X Case |-> IF p[2].inner = <<>> THEN Append(p[1], p[2]) ELSE p[1] \o p[2].inner]

(* It appends a case without inner cases, or the inner cases. *)
LEMMA LeafStepIs ==
  /\ LeafStep \in [Seq(Leaf) \X Case -> Seq(Leaf)]
  /\ \A x \in Seq(Leaf), c \in Case :
       LeafStep[<<x, c>>] = IF c.inner = <<>> THEN Append(x, c) ELSE x \o c.inner
<1> DEFINE next(x, c) == IF c.inner = <<>> THEN Append(x, c) ELSE x \o c.inner
<1>1. ASSUME NEW x \in Seq(Leaf), NEW c \in Case PROVE next(x, c) \in Seq(Leaf)
  <2>1. c.inner \in Seq(Leaf) /\ (c.inner = <<>> => c \in Leaf)
    BY DEF Case, Leaf
  <2>2. x \o c.inner \in Seq(Leaf)
    BY <2>1, ConcatItems
  <2> QED
    BY <2>1, <2>2
<1> QED
  BY <1>1 DEF LeafStep

(* leaves is a fold of it. *)
LEMMA LeavesRuns ==
  ASSUME NEW cases \in Seq(Case)
  PROVE  RunsTo(LeafStep, Seq(Leaf), <<>>, cases, leaves(cases))
<1> DEFINE next(x, c) == IF c.inner = <<>> THEN Append(x, c) ELSE x \o c.inner
           Iter(h) == h = [s \in SUBSET DOMAIN cases |->
                             IF s = {} THEN <<>> ELSE next(h[s \ {Max(s)}], cases[Max(s)])]
<1>0. <<>> \in Seq(Leaf)
  OBVIOUS
<1>1. /\ LeafStep \in [Seq(Leaf) \X Case -> Seq(Leaf)]
      /\ \A x \in Seq(Leaf), c \in Case : LeafStep[<<x, c>>] = next(x, c)
  BY LeafStepIs
<1>2. \E h : Iter(h)
  <2>1. PICK g : Folds(LeafStep, Seq(Leaf), Case, <<>>, cases, g)
    BY <1>0, <1>1, FoldExists
  <2> HIDE DEF next
  <2>2. Iter(g)
    BY <1>1, <2>1 DEF Folds
  <2> QED
    BY <2>2
<1> DEFINE fold == CHOOSE h : Iter(h)
<1>3. Iter(fold)
  BY <1>2
<1>4. leaves(cases) = fold[DOMAIN cases]
  BY DEF leaves, FoldLeft, MapThenFoldSet
<1> HIDE DEF fold, next
<1>5. Follows(LeafStep, Seq(Leaf), Case, <<>>, cases, fold)
  BY <1>1, <1>3 DEF Follows
<1>6. RunsTo(LeafStep, Seq(Leaf), <<>>, cases, fold[DOMAIN cases])
  BY <1>0, <1>1, <1>5, FoldRuns
<1> QED
  BY <1>4, <1>6

(* Cases without inner cases are the leaves. *)
LEMMA LeavesFlat ==
  ASSUME NEW cases \in Seq(Leaf)
  PROVE  leaves(cases) = cases
<1> DEFINE N == Len(cases)
<1>0. N \in Nat /\ \A n \in 1 .. N : cases[n] \in Leaf
  OBVIOUS
<1>1. cases \in Seq(Case) /\ \A n \in 1 .. N : cases[n] \in Case
  <2>1. Leaf \subseteq Case
    <3> SUFFICES ASSUME NEW x \in Leaf PROVE x \in Case
      OBVIOUS
    <3>1. <<>> \in Seq(Leaf)
      OBVIOUS
    <3>2. x = [result |-> x.result, inner |-> <<>>] /\ x.result \in Results
      BY DEF Leaf
    <3>3. \A r \in Results : [result |-> r, inner |-> <<>>] \in Case
      BY <3>1 DEF Case
    <3> QED
      BY <3>2, <3>3
  <2> QED
    BY <2>1
<1>2. RunsTo(LeafStep, Seq(Leaf), <<>>, cases, leaves(cases))
  BY <1>1, LeavesRuns
<1>3. PICK f \in [0 .. N -> Seq(Leaf)] :
        /\ f[0] = <<>> /\ f[N] = leaves(cases)
        /\ \A n \in 1 .. N : f[n] = LeafStep[<<f[n - 1], cases[n]>>]
  BY <1>2 DEF RunsTo
<1> HIDE DEF N
<1> DEFINE T == {n \in 0 .. N : Len(f[n]) = n /\ \A k \in 1 .. n : f[n][k] = cases[k]}
<1>4. 0 \in T
  <2>1. \A k \in 1 .. 0 : FALSE
    OBVIOUS
  <2> QED
    BY <2>1, <1>0, <1>3
<1>5. \A n \in 1 .. N : n - 1 \in T => n \in T
  <2> SUFFICES ASSUME NEW n \in 1 .. N, n - 1 \in T PROVE n \in T
    OBVIOUS
  <2>1. /\ n \in 0 .. N /\ n - 1 \in 0 .. N /\ f[n - 1] \in Seq(Leaf) /\ cases[n] \in Leaf
        /\ Len(f[n - 1]) = n - 1 /\ \A k \in 1 .. (n - 1) : f[n - 1][k] = cases[k]
    BY <1>0, <1>3
  <2>2. f[n] = Append(f[n - 1], cases[n])
    <3>1. cases[n] \in Case /\ cases[n].inner = <<>>
      BY <2>1, <1>0, <1>1 DEF Leaf
    <3> QED
      BY <2>1, <3>1, <1>3, LeafStepIs
  <2>3. Len(f[n]) = n
    BY <2>1, <2>2
  <2>4. \A k \in 1 .. n : f[n][k] = cases[k]
    <3> SUFFICES ASSUME NEW k \in 1 .. n PROVE f[n][k] = cases[k]
      OBVIOUS
    <3>1. CASE k = n
      BY <3>1, <2>1, <2>2
    <3>2. CASE k # n
      <4>1. k \in 1 .. (n - 1)
        BY <3>2, <2>1
      <4> QED
        BY <4>1, <2>1, <2>2
    <3> QED
      BY <3>1, <3>2
  <2> QED
    BY <2>1, <2>3, <2>4
<1>6. N \in T
  <2>1. N \in 0 .. N
    BY <1>0
  <2> HIDE DEF T
  <2> QED
    BY <2>1, <1>0, <1>4, <1>5, Counting
<1>7. leaves(cases) \in Seq(Leaf)
  BY <1>0, <1>3
<1>8. Len(leaves(cases)) = N /\ \A k \in 1 .. N : leaves(cases)[k] = cases[k]
  BY <1>3, <1>6
<1> QED
  BY <1>7, <1>8, SeqEqual DEF N

(* And those in a test are its leaves. *)
LEMMA LeavesNested ==
  ASSUME NEW cases \in Seq(Leaf), cases # <<>>, NEW result \in Results
  PROVE  leaves(<<[result |-> result, inner |-> cases]>>) = cases
<1> DEFINE c == [result |-> result, inner |-> cases]
<1>1. c \in Case /\ c.inner = cases
  BY DEF Case
<1> HIDE DEF c
<1>2. <<c>> \in Seq(Case)
  BY <1>1
<1>3. RunsTo(LeafStep, Seq(Leaf), <<>>, <<c>>, leaves(<<c>>))
  BY <1>2, LeavesRuns
<1>4. Len(<<c>>) = 1 /\ <<c>>[1] = c
  OBVIOUS
<1>5. PICK f \in [0 .. 1 -> Seq(Leaf)] :
        f[0] = <<>> /\ f[1] = leaves(<<c>>) /\ \A n \in 1 .. 1 : f[n] = LeafStep[<<f[n - 1], <<c>>[n]>>]
  BY <1>3, <1>4 DEF RunsTo
<1>6. leaves(<<c>>) = LeafStep[<<<<>>, c>>]
  BY <1>4, <1>5
<1>7. LeafStep[<<<<>>, c>>] = <<>> \o cases
  <2>1. <<>> \in Seq(Leaf)
    OBVIOUS
  <2> QED
    BY <2>1, <1>1, LeafStepIs
<1> QED
  BY <1>6, <1>7, ConcatEmptySeq DEF c

(* A report says what the suite did, whether its tests are nested or not. *)
LEMMA JUnitRead ==
  ASSUME NEW t \in Counts, NEW nested \in BOOLEAN
  PROVE  parseJUnit(junitOf(t, nested))
           = Summary(t.passed, t.failed + t.unloaded, t.skipped + t.aside, "junit")
<1> DEFINE p == t.passed
           f == t.failed
           s == t.skipped + t.aside
           u == t.unloaded
           cases == fourKinds(p, f, s, u)
<1>1. p \in Nat /\ f \in Nat /\ s \in Nat /\ u \in Nat
  BY DEF Counts
<1>2. junitOf(t, nested) = IF nested /\ cases # <<>>
                           THEN <<[result |-> IF Green(t) THEN "passed" ELSE "failure",
                                   inner |-> cases]>>
                           ELSE cases
  BY DEF junitOf, fourKinds
<1> HIDE DEF p, f, s, u
<1>3. Holds(cases, p, f, s, u)
  BY <1>1, CasesInOrder
<1>4. cases \in Seq(Leaf)
  BY <1>3 DEF Holds
<1>5. /\ count(cases, {"passed"}) = p
      /\ count(cases, {"failure", "error"}) = f + u
      /\ count(cases, {"skipped"}) = s
  BY <1>1, <1>3, CasesCounted
<1> HIDE DEF cases
<1>6. leaves(junitOf(t, nested)) = cases
  <2>1. CASE nested /\ cases # <<>>
    <3>1. (IF Green(t) THEN "passed" ELSE "failure") \in Results
      BY DEF Results
    <3> QED
      BY <2>1, <3>1, <1>2, <1>4, LeavesNested
  <2>2. CASE ~(nested /\ cases # <<>>)
    BY <2>2, <1>2, <1>4, LeavesFlat
  <2> QED
    BY <2>1, <2>2
<1> QED
  BY <1>5, <1>6 DEF parseJUnit, p, f, s, u

-----------------------------------------------------------------------------
(* A report of this run or of an earlier one, the runner's summary, or nothing. *)
ReadFrom(s, t, source) ==
  s = Summary(t.passed, t.failed + t.unloaded, t.skipped + t.aside, source)

(* Jest's has all failures, or as many as are listed by name. *)
ReadFromJest(s, t) ==
  /\ s.passed = t.passed /\ s.skipped = t.skipped + t.aside /\ s.source = "jest-json"
  /\ s.failed \in t.failed .. t.failed + t.unloaded
  /\ s.failed < t.failed + t.unloaded => s.failed >= MAX_FAILURES

(* A report with some of the files that could not be loaded before the failed tests. *)
Files ==
  {f \in [shape : {"whole", "missing"}, counts : Counts, nested : BOOLEAN, early : Nat] :
     f.early <= f.counts.unloaded}

(* The count that is corrected is wrong only if the list it is corrected with is full. *)
LEMMA JestRead ==
  ASSUME NEW t \in Counts, NEW early \in Nat, early <= t.unloaded
  PROVE  ReadFromJest(parseJestJson(jestJsonOf(t, early)), t)
<1> DEFINE f == t.failed
           u == t.unloaded
           room == MAX_FAILURES - early
           names == u + (IF room < 0 THEN 0 ELSE IF f < room THEN f ELSE room)
           most == IF f > names THEN f ELSE names
<1>1. f \in Nat /\ u \in Nat /\ MAX_FAILURES \in Nat /\ early <= u
  BY MaxFailuresAssumption DEF Counts
<1>2. parseJestJson(jestJsonOf(t, early)) = Summary(t.passed, most, t.skipped + t.aside, "jest-json")
  BY DEF parseJestJson, listed, jestJsonOf
<1> HIDE DEF f, u
<1>3. most \in f .. f + u /\ (most < f + u => most >= MAX_FAILURES)
  BY <1>1
<1> HIDE DEF most
<1> QED
  BY <1>2, <1>3 DEF ReadFromJest, Summary, f, u

(* readReport finds one of these, whatever the format and however much of the
   output was kept. *)
LEMMA SummaryRead ==
  ASSUME NEW runner \in Runners, NEW U, NEW output \in Telling(runner, U),
         NEW file \in Files, NEW format
  PROVE  LET s == readReport(file, format, output)
         IN \/ s = NoSummary
            \/ /\ file.shape = "whole"
               /\ ReadFrom(s, file.counts, "junit") \/ ReadFromJest(s, file.counts)
            \/ runner # "other" /\ \E t \in U : s = readAs(runner, t)
<1>0. /\ file.counts \in Counts /\ file.nested \in BOOLEAN
      /\ file.shape \in {"whole", "missing"}
      /\ file.early \in Nat /\ file.early <= file.counts.unloaded
  BY DEF Files
<1>1. CASE format = "junit" /\ file.shape = "whole"
  <2>1. readReport(file, format, output) = parseJUnit(junitOf(file.counts, file.nested))
    BY <1>1 DEF readReport
  <2>2. ReadFrom(parseJUnit(junitOf(file.counts, file.nested)), file.counts, "junit")
    BY <1>0, JUnitRead DEF ReadFrom
  <2> QED
    BY <1>1, <2>1, <2>2
<1>2. CASE format = "jest-json" /\ file.shape = "whole"
  <2>1. readReport(file, format, output) = parseJestJson(jestJsonOf(file.counts, file.early))
    BY <1>2 DEF readReport
  <2>2. ReadFromJest(parseJestJson(jestJsonOf(file.counts, file.early)), file.counts)
    BY <1>0, JestRead
  <2> QED
    BY <1>2, <2>1, <2>2
<1>3. CASE ~(format = "junit" /\ file.shape = "whole") /\ ~(format = "jest-json" /\ file.shape = "whole")
  <2>1. file.shape # "cut"
    BY <1>0
  <2>2. readReport(file, format, output) = parseOutput(output)
    BY <1>3, <2>1 DEF readReport
  <2> QED
    BY <2>2, OutputRead
<1> QED
  BY <1>1, <1>2, <1>3

(* What the plan for a checkout can be. *)
Detected(r, p) ==
  \/ \E test, path, format :
       /\ p = Plan("node", nodeInstall(r), test, path, format)
       /\ test \in {"none", "exec", "script"}
       /\ test \in {"exec", "script"} => r.bin \notin {"none", "placeholder"}
  \/ \E test, path, format :
       /\ p = Plan("python", pythonSteps(r), test, path, format)
       /\ (test = "pytest" /\ usesPytest(r)) \/ test = "unittest"

(* detect finds one of these, or an error. *)
LEMMA DetectedPlan ==
  ASSUME NEW r, detect(r).error = "none"
  PROVE  Detected(r, detect(r))
<1>1. ASSUME NEW why, why # "none" PROVE DetectionError(why).error # "none"
  BY <1>1 DEF DetectionError
<1>2. CASE stackOf(r) = "node"
  <2>1. detect(r) = detectNode(r)
    BY <1>2 DEF detect
  <2>2. detectNode(r) = nodeTest(r)
    <3>1. CASE "package.json" \in r.broken
      BY <3>1, <2>1, <1>1 DEF detectNode
    <3>2. CASE "package.json" \notin r.broken /\ nodePackageManager(r) = "bun"
      BY <3>2, <2>1, <1>1 DEF detectNode
    <3>3. CASE ~("package.json" \in r.broken) /\ ~(nodePackageManager(r) = "bun")
      BY <3>3 DEF detectNode
    <3> QED
      BY <3>1, <3>2, <3>3
  <2> DEFINE plan_(test, path, format) == Plan("node", nodeInstall(r), test, path, format)
  <2>3. \/ nodeTest(r) = plan_("none", "none", "none")
        \/ r.bin \notin {"none", "placeholder"} /\ nodeTest(r) = plan_("exec", JUNIT, "junit")
        \/ r.bin \notin {"none", "placeholder"} /\ nodeTest(r) = plan_("exec", JEST_JSON, "jest-json")
        \/ r.bin \notin {"none", "placeholder"} /\ nodeTest(r) = plan_("script", "none", "none")
    <3> HIDE DEF plan_
    <3>0. nodeTest(r) =
            CASE r.bin \in {"none", "placeholder"} -> plan_("none", "none", "none")
              [] r.simple /\ r.bin = "vitest" -> plan_("exec", JUNIT, "junit")
              [] r.simple /\ r.bin = "jest" -> plan_("exec", JEST_JSON, "jest-json")
              [] r.simple /\ r.bin = "node" -> plan_("exec", JUNIT, "junit")
              [] OTHER -> plan_("script", "none", "none")
      BY DEF nodeTest, plan_
    <3>1. CASE r.bin \in {"none", "placeholder"}
      BY <3>0, <3>1
    <3>2. CASE r.simple /\ r.bin = "vitest"
      BY <3>0, <3>2
    <3>3. CASE r.simple /\ r.bin = "jest"
      BY <3>0, <3>3
    <3>4. CASE r.simple /\ r.bin = "node"
      BY <3>0, <3>4
    <3>5. CASE /\ r.bin \notin {"none", "placeholder"} /\ ~(r.simple /\ r.bin = "vitest")
               /\ ~(r.simple /\ r.bin = "jest") /\ ~(r.simple /\ r.bin = "node")
      BY <3>0, <3>5
    <3> QED
      BY <3>1, <3>2, <3>3, <3>4, <3>5
  <2> HIDE DEF plan_
  <2>4. \E test, path, format :
          /\ nodeTest(r) = plan_(test, path, format)
          /\ test \in {"none", "exec", "script"}
          /\ test \in {"exec", "script"} => r.bin \notin {"none", "placeholder"}
    BY <2>3
  <2> QED
    BY <2>1, <2>2, <2>4 DEF Detected, plan_
<1>3. CASE stackOf(r) = "python"
  <2>1. detect(r) = detectPython(r)
    BY <1>3 DEF detect
  <2>2. CASE "pyproject.toml" \in r.broken
    BY <2>1, <2>2, <1>1 DEF detectPython
  <2>3. CASE "pyproject.toml" \notin r.broken /\ usesPytest(r)
    <3>1. detectPython(r) = Plan("python", pythonSteps(r), "pytest", JUNIT, "junit")
      BY <2>3 DEF detectPython
    <3> QED
      BY <2>1, <2>3, <3>1 DEF Detected
  <2>4. CASE "pyproject.toml" \notin r.broken /\ ~usesPytest(r)
    <3>1. detectPython(r) = Plan("python", pythonSteps(r), "unittest", "none", "none")
      BY <2>4 DEF detectPython
    <3> QED
      BY <2>1, <3>1 DEF Detected
  <2> QED
    BY <2>2, <2>3, <2>4
<1>4. CASE stackOf(r) \notin {"node", "python"}
  BY <1>1, <1>4 DEF detect
<1> QED
  BY <1>2, <1>3, <1>4

(* planRepo puts the commands of .agent.yml in its place. *)
LEMMA PlanIs ==
  ASSUME NEW r \in Repos, planRepo(r).error = "none"
  PROVE  \E stack, install, test, path, format :
           /\ Detected(r, Plan(stack, install, test, path, format))
           /\ planRepo(r).stack = stack
           /\ planRepo(r).install
                = IF r.config.install THEN <<Step(<<<<"config", "install">>>>)>> ELSE install
           /\ planRepo(r).test = IF r.config.test THEN "config" ELSE test
<1>1. detect(r).error = "none" /\ planRepo(r) = override(detect(r), r.config)
  <2>1. DetectionError("not valid YAML").error # "none"
    BY DEF DetectionError
  <2>2. ".agent.yml" \notin r.broken
    BY <2>1 DEF planRepo
  <2>3. detect(r).error = "none"
    BY <2>2 DEF planRepo
  <2> QED
    BY <2>2, <2>3 DEF planRepo
<1>2. Detected(r, detect(r))
  BY <1>1, DetectedPlan
<1>3. PICK stack, install, test, path, format : detect(r) = Plan(stack, install, test, path, format)
  BY <1>2 DEF Detected
<1>4. /\ planRepo(r).stack = stack
      /\ planRepo(r).install
           = IF r.config.install THEN <<Step(<<<<"config", "install">>>>)>> ELSE install
      /\ planRepo(r).test = IF r.config.test THEN "config" ELSE test
  BY <1>1, <1>3 DEF override, Plan
<1> QED
  BY <1>2, <1>3, <1>4

(* A plan with tests names pytest or unittest, a runner or a script, or a
   command of .agent.yml. *)
LEMMA PlanOfTests ==
  ASSUME NEW r \in Repos, planRepo(r).error = "none", planRepo(r).test # "none"
  PROVE  /\ planRepo(r).test \in {"pytest", "unittest", "exec", "script", "config"}
         /\ planRepo(r).test \in {"exec", "script"} => r.bin \in {"vitest", "jest", "node", "other"}
<1>0. r.bin \in {"none", "placeholder", "vitest", "jest", "node", "other"}
  BY ReposAssumption
<1>1. PICK stack, install, test, path, format :
        /\ Detected(r, Plan(stack, install, test, path, format))
        /\ planRepo(r).test = IF r.config.test THEN "config" ELSE test
  BY PlanIs
<1>2. /\ test \in {"pytest", "unittest", "none", "exec", "script"}
      /\ test \in {"exec", "script"} => r.bin \notin {"none", "placeholder"}
  BY <1>1 DEF Detected, Plan
<1> QED
  BY <1>0, <1>1, <1>2

-----------------------------------------------------------------------------
(* The output kept is typed, and its ends are kept. *)
BufferInv == BufferType /\ OutputKeepsEnds

(* Half of the limit is a number of items. *)
LEMMA HalfType == half \in Nat
  BY BufferAssumption DEF half

(* The first items of a sequence. *)
LEMMA PrefixItems ==
  ASSUME NEW S, NEW s \in Seq(S), NEW k \in 0 .. Len(s)
  PROVE  /\ SubSeq(s, 1, k) \in Seq(S)
         /\ Len(SubSeq(s, 1, k)) = k
         /\ \A n \in 1 .. k : SubSeq(s, 1, k)[n] = s[n]
  OBVIOUS

(* What is left of a sequence without its first items. *)
LEMMA SuffixItems ==
  ASSUME NEW S, NEW s \in Seq(S), NEW k \in 0 .. Len(s)
  PROVE  /\ SubSeq(s, k + 1, Len(s)) \in Seq(S)
         /\ Len(SubSeq(s, k + 1, Len(s))) = Len(s) - k
         /\ \A n \in 1 .. (Len(s) - k) : SubSeq(s, k + 1, Len(s))[n] = s[k + n]
  OBVIOUS

-----------------------------------------------------------------------------
(* The lengths h, t and d of head, tail and gap, for w items written and a half
   of m. *)
Lengths(m, h, t, d, w) ==
  /\ d = IF w <= 2 * m THEN 0 ELSE w - 2 * m
  /\ h + d + t = w
  /\ h = smaller(m, w)

(* Nothing is in the tail before the head is full, and the tail has its half. *)
LEMMA LengthsBound ==
  ASSUME NEW m \in Nat, NEW h \in Nat, NEW t \in Nat, NEW d \in Nat, NEW w \in Nat,
         Lengths(m, h, t, d, w)
  PROVE  /\ h <= m
         /\ h < m => h = w /\ t = 0
         /\ t <= m
  BY DEF Lengths, smaller

(* The lengths after that chunk. *)
LEMMA LengthsKept ==
  ASSUME NEW m \in Nat, NEW h \in Nat, NEW t \in Nat, NEW d \in Nat, NEW w \in Nat,
         NEW c \in Nat, NEW r \in 0 .. c, NEW e \in Nat,
         Lengths(m, h, t, d, w),
         r = smaller(m - h, c),
         e = IF t + c - r > m THEN t + c - r - m ELSE 0
  PROVE  Lengths(m, h + r, t + c - r - e, d + e, w + c)
  BY DEF Lengths, smaller

-----------------------------------------------------------------------------
(* A chunk goes to the head as far as there is room, and the tail keeps its last
   items. *)
LEMMA PushKeeps ==
  ASSUME BufferInv, NEW chunk \in Seq(Items), push(chunk)
  PROVE  BufferInv'
<1> DEFINE room   == smaller(half - Len(head), Len(chunk))
           rest   == SubSeq(chunk, room + 1, Len(chunk))
           more   == tail \o rest
           excess == IF Len(tail) + Len(rest) > half THEN Len(tail) + Len(rest) - half ELSE 0
<1> USE HalfType
<1>1. /\ head \in Seq(Items) /\ tail \in Seq(Items) /\ written \in Seq(Items)
      /\ dropped \in Nat
      /\ OutputKeepsEnds
  BY DEF BufferInv, BufferType
<1>2. /\ Len(head) \in Nat /\ Len(tail) \in Nat /\ Len(written) \in Nat /\ Len(chunk) \in Nat
  BY <1>1
<1>0. dropped \in Nat
  BY <1>1
<1> HIDE DEF room, rest, more, excess
<1>3. Lengths(half, Len(head), Len(tail), dropped, Len(written))
  BY <1>1 DEF OutputKeepsEnds, Lengths
<1>4. /\ Len(head) < half => Len(head) = Len(written) /\ Len(tail) = 0
      /\ room \in 0 .. Len(chunk)
      /\ Len(head) + room = smaller(half, Len(written) + Len(chunk))
      /\ Len(tail) > 0 => room = 0
  <2>1. room = smaller(half - Len(head), Len(chunk))
    BY DEF room
  <2>2. /\ Len(head) <= half
        /\ Len(head) < half => Len(head) = Len(written) /\ Len(tail) = 0
    BY <1>2, <1>3, <1>0, LengthsBound
  <2>3. room \in Nat
    BY <2>1, <2>2, <1>2 DEF smaller
  <2>4. /\ room \in 0 .. Len(chunk)
        /\ Len(head) + room = smaller(half, Len(written) + Len(chunk))
        /\ Len(tail) > 0 => room = 0
    <3>1. /\ Len(head) + dropped + Len(tail) = Len(written)
          /\ Len(head) = smaller(half, Len(written))
      BY <1>3 DEF Lengths
    <3>2. room \in 0 .. Len(chunk)
      BY <2>1, <2>2, <1>2 DEF smaller
    <3>3. Len(head) + room = smaller(half, Len(written) + Len(chunk))
      <4>1. CASE Len(head) < half
        BY <4>1, <2>1, <2>2, <1>2 DEF smaller
      <4>2. CASE Len(head) = half
        <5>1. room = 0
          BY <4>2, <2>1, <1>2 DEF smaller
        <5>2. half <= Len(written)
          BY <4>2, <3>1, <1>2 DEF smaller
        <5> QED
          BY <4>2, <5>1, <5>2, <1>2 DEF smaller
      <4> QED
        BY <4>1, <4>2, <2>2, <1>2
    <3>4. Len(tail) > 0 => room = 0
      BY <2>1, <2>2, <1>2 DEF smaller
    <3> QED
      BY <3>2, <3>3, <3>4
  <2> QED
    BY <2>2, <2>4
<1>5. /\ rest \in Seq(Items)
      /\ Len(rest) = Len(chunk) - room
      /\ \A n \in 1 .. (Len(chunk) - room) : rest[n] = chunk[room + n]
  BY <1>4, SuffixItems DEF rest
<1>6. /\ more \in Seq(Items)
      /\ Len(more) = Len(tail) + Len(rest)
      /\ \A n \in 1 .. Len(tail) : more[n] = tail[n]
      /\ \A n \in (Len(tail) + 1) .. (Len(tail) + Len(rest)) : more[n] = rest[n - Len(tail)]
  BY <1>1, <1>5, ConcatItems DEF more
<1>7. excess \in 0 .. Len(more)
  BY <1>2, <1>4, <1>5, <1>6 DEF excess
<1>8. /\ tail' \in Seq(Items)
      /\ Len(tail') = Len(more) - excess
      /\ \A n \in 1 .. (Len(more) - excess) : tail'[n] = more[excess + n]
  <2>1. tail' = SubSeq(more, excess + 1, Len(more))
    BY <1>6 DEF push, excess, more, rest, room
  <2> QED
    BY <2>1, <1>6, <1>7, SuffixItems
<1>9. /\ SubSeq(chunk, 1, room) \in Seq(Items)
      /\ Len(SubSeq(chunk, 1, room)) = room
      /\ \A n \in 1 .. room : SubSeq(chunk, 1, room)[n] = chunk[n]
  BY <1>4, PrefixItems
<1>10. /\ head' \in Seq(Items)
       /\ Len(head') = Len(head) + room
       /\ \A n \in 1 .. Len(head) : head'[n] = head[n]
       /\ \A n \in (Len(head) + 1) .. (Len(head) + room) : head'[n] = chunk[n - Len(head)]
  <2>1. head' = head \o SubSeq(chunk, 1, room)
    BY DEF push, room
  <2>2. /\ head' \in Seq(Items)
        /\ Len(head') = Len(head) + room
        /\ \A n \in 1 .. Len(head) : head'[n] = head[n]
        /\ \A n \in (Len(head) + 1) .. (Len(head) + room) :
              head'[n] = SubSeq(chunk, 1, room)[n - Len(head)]
    BY <2>1, <1>1, <1>9, ConcatItems
  <2>3. \A n \in (Len(head) + 1) .. (Len(head) + room) : n - Len(head) \in 1 .. room
    BY <1>2, <1>4
  <2> QED
    BY <2>2, <2>3, <1>9
<1>11. /\ written' \in Seq(Items)
       /\ Len(written') = Len(written) + Len(chunk)
       /\ \A n \in 1 .. Len(written) : written'[n] = written[n]
       /\ \A n \in (Len(written) + 1) .. (Len(written) + Len(chunk)) :
             written'[n] = chunk[n - Len(written)]
  <2>1. written' = written \o chunk
    BY DEF push
  <2> QED
    BY <2>1, <1>1, ConcatItems
<1>12. dropped' = dropped + excess
  BY DEF push, excess, rest, room
<1>13. BufferType'
  BY <1>1, <1>2, <1>6, <1>7, <1>8, <1>10, <1>11, <1>12 DEF BufferType
<1>14. /\ dropped' = IF Len(written') <= 2 * half THEN 0 ELSE Len(written') - 2 * half
       /\ Len(head') + dropped' + Len(tail') = Len(written')
       /\ Len(head') = smaller(half, Len(written'))
  <2>1. Len(more) = Len(tail) + Len(chunk) - room
    BY <1>2, <1>4, <1>5, <1>6
  <2>2. excess = IF Len(more) > half THEN Len(more) - half ELSE 0
    BY <1>6 DEF excess
  <2>3. excess \in Nat
    BY <1>6, <1>7
  <2>4. Lengths(half, Len(head) + room, Len(tail) + Len(chunk) - room - excess,
                dropped + excess, Len(written) + Len(chunk))
    <3>1. room = smaller(half - Len(head), Len(chunk))
      BY DEF room
    <3>2. excess = IF Len(tail) + Len(chunk) - room > half
                   THEN Len(tail) + Len(chunk) - room - half ELSE 0
      BY <2>1, <2>2, <1>2, <1>4
    <3> QED
      BY <3>1, <3>2, <2>3, <1>2, <1>3, <1>4, <1>0, LengthsKept
  <2>5. Lengths(half, Len(head'), Len(tail'), dropped', Len(written'))
    <3>1. Len(tail') = Len(tail) + Len(chunk) - room - excess
      BY <2>1, <2>3, <1>2, <1>4, <1>8
    <3> QED
      BY <3>1, <2>4, <1>10, <1>11, <1>12
  <2> QED
    BY <2>5 DEF Lengths
<1>15. \A n \in 1 .. Len(head') : head'[n] = written'[n]
  <2> SUFFICES ASSUME NEW n \in 1 .. Len(head')
               PROVE  head'[n] = written'[n]
    OBVIOUS
  <2>1. CASE n <= Len(head)
    <3>1. n \in 1 .. Len(head) /\ n \in 1 .. Len(written)
      BY <2>1, <1>1, <1>2, <1>3, <1>10 DEF Lengths, smaller
    <3> QED
      BY <3>1, <1>1, <1>10, <1>11 DEF OutputKeepsEnds
  <2>2. CASE n > Len(head)
    <3>1. room > 0 /\ n \in (Len(head) + 1) .. (Len(head) + room)
      BY <2>2, <1>2, <1>4, <1>10
    <3>2. Len(head) = Len(written)
      BY <3>1, <1>2, <1>3, <1>4 DEF Lengths, smaller
    <3>3. n \in (Len(written) + 1) .. (Len(written) + Len(chunk))
      BY <3>1, <3>2, <1>2, <1>4
    <3> QED
      BY <3>1, <3>2, <3>3, <1>10, <1>11
  <2> QED
    BY <2>1, <2>2, <1>2, <1>4, <1>10
<1>16. \A n \in 1 .. Len(tail') : tail'[n] = written'[Len(written') - Len(tail') + n]
  <2> SUFFICES ASSUME NEW n \in 1 .. Len(tail')
               PROVE  tail'[n] = written'[Len(written') - Len(tail') + n]
    OBVIOUS
  <2> DEFINE k == excess + n
  <2>1. tail'[n] = more[k] /\ k \in 1 .. Len(more)
    BY <1>2, <1>6, <1>7, <1>8
  <2>2. Len(written') - Len(tail') + n = Len(written) + Len(chunk) - Len(more) + k
    BY <1>2, <1>6, <1>7, <1>8, <1>11
  <2> HIDE DEF k
  <2>3. CASE k <= Len(tail)
    <3>0. /\ Len(more) = Len(tail) + Len(rest) /\ Len(rest) = Len(chunk) - room
          /\ Len(tail) \in Nat /\ room \in Nat /\ Len(chunk) \in Nat /\ k \in 1 .. Len(more)
          /\ Len(tail) > 0 => room = 0
      BY <2>1, <1>2, <1>4, <1>5, <1>6
    <3>1. Len(more) = Len(tail) + Len(chunk) /\ k \in 1 .. Len(tail)
      BY <3>0, <2>3
    <3>2. Len(written) - Len(tail) + k \in 1 .. Len(written)
      BY <3>1, <1>1, <1>2 DEF OutputKeepsEnds
    <3>3. more[k] = written[Len(written) - Len(tail) + k]
      BY <3>1, <1>1, <1>6 DEF OutputKeepsEnds
    <3>4. Len(written') - Len(tail') + n = Len(written) - Len(tail) + k
      BY <2>2, <3>1, <1>2
    <3> QED
      BY <2>1, <3>2, <3>3, <3>4, <1>11
  <2>4. CASE k > Len(tail)
    <3>0. /\ Len(more) = Len(tail) + Len(rest) /\ Len(rest) = Len(chunk) - room
          /\ Len(tail) \in Nat /\ room \in Nat /\ Len(chunk) \in Nat /\ k \in 1 .. Len(more)
      BY <2>1, <1>2, <1>4, <1>5, <1>6
    <3>1. k \in (Len(tail) + 1) .. (Len(tail) + Len(rest)) /\ k - Len(tail) \in 1 .. (Len(chunk) - room)
      BY <3>0, <2>4
    <3>2. more[k] = chunk[room + (k - Len(tail))]
      BY <3>1, <1>5, <1>6
    <3>3. Len(written') - Len(tail') + n = Len(written) + (room + (k - Len(tail)))
      <4>1. Len(more) = Len(tail) + Len(chunk) - room
        BY <1>2, <1>4, <1>5, <1>6
      <4> QED
        BY <4>1, <2>1, <2>2, <1>2, <1>4
    <3>4. Len(written') - Len(tail') + n \in (Len(written) + 1) .. (Len(written) + Len(chunk))
      BY <3>1, <3>3, <1>2, <1>4
    <3>5. written'[Len(written') - Len(tail') + n]
            = chunk[Len(written') - Len(tail') + n - Len(written)]
      BY <3>4, <1>11
    <3>6. Len(written') - Len(tail') + n - Len(written) = room + (k - Len(tail))
      BY <3>1, <3>3, <1>2, <1>4
    <3> QED
      BY <2>1, <3>2, <3>5, <3>6
  <2> QED
    BY <2>1, <2>3, <2>4, <1>2
<1> QED
  BY <1>13, <1>14, <1>15, <1>16 DEF BufferInv, OutputKeepsEnds

(* The ends are kept at all times, however the output was cut into chunks. *)
THEOREM Ends == BufferSpec => []OutputKeepsEnds
<1>1. BufferInit => BufferInv
  BY HalfType DEF BufferInit, BufferInv, BufferType, OutputKeepsEnds, smaller
<1>2. BufferInv /\ [BufferNext]_buffer => BufferInv'
  <2> SUFFICES ASSUME BufferInv, [BufferNext]_buffer
               PROVE  BufferInv'
    OBVIOUS
  <2>1. CASE BufferAnew
    BY <2>1, HalfType DEF BufferAnew, BufferInv, BufferType, OutputKeepsEnds, smaller
  <2>2. ASSUME NEW chunk \in Seq(Items), push(chunk)
        PROVE  BufferInv'
    BY <2>2, PushKeeps
  <2>3. CASE UNCHANGED buffer
    BY <2>3 DEF buffer, BufferInv, BufferType, OutputKeepsEnds
  <2> QED
    BY <2>1, <2>2, <2>3 DEF BufferNext
<1>3. BufferInv => OutputKeepsEnds
  BY DEF BufferInv
<1> QED
  BY <1>1, <1>2, <1>3, PTL DEF BufferSpec

-----------------------------------------------------------------------------
(* What the test command can have run: one suite, or two. *)
Suites == {<<t>> : t \in Truths} \cup (Truths \X Truths)

(* A suite is part of a total. *)
Within(t, all) ==
  /\ t \in Truths /\ t \in Counts /\ all \in Counts
  /\ t.passed <= all.passed /\ t.failed <= all.failed /\ t.skipped <= all.skipped
  /\ t.aside <= all.aside /\ t.unloaded <= all.unloaded

(* The total is what one suite did, and at least what each of two did. *)
LEMMA SuitesTotal ==
  ASSUME NEW suites \in Suites
  PROVE  /\ suites \in Seq(Truths) /\ Len(suites) \in 1 .. 2 /\ suites # <<>>
         /\ total(suites) \in Counts
         /\ \A n \in 1 .. Len(suites) : Within(suites[n], total(suites))
         /\ Last(suites) = suites[Len(suites)]
         /\ Len(suites) = 1 => suites[1] = total(suites)
<1>0. Truths \subseteq Counts
  BY TruthsAssumption DEF Counts
<1>1. ASSUME NEW t \in Truths, suites = <<t>>
      PROVE  /\ suites \in Seq(Truths) /\ Len(suites) = 1 /\ suites[1] = t
             /\ total(suites) = t /\ Within(t, t)
  <2>1. t \in Counts
    BY <1>0
  <2>2. total(suites) = t
    BY <1>1, <2>1, TotalOne
  <2>3. Within(t, t)
    BY <2>1 DEF Within, Counts
  <2> QED
    BY <1>1, <2>2, <2>3
<1>2. ASSUME NEW t \in Truths, NEW u \in Truths, suites = <<t, u>>
      PROVE  /\ suites \in Seq(Truths) /\ Len(suites) = 2 /\ suites[1] = t /\ suites[2] = u
             /\ total(suites) = plus(t, u)
             /\ Within(t, plus(t, u)) /\ Within(u, plus(t, u))
  <2>1. t \in Counts /\ u \in Counts
    BY <1>0
  <2>2. total(suites) = plus(t, u)
    BY <1>2, <2>1, TotalTwo
  <2> DEFINE p == plus(t, u)
  <2>3. /\ p \in Counts
        /\ p.passed = t.passed + u.passed /\ p.failed = t.failed + u.failed
        /\ p.skipped = t.skipped + u.skipped /\ p.aside = t.aside + u.aside
        /\ p.unloaded = t.unloaded + u.unloaded
    BY <2>1, PlusCounts
  <2> HIDE DEF p
  <2>4. Within(t, p) /\ Within(u, p)
    BY <2>1, <2>3 DEF Within, Counts
  <2> QED
    BY <1>2, <2>2, <2>4 DEF p
<1>3. CASE \E t \in Truths : suites = <<t>>
  <2> PICK t \in Truths : suites = <<t>>
    BY <1>3
  <2>1. /\ suites \in Seq(Truths) /\ Len(suites) = 1 /\ suites[1] = t
        /\ total(suites) = t /\ Within(t, t)
    BY <1>1
  <2> QED
    BY <2>1 DEF Last, Within
<1>4. CASE \E t \in Truths, u \in Truths : suites = <<t, u>>
  <2> PICK t \in Truths, u \in Truths : suites = <<t, u>>
    BY <1>4
  <2>1. /\ suites \in Seq(Truths) /\ Len(suites) = 2 /\ suites[1] = t /\ suites[2] = u
        /\ total(suites) = plus(t, u)
        /\ Within(t, plus(t, u)) /\ Within(u, plus(t, u))
    BY <1>2
  <2>2. \A n \in 1 .. 2 : Within(suites[n], total(suites))
    <3> SUFFICES ASSUME NEW n \in 1 .. 2 PROVE Within(suites[n], total(suites))
      OBVIOUS
    <3>1. n = 1 \/ n = 2
      OBVIOUS
    <3> QED
      BY <3>1, <2>1
  <2>3. total(suites) \in Counts
    BY <2>1 DEF Within
  <2> QED
    BY <2>1, <2>2, <2>3 DEF Last
<1> QED
  BY <1>3, <1>4 DEF Suites

-----------------------------------------------------------------------------
(* How far a summary in the output can be believed. *)
Misread(runner, t) == runner = "unittest" /\ t.failed = 0 /\ t.aside > 0

(* A summary is right about failures and counts, except where a runner does
   not tell. *)
LEMMA ReadBelieved ==
  ASSUME NEW runner \in Runners, runner # "other", NEW t \in Counts
  PROVE  LET s == readAs(runner, t)
         IN /\ s.source = "output"
            /\ s.failed = 0 => t.failed = 0 /\ (runner = "jest" \/ t.unloaded = 0)
            /\ t.failed = 0 /\ t.unloaded = 0 => s.failed = 0 \/ Misread(runner, t)
            /\ ~Misread(runner, t) =>
                 /\ s.passed = t.passed
                 /\ s.failed \in t.failed .. t.failed + t.unloaded
                 /\ s.failed < t.failed + t.unloaded =>
                      s.failed = t.failed /\ (t.failed > 0 \/ runner = "jest")
                 /\ s.skipped \in {t.skipped, t.skipped + t.aside}
<1> DEFINE s == readAs(runner, t)
<1>0. /\ t.passed \in Nat /\ t.failed \in Nat /\ t.skipped \in Nat /\ t.aside \in Nat
      /\ t.unloaded \in Nat
  BY DEF Counts
<1> SUFFICES /\ s.source = "output"
             /\ s.failed = 0 => t.failed = 0 /\ (runner = "jest" \/ t.unloaded = 0)
             /\ t.failed = 0 /\ t.unloaded = 0 => s.failed = 0 \/ Misread(runner, t)
             /\ ~Misread(runner, t) =>
                  /\ s.passed = t.passed
                  /\ s.failed \in t.failed .. t.failed + t.unloaded
                  /\ s.failed < t.failed + t.unloaded =>
                       s.failed = t.failed /\ (t.failed > 0 \/ runner = "jest")
                  /\ s.skipped \in {t.skipped, t.skipped + t.aside}
  OBVIOUS
<1>1. CASE runner = "pytest"
  <2>1. s = Summary(t.passed, t.failed + t.unloaded, t.skipped, "output")
    BY <1>1 DEF readAs, readPytest
  <2> HIDE DEF s
  <2> QED
    BY <1>0, <1>1, <2>1 DEF Summary, Misread
<1>2. CASE runner = "vitest"
  <2>1. s = Summary(t.passed, t.failed + (IF t.failed = 0 THEN t.unloaded ELSE 0),
                    t.skipped + t.aside, "output")
    BY <1>2 DEF readAs, readVitest
  <2> HIDE DEF s
  <2> QED
    BY <1>0, <1>2, <2>1 DEF Summary, Misread
<1>3. CASE runner = "jest"
  <2>1. s = Summary(t.passed, t.failed, t.skipped + t.aside, "output")
    BY <1>3 DEF readAs, readJest
  <2> HIDE DEF s
  <2> QED
    BY <1>0, <1>3, <2>1 DEF Summary, Misread
<1>4. CASE runner = "node"
  <2>1. s = Summary(t.passed, t.failed + t.unloaded, t.skipped + t.aside, "output")
    BY <1>4 DEF readAs, readNode
  <2> HIDE DEF s
  <2> QED
    BY <1>0, <1>4, <2>1 DEF Summary, Misread
<1>5. CASE runner = "unittest"
  <2> DEFINE failures == IF t.failed > 0 THEN t.failed ELSE t.aside
  <2>1. s = readUnittest(t)
    BY <1>5 DEF readAs
  <2>2. /\ s.failed = failures + t.unloaded
        /\ s.skipped = t.skipped
        /\ s.source = "output"
        /\ s.passed = (collected(t) + t.unloaded) - (failures + t.unloaded + t.skipped + t.aside)
    BY <2>1 DEF readUnittest, Summary
  <2>3. s.passed = t.passed + t.failed - failures
    BY <2>2, <1>0 DEF collected
  <2> HIDE DEF s
  <2> QED
    BY <1>0, <1>5, <2>2, <2>3 DEF Misread
<1> QED
  BY <1>1, <1>2, <1>3, <1>4, <1>5 DEF Runners

-----------------------------------------------------------------------------
(* A summary as it can be of suites that a runner ran and reported: nothing, what
   the report says, or what the runner printed of one suite. *)
Reads(s, runner, suites, file) ==
  \/ s = NoSummary
  \/ /\ file.shape = "whole"
     /\ ReadFrom(s, file.counts, "junit") \/ ReadFromJest(s, file.counts)
  \/ runner # "other" /\ \E n \in 1 .. Len(suites) : s = readAs(runner, suites[n])

(* How failures can stay hidden behind exit code 0. *)
Hides(s, runner, suites) ==
  LET all == total(suites)
  IN \/ s.source = "none"
     \/ Len(suites) > 1
     \/ s.source = "output" /\ all.failed = 0 /\ all.unloaded > 0

(* The summary has the suite's numbers. *)
Tells(s, runner, t) ==
  /\ s.passed = t.passed
  /\ s.failed \in t.failed .. t.failed + t.unloaded
  /\ s.failed < t.failed + t.unloaded =>
       \/ s.source = "output" /\ s.failed = t.failed /\ (t.failed > 0 \/ runner = "jest")
       \/ s.source = "jest-json" /\ s.failed >= MAX_FAILURES
  /\ s.skipped \in {t.skipped, t.skipped + t.aside}

(* It says of no test at all. *)
Nothing(s) == s.source = "none" \/ s.passed + s.failed + s.skipped = 0

(* A part of a total has no number above it. *)
LEMMA WithinFields ==
  ASSUME NEW t, NEW all, Within(t, all)
  PROVE  /\ t.passed \in 0 .. all.passed /\ t.failed \in 0 .. all.failed
         /\ t.skipped \in 0 .. all.skipped /\ t.aside \in 0 .. all.aside
         /\ t.unloaded \in 0 .. all.unloaded
<1>1. /\ t.passed \in Nat /\ t.failed \in Nat /\ t.skipped \in Nat /\ t.aside \in Nat
      /\ t.unloaded \in Nat
  BY DEF Within, Counts
<1>2. /\ all.passed \in Nat /\ all.failed \in Nat /\ all.skipped \in Nat /\ all.aside \in Nat
      /\ all.unloaded \in Nat
  BY DEF Within, Counts
<1> QED
  BY <1>1, <1>2 DEF Within

(* No tests and no failures means that every number is 0. *)
LEMMA NothingCollected ==
  ASSUME NEW t \in Counts, Green(t), collected(t) = 0
  PROVE  t.passed = 0 /\ t.failed = 0 /\ t.skipped = 0 /\ t.aside = 0 /\ t.unloaded = 0
<1> DEFINE p == t.passed
           f == t.failed
           s == t.skipped
           a == t.aside
           u == t.unloaded
<1>1. p \in Nat /\ f \in Nat /\ s \in Nat /\ a \in Nat /\ u \in Nat
  BY DEF Counts
<1>2. p + f + s + a = 0 /\ f + u = 0
  BY DEF Green, collected
<1> HIDE DEF p, f, s, a, u
<1>3. p = 0 /\ f = 0 /\ s = 0 /\ a = 0 /\ u = 0
  BY <1>1, <1>2
<1> QED
  BY <1>3 DEF p, f, s, a, u

(* What it says of them, whichever way it was read, unless the report is none
   of theirs. *)
LEMMA SummaryOfSuites ==
  ASSUME NEW runner \in Runners, NEW suites \in Suites, NEW file \in Files, NEW s,
         Reads(s, runner, suites, file),
         file.shape = "whole" => file.counts = Last(suites)
  PROVE  LET all == total(suites)
         IN /\ s.failed = 0 => Green(all) \/ Hides(s, runner, suites)
            /\ Green(all) => s.failed = 0 \/ Misread(runner, all)
            /\ Green(all) /\ collected(all) = 0 => Nothing(s)
            /\ s.source # "none" /\ Len(suites) = 1 => Tells(s, runner, all) \/ Misread(runner, all)
<1> DEFINE all == total(suites)
<1> SUFFICES /\ s.failed = 0 => Green(all) \/ Hides(s, runner, suites)
             /\ Green(all) => s.failed = 0 \/ Misread(runner, all)
             /\ Green(all) /\ collected(all) = 0 => Nothing(s)
             /\ s.source # "none" /\ Len(suites) = 1 => Tells(s, runner, all) \/ Misread(runner, all)
  OBVIOUS
<1>1. /\ Len(suites) \in 1 .. 2 /\ all \in Counts
      /\ \A n \in 1 .. Len(suites) : Within(suites[n], all)
      /\ Last(suites) = suites[Len(suites)]
      /\ Len(suites) = 1 => suites[1] = all
  BY SuitesTotal
<1> HIDE DEF all
<1>0. /\ all.passed \in Nat /\ all.failed \in Nat /\ all.skipped \in Nat /\ all.aside \in Nat
      /\ all.unloaded \in Nat
  BY <1>1 DEF Counts
<1>2. CASE s = NoSummary
  <2>1. s.failed = 0 /\ s.source = "none"
    BY <1>2 DEF NoSummary, Summary
  <2> QED
    BY <2>1 DEF Hides, Nothing
<1>3. CASE /\ file.shape = "whole"
           /\ ReadFrom(s, file.counts, "junit") \/ ReadFromJest(s, file.counts)
  <2> DEFINE t == file.counts
  <2>1. t = suites[Len(suites)] /\ Len(suites) \in 1 .. Len(suites)
    BY <1>1, <1>3
  <2>2. Within(t, all)
    BY <2>1, <1>1
  <2>a. t.failed \in Nat /\ t.unloaded \in Nat
    BY DEF Files, Counts
  <2>b. MAX_FAILURES \in Nat /\ MAX_FAILURES > 0
    BY MaxFailuresAssumption
  <2>3. /\ s.passed = t.passed /\ s.skipped = t.skipped + t.aside
        /\ s.failed \in t.failed .. t.failed + t.unloaded
        /\ s.failed < t.failed + t.unloaded => s.source = "jest-json" /\ s.failed >= MAX_FAILURES
    <3>1. CASE ReadFrom(s, file.counts, "junit")
      <4>1. /\ s.passed = t.passed /\ s.failed = t.failed + t.unloaded
            /\ s.skipped = t.skipped + t.aside
        BY <3>1 DEF ReadFrom, Summary
      <4> QED
        BY <4>1, <2>a
    <3>2. CASE ReadFromJest(s, file.counts)
      BY <3>2 DEF ReadFromJest
    <3> QED
      BY <1>3, <3>1, <3>2
  <2> HIDE DEF t
  <2>e. s.failed = 0 => t.failed = 0 /\ t.unloaded = 0
    BY <2>a, <2>b, <2>3
  <2>4. Len(suites) = 1 => t = all
    BY <2>1, <1>1
  <2>5. Len(suites) = 1 \/ Len(suites) > 1
    BY <1>1
  <2>6. s.failed = 0 => Green(all) \/ Hides(s, runner, suites)
    BY <2>e, <2>4, <2>5 DEF Green, Hides
  <2>0. /\ t.passed \in 0 .. all.passed /\ t.failed \in 0 .. all.failed
        /\ t.skipped \in 0 .. all.skipped /\ t.aside \in 0 .. all.aside
        /\ t.unloaded \in 0 .. all.unloaded
    BY <2>2, WithinFields
  <2>7. Green(all) => s.failed = 0 /\ (collected(all) = 0 => Nothing(s))
    <3>1. Green(all) => t.failed = 0 /\ t.unloaded = 0
      BY <2>0, <1>0 DEF Green
    <3>2. Green(all) /\ collected(all) = 0 => t.passed = 0 /\ t.skipped = 0 /\ t.aside = 0
      BY <2>0, <1>0 DEF collected
    <3>3. Green(all) => s.failed = 0
      BY <3>1, <2>3
    <3> QED
      BY <3>2, <3>3, <2>3 DEF Nothing
  <2>8. Len(suites) = 1 => Tells(s, runner, all)
    BY <2>3, <2>4, <1>0 DEF Tells
  <2> QED
    BY <2>6, <2>7, <2>8
<1>4. CASE runner # "other" /\ \E n \in 1 .. Len(suites) : s = readAs(runner, suites[n])
  <2> PICK n \in 1 .. Len(suites) : s = readAs(runner, suites[n])
    BY <1>4
  <2> DEFINE t == suites[n]
  <2>1. Within(t, all)
    BY <1>1
  <2> HIDE DEF t
  <2>2. t \in Counts
    BY <2>1 DEF Within
  <2>0. /\ t.passed \in 0 .. all.passed /\ t.failed \in 0 .. all.failed
        /\ t.skipped \in 0 .. all.skipped /\ t.aside \in 0 .. all.aside
        /\ t.unloaded \in 0 .. all.unloaded
    BY <2>1, WithinFields
  <2>3. /\ s.source = "output"
        /\ s.failed = 0 => t.failed = 0 /\ (runner = "jest" \/ t.unloaded = 0)
        /\ t.failed = 0 /\ t.unloaded = 0 => s.failed = 0 \/ Misread(runner, t)
        /\ ~Misread(runner, t) =>
             /\ s.passed = t.passed
             /\ s.failed \in t.failed .. t.failed + t.unloaded
             /\ s.failed < t.failed + t.unloaded =>
                  s.failed = t.failed /\ (t.failed > 0 \/ runner = "jest")
             /\ s.skipped \in {t.skipped, t.skipped + t.aside}
    <3>1. runner # "other" /\ s = readAs(runner, t)
      BY <1>4 DEF t
    <3> QED
      BY <2>2, <3>1, ReadBelieved
  <2>4. Len(suites) = 1 => t = all
    BY <1>1 DEF t
  <2>5. Len(suites) = 1 \/ Len(suites) > 1
    BY <1>1
  <2>6. s.failed = 0 => Green(all) \/ Hides(s, runner, suites)
    <3>1. Len(suites) = 1 /\ s.failed = 0 => all.failed = 0
      BY <2>3, <2>4
    <3>2. all.failed + all.unloaded = 0 <=> all.failed = 0 /\ all.unloaded = 0
      BY <1>0
    <3>3. all.unloaded = 0 \/ all.unloaded > 0
      BY <1>0
    <3> QED
      BY <2>3, <2>5, <3>1, <3>2, <3>3 DEF Green, Hides, all
  <2>7. Green(all) /\ s.failed # 0 => Misread(runner, all)
    <3>1. Green(all) => t.failed = 0 /\ t.unloaded = 0 /\ all.failed = 0
      BY <2>0, <1>0 DEF Green
    <3>2. t.aside > 0 => all.aside > 0
      BY <2>0, <1>0
    <3> QED
      BY <3>1, <3>2, <2>3 DEF Misread
  <2>8. Green(all) /\ collected(all) = 0 => Nothing(s)
    <3> SUFFICES ASSUME Green(all), collected(all) = 0 PROVE Nothing(s)
      OBVIOUS
    <3>0. /\ all.passed = 0 /\ all.failed = 0 /\ all.skipped = 0 /\ all.aside = 0
          /\ all.unloaded = 0
      BY <1>1, NothingCollected
    <3>1. t.passed = 0 /\ t.failed = 0 /\ t.skipped = 0 /\ t.aside = 0 /\ t.unloaded = 0
      <4>1. \A x : x \in 0 .. 0 => x = 0
        OBVIOUS
      <4>2. /\ t.passed \in 0 .. 0 /\ t.failed \in 0 .. 0 /\ t.skipped \in 0 .. 0
            /\ t.aside \in 0 .. 0 /\ t.unloaded \in 0 .. 0
        BY <2>0, <3>0, Zenon
      <4> QED
        BY <4>1, <4>2
    <3>2. ~Misread(runner, t)
      BY <3>1 DEF Misread
    <3>3. s.passed = 0 /\ s.failed = 0 /\ s.skipped = 0
      BY <2>3, <3>1, <3>2
    <3> QED
      BY <3>3 DEF Nothing
  <2>9. Len(suites) = 1 => Tells(s, runner, all) \/ Misread(runner, all)
    BY <2>3, <2>4 DEF Tells
  <2> QED
    BY <2>6, <2>7, <2>8, <2>9
<1> QED
  BY <1>2, <1>3, <1>4 DEF Reads

(* The exit code tells as much, if nothing hides it. *)
LEMMA ExitTells ==
  ASSUME NEW runner, NEW t \in Counts, NEW exit \in exitsOf(runner, t) \cup {0}
  PROVE  /\ Green(t) => exit = 0 \/ collected(t) = 0
         /\ exit \in {0, 1, 2, 5}
         /\ exit = 5 => Green(t) /\ collected(t) = 0
         /\ Green(t) => exit \in {0, 1, 5}
<1>0. collected(t) \in Nat
  BY DEF Counts, collected
<1>1. CASE Green(t) /\ collected(t) = 0
  BY <1>1 DEF exitsOf
<1>2. CASE Green(t) /\ collected(t) > 0
  BY <1>2 DEF exitsOf
<1>3. CASE ~Green(t)
  BY <1>3 DEF exitsOf
<1> QED
  BY <1>0, <1>1, <1>2, <1>3

-----------------------------------------------------------------------------
(* The commands of a plan, in their groups. *)
Groups ==
  {<<<<manager, "install">>>> : manager \in {"pnpm", "yarn", "bun", "npm"}}
  \cup {<<<<"venv", "create">>>>, <<<<"uv", "sync">>>>, <<<<"install", "project">>>>,
        <<<<"config", "install">>>>, <<<<"import", "pytest">>, <<"install", "pytest">>>>}
  \cup {<<<<"install", file>>, <<"retry", file>>>> : file \in ToSet(requirementFiles)}

(* The steps they make. *)
Steps == {Step(group) : group \in Groups}

(* The commands in them. *)
Commands == UNION {ToSet(group) : group \in Groups}

(* There are three files of requirements. *)
LEMMA FilesOfRequirements ==
  /\ Len(requirementFiles) = 3
  /\ ToSet(requirementFiles) = {"requirements.txt", "requirements-dev.txt", "requirements-test.txt"}
  /\ requirementFiles \in Seq(ToSet(requirementFiles))
<1>1. Len(requirementFiles) = 3
  BY DEF requirementFiles
<1>2. /\ requirementFiles[1] = "requirements.txt" /\ requirementFiles[2] = "requirements-dev.txt"
      /\ requirementFiles[3] = "requirements-test.txt"
  BY DEF requirementFiles
<1>3. DOMAIN requirementFiles = {1, 2, 3}
  <2>1. DOMAIN requirementFiles = 1 .. 3
    BY DEF requirementFiles
  <2>2. 1 .. 3 = {1, 2, 3}
    OBVIOUS
  <2> QED
    BY <2>1, <2>2
<1>4. ToSet(requirementFiles) = {"requirements.txt", "requirements-dev.txt", "requirements-test.txt"}
  BY <1>2, <1>3 DEF ToSet
<1>5. requirementFiles \in Seq(ToSet(requirementFiles))
  BY <1>4 DEF requirementFiles
<1> QED
  BY <1>1, <1>4, <1>5

(* The elements of a group, and which group a command is in. *)
LEMMA GroupElements ==
  /\ \A x : ToSet(<<x>>) = {x}
  /\ \A x, y : ToSet(<<x, y>>) = {x, y}
<1>1. ASSUME NEW x PROVE ToSet(<<x>>) = {x}
  <2>1. DOMAIN <<x>> = {1} /\ <<x>>[1] = x
    OBVIOUS
  <2> QED
    BY <2>1 DEF ToSet
<1>2. ASSUME NEW x, NEW y PROVE ToSet(<<x, y>>) = {x, y}
  <2>1. DOMAIN <<x, y>> = {1, 2} /\ <<x, y>>[1] = x /\ <<x, y>>[2] = y
    OBVIOUS
  <2> QED
    BY <2>1 DEF ToSet
<1> QED
  BY <1>1, <1>2

(* A group is known by these commands in it. *)
LEMMA GroupIs ==
  ASSUME NEW group \in Groups
  PROVE  /\ group \in Seq(Commands) /\ ToSet(group) \subseteq Commands
         /\ <<"venv", "create">> \in ToSet(group) => ToSet(group) = {<<"venv", "create">>}
         /\ <<"install", "project">> \in ToSet(group) => ToSet(group) = {<<"install", "project">>}
         /\ \A file \in ToSet(requirementFiles) :
              <<"install", file>> \in ToSet(group) =>
                ToSet(group) = {<<"install", file>>, <<"retry", file>>}
<1>0. ToSet(group) \subseteq Commands
  BY DEF Commands
<1> DEFINE Req == ToSet(requirementFiles)
<1>1. Req = {"requirements.txt", "requirements-dev.txt", "requirements-test.txt"}
  BY FilesOfRequirements
<1> DEFINE Claim ==
             /\ group \in Seq(Commands)
             /\ <<"venv", "create">> \in ToSet(group) => ToSet(group) = {<<"venv", "create">>}
             /\ <<"install", "project">> \in ToSet(group) => ToSet(group) = {<<"install", "project">>}
             /\ \A file \in Req :
                  <<"install", file>> \in ToSet(group) =>
                    ToSet(group) = {<<"install", file>>, <<"retry", file>>}
<1> HIDE DEF Req
<1>2. ASSUME NEW x, group = <<x>>,
             x \in {<<"venv", "create">>, <<"uv", "sync">>, <<"install", "project">>,
                    <<"config", "install">>}
                   \cup {<<manager, "install">> : manager \in {"pnpm", "yarn", "bun", "npm"}}
      PROVE  Claim
  <2>1. ToSet(group) = {x}
    BY <1>2, GroupElements
  <2>2. group \in Seq(Commands)
    BY <1>0, <1>2, <2>1
  <2> QED
    BY <1>1, <1>2, <2>1, <2>2
<1>3. ASSUME NEW file \in Req, group = <<<<"install", file>>, <<"retry", file>>>>
      PROVE  Claim
  <2>1. ToSet(group) = {<<"install", file>>, <<"retry", file>>}
    BY <1>3, GroupElements
  <2>2. group \in Seq(Commands)
    BY <1>0, <1>3, <2>1
  <2> QED
    BY <1>1, <2>1, <2>2
<1>4. ASSUME group = <<<<"import", "pytest">>, <<"install", "pytest">>>>
      PROVE  Claim
  <2>1. ToSet(group) = {<<"import", "pytest">>, <<"install", "pytest">>}
    BY <1>4, GroupElements
  <2>2. group \in Seq(Commands)
    BY <1>0, <1>4, <2>1
  <2> QED
    BY <1>1, <2>1, <2>2
<1>5. Claim
  <2>1. \/ \E x \in {<<"venv", "create">>, <<"uv", "sync">>, <<"install", "project">>,
                    <<"config", "install">>}
                   \cup {<<manager, "install">> : manager \in {"pnpm", "yarn", "bun", "npm"}} :
             group = <<x>>
        \/ group = <<<<"import", "pytest">>, <<"install", "pytest">>>>
        \/ \E file \in Req : group = <<<<"install", file>>, <<"retry", file>>>>
    BY DEF Groups, Req
  <2> HIDE DEF Claim
  <2> QED
    BY <2>1, <1>2, <1>3, <1>4
<1> QED
  BY <1>0, <1>5 DEF Req

(* Only requirements are tried again, one by one. *)
LEMMA RetriesOf ==
  ASSUME NEW c \in Commands, c[1] = "retry"
  PROVE  c[2] \in ToSet(requirementFiles) /\ c = <<"retry", c[2]>>
<1> PICK group \in Groups : c \in ToSet(group)
  BY DEF Commands
<1>1. \/ \E x, y : group = <<<<x, y>>>> /\ x # "retry"
      \/ group = <<<<"import", "pytest">>, <<"install", "pytest">>>>
      \/ \E file \in ToSet(requirementFiles) : group = <<<<"install", file>>, <<"retry", file>>>>
  BY DEF Groups
<1>2. ASSUME NEW x, NEW y, group = <<<<x, y>>>>, x # "retry" PROVE FALSE
  <2>1. c = <<x, y>>
    BY <1>2, GroupElements
  <2> QED
    BY <1>2, <2>1
<1>3. CASE group = <<<<"import", "pytest">>, <<"install", "pytest">>>>
  <2>1. c \in {<<"import", "pytest">>, <<"install", "pytest">>}
    BY <1>3, GroupElements
  <2> QED
    BY <2>1
<1>4. CASE \E file \in ToSet(requirementFiles) : group = <<<<"install", file>>, <<"retry", file>>>>
  <2> PICK file \in ToSet(requirementFiles) : group = <<<<"install", file>>, <<"retry", file>>>>
    BY <1>4
  <2>1. c \in {<<"install", file>>, <<"retry", file>>}
    BY GroupElements
  <2> QED
    BY <2>1
<1> QED
  BY <1>1, <1>2, <1>3, <1>4

-----------------------------------------------------------------------------
(* The step of requirementSteps. *)
RequirementStep(r) ==
  [p \in Seq(Steps) \X ToSet(requirementFiles) |->
     IF p[2] \in r.has THEN p[1] \o requirementsInstall(p[2]) ELSE p[1]]

(* What is installed of the requirements are steps that fall back. *)
LEMMA RequirementsAre ==
  ASSUME NEW r
  PROVE  requirementSteps(r) \in Seq(Steps)
<1> DEFINE L == ToSet(requirementFiles)
           next(steps, file) == IF file \in r.has THEN steps \o requirementsInstall(file) ELSE steps
           Iter(h) == h = [s \in SUBSET DOMAIN requirementFiles |->
                             IF s = {} THEN <<>>
                             ELSE next(h[s \ {Max(s)}], requirementFiles[Max(s)])]
<1>0. <<>> \in Seq(Steps)
  OBVIOUS
<1>1. /\ RequirementStep(r) \in [Seq(Steps) \X L -> Seq(Steps)]
      /\ \A x \in Seq(Steps), file \in L : RequirementStep(r)[<<x, file>>] = next(x, file)
  <2>1. ASSUME NEW x \in Seq(Steps), NEW file \in L PROVE next(x, file) \in Seq(Steps)
    <3>1. Step(<<<<"install", file>>, <<"retry", file>>>>) \in Steps
      BY DEF Steps, Groups
    <3>2. requirementsInstall(file) \in Seq(Steps)
      BY <3>1 DEF requirementsInstall
    <3> QED
      BY <3>2, ConcatItems
  <2> HIDE DEF L
  <2> QED
    BY <2>1 DEF RequirementStep, L
<1>2. requirementFiles \in Seq(L)
  BY FilesOfRequirements
<1> HIDE DEF L
<1>3. \E h : Iter(h)
  <2>1. PICK g : Folds(RequirementStep(r), Seq(Steps), L, <<>>, requirementFiles, g)
    BY <1>0, <1>1, <1>2, FoldExists
  <2> HIDE DEF next
  <2>2. Iter(g)
    BY <1>1, <2>1 DEF Folds
  <2> QED
    BY <2>2
<1> DEFINE fold == CHOOSE h : Iter(h)
<1>4. Iter(fold)
  BY <1>3
<1>5. requirementSteps(r) = fold[DOMAIN requirementFiles]
  BY DEF requirementSteps, FoldLeft, MapThenFoldSet
<1> HIDE DEF fold, next
<1>6. Follows(RequirementStep(r), Seq(Steps), L, <<>>, requirementFiles, fold)
  BY <1>1, <1>4 DEF Follows
<1>7. RunsTo(RequirementStep(r), Seq(Steps), <<>>, requirementFiles, fold[DOMAIN requirementFiles])
  BY <1>0, <1>1, <1>2, <1>6, FoldRuns
<1> QED
  BY <1>2, <1>5, <1>7, RunsType

(* The environment is made first, and pytest comes last if the code speaks of it. *)
LEMMA PythonInstall ==
  ASSUME NEW r
  PROVE  /\ pythonSteps(r) \in Seq(Steps)
         /\ Len(pythonSteps(r)) \in Nat \ {0}
         /\ pythonSteps(r)[1] = Step(<<<<"venv", "create">>>>)
         /\ usesPytest(r) => pythonSteps(r)[Len(pythonSteps(r))]
                               = Step(<<<<"import", "pytest">>, <<"install", "pytest">>>>)
<1> DEFINE venv == Step(<<<<"venv", "create">>>>)
           uv == Step(<<<<"uv", "sync">>>>)
           project == Step(<<<<"install", "project">>>>)
           pytest == Step(<<<<"import", "pytest">>, <<"install", "pytest">>>>)
           middle == IF "uv.lock" \in r.has THEN <<uv>> ELSE requirementSteps(r) \o projectSteps(r)
           last == IF usesPytest(r) THEN <<pytest>> ELSE <<>>
<1>1. venv \in Steps /\ uv \in Steps /\ project \in Steps /\ pytest \in Steps
  BY DEF Steps, Groups
<1>2. projectSteps(r) \in Seq(Steps)
  <2>1. <<project>> \in Seq(Steps) /\ <<>> \in Seq(Steps)
    BY <1>1
  <2>2. projectSteps(r) \in {<<>>, <<project>>}
    BY DEF projectSteps
  <2> QED
    BY <2>1, <2>2
<1>3. pythonSteps(r) = (<<venv>> \o middle) \o last
  BY DEF pythonSteps
<1> HIDE DEF venv, uv, project, pytest
<1>4. middle \in Seq(Steps)
  <2>1. requirementSteps(r) \o projectSteps(r) \in Seq(Steps)
    BY <1>2, RequirementsAre, ConcatItems
  <2>2. <<uv>> \in Seq(Steps)
    BY <1>1
  <2> QED
    BY <2>1, <2>2
<1> HIDE DEF middle
<1>5. <<venv>> \in Seq(Steps) /\ Len(<<venv>>) = 1 /\ <<venv>>[1] = venv
  BY <1>1
<1>6. last \in Seq(Steps) /\ (usesPytest(r) => Len(last) = 1 /\ last[1] = pytest)
  <2>1. /\ <<pytest>> \in Seq(Steps) /\ <<>> \in Seq(Steps) /\ Len(<<pytest>>) = 1
        /\ <<pytest>>[1] = pytest
    BY <1>1
  <2> QED
    BY <2>1
<1> HIDE DEF last
<1> DEFINE begin == <<venv>> \o middle
<1>7. /\ begin \in Seq(Steps) /\ Len(begin) = 1 + Len(middle) /\ begin[1] = venv
  BY <1>4, <1>5, ConcatItems
<1>8. Len(middle) \in Nat /\ Len(last) \in Nat
  BY <1>4, <1>6
<1> HIDE DEF begin
<1> DEFINE all == begin \o last
<1>9. /\ all \in Seq(Steps) /\ Len(all) = Len(begin) + Len(last)
      /\ \A n \in 1 .. Len(begin) : all[n] = begin[n]
      /\ \A n \in (Len(begin) + 1) .. (Len(begin) + Len(last)) : all[n] = last[n - Len(begin)]
  <2>1. begin \in Seq(Steps) /\ last \in Seq(Steps)
    BY <1>6, <1>7
  <2> QED
    BY <2>1, ConcatItems
<1> HIDE DEF all
<1>10. Len(all) \in Nat \ {0} /\ all[1] = venv
  BY <1>7, <1>8, <1>9
<1>11. usesPytest(r) => all[Len(all)] = pytest
  <2> SUFFICES ASSUME usesPytest(r) PROVE all[Len(all)] = pytest
    OBVIOUS
  <2>1. Len(all) = Len(begin) + 1 /\ Len(begin) \in Nat /\ Len(last) = 1
    <3>1. Len(last) = 1 /\ Len(all) = Len(begin) + Len(last)
      BY <1>6, <1>9
    <3>2. Len(begin) \in Nat
      BY <1>7
    <3> QED
      BY <3>1, <3>2
  <2>2. Len(all) \in (Len(begin) + 1) .. (Len(begin) + Len(last)) /\ Len(all) - Len(begin) = 1
    BY <2>1
  <2> QED
    BY <1>6, <1>9, <2>2
<1> QED
  BY <1>3, <1>9, <1>10, <1>11 DEF venv, pytest, all, begin

(* Node has one package manager to run. *)
LEMMA NodeInstall ==
  ASSUME NEW r
  PROVE  nodeInstall(r) \in Seq(Steps)
<1>1. nodePackageManager(r) \in {"pnpm", "yarn", "bun", "npm"}
  <2>1. CASE r.declared = "pnpm" \/ "pnpm-lock.yaml" \in r.has
    BY <2>1 DEF nodePackageManager
  <2>2. CASE ~(r.declared = "pnpm" \/ "pnpm-lock.yaml" \in r.has)
             /\ (r.declared = "yarn" \/ "yarn.lock" \in r.has)
    BY <2>2 DEF nodePackageManager
  <2>3. CASE ~(r.declared = "pnpm" \/ "pnpm-lock.yaml" \in r.has)
             /\ ~(r.declared = "yarn" \/ "yarn.lock" \in r.has)
    BY <2>3 DEF nodePackageManager
  <2> QED
    BY <2>1, <2>2, <2>3
<1>2. Step(<<<<nodePackageManager(r), "install">>>>) \in Steps
  BY <1>1 DEF Steps, Groups
<1> QED
  BY <1>2 DEF nodeInstall

(* Of any checkout with a plan. *)
LEMMA InstallIs ==
  ASSUME NEW r \in Repos, planRepo(r).error = "none"
  PROVE  /\ planRepo(r).install \in Seq(Steps)
         /\ planRepo(r).stack = "python" /\ ~r.config.install =>
              /\ planRepo(r).install = pythonSteps(r)
              /\ planRepo(r).test = "pytest" => usesPytest(r)
<1>1. PICK stack, install, test, path, format :
        /\ Detected(r, Plan(stack, install, test, path, format))
        /\ planRepo(r).stack = stack
        /\ planRepo(r).install = IF r.config.install THEN <<Step(<<<<"config", "install">>>>)>> ELSE install
        /\ planRepo(r).test = IF r.config.test THEN "config" ELSE test
  BY PlanIs
<1>2. \/ stack = "node" /\ install = nodeInstall(r)
      \/ /\ stack = "python" /\ install = pythonSteps(r)
         /\ (test = "pytest" /\ usesPytest(r)) \/ test = "unittest"
  BY <1>1 DEF Detected, Plan
<1>3. <<Step(<<<<"config", "install">>>>)>> \in Seq(Steps)
  <2>1. Step(<<<<"config", "install">>>>) \in Steps
    BY DEF Steps, Groups
  <2> QED
    BY <2>1
<1> QED
  BY <1>1, <1>2, <1>3, NodeInstall, PythonInstall

-----------------------------------------------------------------------------
(* What the shell has done so far. *)
ShellStates == [ok : BOOLEAN, ran : Seq(Commands)]

(* What was run stays, and a group that ends well has a command that did. *)
Serves(group, failing, s) ==
  \E c \in ToSet(group) : c \in ToSet(s.ran) /\ succeeds(c, failing)

(* The step of runGroup. *)
GroupStep(failing) ==
  [p \in ShellStates \X Commands |-> IF p[1].ok THEN p[1] ELSE runCommand(p[1], p[2], failing)]

(* The elements of a sequence with one more. *)
LEMMA AppendElements ==
  ASSUME NEW S, NEW s \in Seq(S), NEW x \in S
  PROVE  Append(s, x) \in Seq(S) /\ ToSet(Append(s, x)) = ToSet(s) \cup {x}
<1>1. Append(s, x) \in Seq(S) /\ Len(Append(s, x)) = Len(s) + 1 /\ Len(s) \in Nat
  OBVIOUS
<1>2. /\ \A n \in 1 .. Len(s) : Append(s, x)[n] = s[n]
      /\ Append(s, x)[Len(s) + 1] = x
  OBVIOUS
<1> DEFINE t == Append(s, x)
<1>3. DOMAIN t = 1 .. (Len(s) + 1) /\ DOMAIN s = 1 .. Len(s)
  BY <1>1
<1> HIDE DEF t
<1>4. \A y : y \in ToSet(t) <=> \E n \in 1 .. (Len(s) + 1) : t[n] = y
  BY <1>3 DEF ToSet
<1>5. \A y : y \in ToSet(s) <=> \E n \in 1 .. Len(s) : s[n] = y
  BY <1>3 DEF ToSet
<1>6. 1 .. (Len(s) + 1) = (1 .. Len(s)) \cup {Len(s) + 1}
  BY <1>1
<1>7. \A y : y \in ToSet(t) <=> y \in ToSet(s) \/ y = x
  BY <1>2, <1>4, <1>5, <1>6 DEF t
<1> QED
  BY <1>1, <1>7 DEF t

(* A command that is run is one of those that were run. *)
LEMMA RunCommandIs ==
  ASSUME NEW s \in ShellStates, NEW c \in Commands, NEW failing
  PROVE  /\ runCommand(s, c, failing) \in ShellStates
         /\ ToSet(runCommand(s, c, failing).ran) = ToSet(s.ran) \cup {c}
         /\ runCommand(s, c, failing).ok = succeeds(c, failing)
<1>1. s.ran \in Seq(Commands)
  BY DEF ShellStates
<1>2. Append(s.ran, c) \in Seq(Commands) /\ ToSet(Append(s.ran, c)) = ToSet(s.ran) \cup {c}
  BY <1>1, AppendElements
<1>3. succeeds(c, failing) \in BOOLEAN
  BY DEF succeeds
<1> QED
  BY <1>2, <1>3 DEF runCommand, ShellStates

(* A group keeps what was run, and ends well only if one of its commands
   does. *)
LEMMA GroupRuns ==
  ASSUME NEW s \in ShellStates, NEW group \in Seq(Commands), NEW failing
  PROVE  /\ runGroup(s, group, failing) \in ShellStates
         /\ ToSet(s.ran) \subseteq ToSet(runGroup(s, group, failing).ran)
         /\ runGroup(s, group, failing).ok => Serves(group, failing, runGroup(s, group, failing))
<1> DEFINE next(t, command) == IF t.ok THEN t ELSE runCommand(t, command, failing)
           base == [s EXCEPT !.ok = FALSE]
           Iter(h) == h = [u \in SUBSET DOMAIN group |->
                             IF u = {} THEN base ELSE next(h[u \ {Max(u)}], group[Max(u)])]
           step == GroupStep(failing)
<1>0. base \in ShellStates /\ base.ok = FALSE /\ base.ran = s.ran
  BY DEF ShellStates
<1> HIDE DEF base
<1>1. /\ step \in [ShellStates \X Commands -> ShellStates]
      /\ \A x \in ShellStates, c \in Commands : step[<<x, c>>] = next(x, c)
  BY RunCommandIs DEF GroupStep
<1> HIDE DEF step
<1>2. \E h : Iter(h)
  <2>1. PICK g : Folds(step, ShellStates, Commands, base, group, g)
    BY <1>0, <1>1, FoldExists
  <2> HIDE DEF next
  <2>2. Iter(g)
    BY <1>1, <2>1 DEF Folds
  <2> QED
    BY <2>2
<1> DEFINE fold == CHOOSE h : Iter(h)
<1>3. Iter(fold)
  BY <1>2
<1>4. runGroup(s, group, failing) = fold[DOMAIN group]
  BY DEF runGroup, FoldLeft, MapThenFoldSet, base
<1> HIDE DEF fold, next
<1>5. Follows(step, ShellStates, Commands, base, group, fold)
  BY <1>1, <1>3 DEF Follows
<1>6. RunsTo(step, ShellStates, base, group, fold[DOMAIN group])
  BY <1>0, <1>1, <1>5, FoldRuns
<1> DEFINE N == Len(group)
<1>7. PICK f \in [0 .. N -> ShellStates] :
        /\ f[0] = base /\ f[N] = runGroup(s, group, failing)
        /\ \A n \in 1 .. N : f[n] = step[<<f[n - 1], group[n]>>]
  BY <1>4, <1>6 DEF RunsTo
<1>8. N \in Nat /\ DOMAIN group = 1 .. N /\ \A n \in 1 .. N : group[n] \in Commands
  OBVIOUS
<1> HIDE DEF N
<1> DEFINE P(n) == /\ ToSet(s.ran) \subseteq ToSet(f[n].ran)
                   /\ f[n].ok => Serves(group, failing, f[n])
           T == {n \in 0 .. N : P(n)}
<1>9. 0 .. N \subseteq T
  <2>1. 0 \in T
    BY <1>0, <1>7, <1>8
  <2>2. ASSUME NEW n \in 1 .. N, n - 1 \in T PROVE n \in T
    <3>1. n \in 0 .. N /\ n - 1 \in 0 .. N
      BY <1>8
    <3>2. f[n - 1] \in ShellStates /\ group[n] \in Commands
      BY <3>1, <1>7, <1>8
    <3>3. f[n] = next(f[n - 1], group[n])
      BY <3>2, <1>1, <1>7
    <3>4. P(n - 1)
      BY <2>2
    <3>5. CASE f[n - 1].ok
      <4>1. f[n] = f[n - 1]
        BY <3>3, <3>5 DEF next
      <4> QED
        BY <4>1, <3>1, <3>4
    <3>6. CASE ~f[n - 1].ok
      <4>1. f[n] = runCommand(f[n - 1], group[n], failing)
        BY <3>3, <3>6 DEF next
      <4>2. /\ ToSet(f[n].ran) = ToSet(f[n - 1].ran) \cup {group[n]}
            /\ f[n].ok = succeeds(group[n], failing)
        <5> DEFINE r == runCommand(f[n - 1], group[n], failing)
        <5>1. ToSet(r.ran) = ToSet(f[n - 1].ran) \cup {group[n]}
          BY <3>2, RunCommandIs
        <5>2. r.ok = succeeds(group[n], failing)
          BY <3>2, RunCommandIs
        <5> HIDE DEF r
        <5>3. f[n] = r
          BY <4>1 DEF r
        <5> QED
          BY <5>1, <5>2, <5>3, Zenon
      <4>3. group[n] \in ToSet(group)
        BY <1>8, Zenon DEF ToSet
      <4>4. f[n].ok => Serves(group, failing, f[n])
        BY <4>2, <4>3 DEF Serves
      <4> QED
        BY <4>2, <4>4, <3>1, <3>4
    <3> QED
      BY <3>5, <3>6
  <2> HIDE DEF T
  <2> QED
    BY <2>1, <2>2, <1>8, Counting
<1>10. N \in T /\ f[N] \in ShellStates
  BY <1>7, <1>8, <1>9
<1> QED
  BY <1>7, <1>10

(* The step of shell. *)
ShellStep(failing) ==
  [p \in ShellStates \X Steps |-> runStep(p[1], p[2], failing)]

(* Steps that follow each other: an install ends well if every group did. *)
LEMMA ShellRuns ==
  ASSUME NEW steps \in Seq(Steps), NEW failing
  PROVE  LET s == shell(steps, failing)
         IN /\ s \in ShellStates
            /\ s.ok => \A n \in 1 .. Len(steps) : Serves(steps[n].group, failing, s)
<1> DEFINE next(s, step_) == runStep(s, step_, failing)
           base == [ok |-> TRUE, ran |-> <<>>]
           Iter(h) == h = [u \in SUBSET DOMAIN steps |->
                             IF u = {} THEN base ELSE next(h[u \ {Max(u)}], steps[Max(u)])]
           step == ShellStep(failing)
<1>0. base \in ShellStates
  BY DEF ShellStates
<1> HIDE DEF base
<1>a. ASSUME NEW x \in ShellStates, NEW c \in Steps
      PROVE  /\ c.group \in Groups /\ c.group \in Seq(Commands)
             /\ next(x, c) = IF x.ok THEN runGroup(x, c.group, failing) ELSE x
             /\ next(x, c) \in ShellStates
  <2>1. c.group \in Groups /\ c.after = "&&"
    BY DEF Steps, Step
  <2>2. c.group \in Seq(Commands)
    BY <2>1, GroupIs
  <2>3. next(x, c) = IF x.ok THEN runGroup(x, c.group, failing) ELSE x
    <3>1. x.ok \in BOOLEAN
      BY DEF ShellStates
    <3> QED
      BY <2>1, <3>1 DEF runStep
  <2>4. runGroup(x, c.group, failing) \in ShellStates
    BY <2>2, GroupRuns
  <2> HIDE DEF next
  <2> QED
    BY <2>1, <2>2, <2>3, <2>4
<1>1. /\ step \in [ShellStates \X Steps -> ShellStates]
      /\ \A x \in ShellStates, c \in Steps : step[<<x, c>>] = next(x, c)
  BY <1>a DEF ShellStep
<1> HIDE DEF step
<1>2. \E h : Iter(h)
  <2>1. PICK g : Folds(step, ShellStates, Steps, base, steps, g)
    BY <1>0, <1>1, FoldExists
  <2> HIDE DEF next
  <2>2. Iter(g)
    BY <1>1, <2>1 DEF Folds
  <2> QED
    BY <2>2
<1> DEFINE fold == CHOOSE h : Iter(h)
<1>3. Iter(fold)
  BY <1>2
<1>4. shell(steps, failing) = fold[DOMAIN steps]
  BY DEF shell, FoldLeft, MapThenFoldSet, base
<1> HIDE DEF fold, next
<1>5. Follows(step, ShellStates, Steps, base, steps, fold)
  BY <1>1, <1>3 DEF Follows
<1>6. RunsTo(step, ShellStates, base, steps, fold[DOMAIN steps])
  BY <1>0, <1>1, <1>5, FoldRuns
<1> DEFINE N == Len(steps)
<1>7. PICK f \in [0 .. N -> ShellStates] :
        /\ f[0] = base /\ f[N] = shell(steps, failing)
        /\ \A n \in 1 .. N : f[n] = step[<<f[n - 1], steps[n]>>]
  BY <1>4, <1>6 DEF RunsTo
<1>8. N \in Nat /\ DOMAIN steps = 1 .. N /\ \A n \in 1 .. N : steps[n] \in Steps
  OBVIOUS
<1> HIDE DEF N
<1> DEFINE P(n) == f[n].ok => \A m \in 1 .. n : Serves(steps[m].group, failing, f[n])
           T == {n \in 0 .. N : P(n)}
<1>9. 0 .. N \subseteq T
  <2>1. 0 \in T
    BY <1>8
  <2>2. ASSUME NEW n \in 1 .. N, n - 1 \in T PROVE n \in T
    <3>1. n \in 0 .. N /\ n - 1 \in 0 .. N
      BY <1>8
    <3>2. f[n - 1] \in ShellStates /\ steps[n] \in Steps
      BY <3>1, <1>7, <1>8
    <3>3. f[n] = next(f[n - 1], steps[n])
      BY <3>2, <1>1, <1>7
    <3>4. P(n - 1)
      BY <2>2
    <3>5. CASE ~f[n - 1].ok
      <4>1. f[n] = f[n - 1]
        BY <3>2, <3>3, <3>5, <1>a
      <4> QED
        BY <4>1, <3>1, <3>5
    <3>6. CASE f[n - 1].ok
      <4>1. f[n] = runGroup(f[n - 1], steps[n].group, failing) /\ steps[n].group \in Seq(Commands)
        BY <3>2, <3>3, <3>6, <1>a
      <4>2. /\ ToSet(f[n - 1].ran) \subseteq ToSet(f[n].ran)
            /\ f[n].ok => Serves(steps[n].group, failing, f[n])
        BY <4>1, <3>2, GroupRuns
      <4>3. ASSUME f[n].ok, NEW m \in 1 .. n PROVE Serves(steps[m].group, failing, f[n])
        <5>1. CASE m = n
          BY <5>1, <4>2, <4>3
        <5>2. CASE m # n
          <6>1. m \in 1 .. (n - 1)
            BY <5>2, <1>8
          <6>2. Serves(steps[m].group, failing, f[n - 1])
            BY <6>1, <3>4, <3>6
          <6> QED
            BY <6>2, <4>2 DEF Serves
        <5> QED
          BY <5>1, <5>2
      <4> QED
        BY <4>3, <3>1
    <3> QED
      BY <3>5, <3>6
  <2> HIDE DEF T
  <2> QED
    BY <2>1, <2>2, <1>8, Counting
<1>10. N \in T /\ f[N] \in ShellStates
  BY <1>7, <1>8, <1>9
<1> QED
  BY <1>7, <1>10 DEF N

-----------------------------------------------------------------------------
(* The stages of a job in the sandbox, and those with a plan to carry out. *)
Stages ==
  {"planning", "editing", "planned", "installing", "installed", "prepared", "testing", "over"}

UnderWay == {"planned", "installing", "installed", "prepared", "testing"}

(* The plan that is carried out is the checkout's, and has tests. *)
PlanInv ==
  /\ stage \in Stages /\ caller \in {"runtest", "agent"}
  /\ stage # "editing" => repo \in Repos
  /\ stage \notin {"planning", "editing"} => plan = planRepo(repo)
  /\ stage \in UnderWay => plan.error = "none" /\ plan.test # "none"

(* A command prints all it has to print before anyone looks at it. *)
PendingInv ==
  /\ pending \in Seq(Items)
  /\ stage \notin {"installing", "testing"} => pending = <<>>

(* Of the Python steps in the plan, each has a command that succeeded. *)
PythonInstalled ==
  plan.stack = "python" /\ ~repo.config.install =>
    /\ <<"venv", "create">> \in installed.done
    /\ <<"install", "project">> \in commandsOf(plan.install) =>
         <<"install", "project">> \in installed.done
    /\ plan.test = "pytest" =>
         {<<"import", "pytest">>, <<"install", "pytest">>} \cap installed.done # {}
    /\ \A file \in ToSet(requirementFiles) :
         <<"install", file>> \in commandsOf(plan.install) =>
           {<<"install", file>>, <<"retry", file>>} \cap installed.done # {}

(* While the install prints, its markers name what was left out; afterwards what
   was read of them is that, or was cut. *)
InstallInv ==
  /\ DOMAIN installed = {"ok", "done", "skipped", "told", "options", "cut"}
  /\ stage \in {"planning", "editing", "planned"} => ~installed.ok
  /\ stage = "installing" => skippedPackages(written \o pending) = installed.skipped
  /\ stage \notin {"planning", "editing", "planned", "installing"} /\ installed.ok =>
       /\ installed.told \subseteq installed.skipped
       /\ installed.cut \/ installed.told = installed.skipped
  /\ \A file \in installed.skipped \cup installed.options : <<"retry", file>> \in installed.done
  /\ installed.ok => PythonInstalled

(* Every step of the sandbox keeps the plan. *)
LEMMA PlanStep ==
  ASSUME PlanInv, [Next]_vars
  PROVE  PlanInv'
<1>1. CASE MakePlan
  <2>1. stage = "planning" /\ repo \in Repos /\ plan' = planRepo(repo)
        /\ UNCHANGED <<caller, repo>>
    BY <1>1 DEF MakePlan, PlanInv, Stages
  <2>2. CASE plan'.error # "none" \/ plan'.test = "none"
    <3>1. stage' = "over"
      BY <1>1, <2>2 DEF MakePlan
    <3> QED
      BY <2>1, <3>1 DEF PlanInv, Stages, UnderWay
  <2>3. CASE ~(plan'.error # "none" \/ plan'.test = "none")
    <3>1. stage' = "planned"
      BY <1>1, <2>3 DEF MakePlan
    <3> QED
      BY <2>1, <2>3, <3>1 DEF PlanInv, Stages, UnderWay
  <2> QED
    BY <2>2, <2>3
<1>2. CASE Prints
  BY <1>2 DEF Prints, PlanInv
<1>3. CASE Install
  BY <1>3 DEF Install, PlanInv, Stages, UnderWay
<1>4. CASE InstallEnds
  BY <1>4 DEF InstallEnds, PlanInv, Stages, UnderWay
<1>5. CASE Prepare
  BY <1>5 DEF Prepare, PlanInv, Stages, UnderWay
<1>6. CASE TestsExit
  BY <1>6 DEF TestsExit, PlanInv, Stages, UnderWay
<1>7. CASE TestsKilled
  BY <1>7 DEF TestsKilled, PlanInv, Stages, UnderWay
<1>8. CASE Judge
  BY <1>8 DEF Judge, PlanInv, Stages, UnderWay
<1>9. CASE Edit
  BY <1>9 DEF Edit, PlanInv
<1>10. CASE UNCHANGED vars
  BY <1>10 DEF vars, PlanInv
<1> QED
  BY <1>1, <1>2, <1>3, <1>4, <1>5, <1>6, <1>7, <1>8, <1>9, <1>10 DEF Next

-----------------------------------------------------------------------------
(* What a command prints is pushed as it comes, and nothing of it is lost on
   the way. *)
LEMMA PrintsInOrder ==
  ASSUME BufferInv, PendingInv, Prints
  PROVE  /\ \E chunk \in Seq(Items) : push(chunk)
         /\ pending' \in Seq(Items)
         /\ written' \o pending' = written \o pending
<1>0. pending \in Seq(Items) /\ written \in Seq(Items) /\ Len(pending) \in Nat
  BY DEF PendingInv, BufferInv, BufferType
<1>1. PICK n \in 1 .. smaller(2, Len(pending)) :
        /\ push(SubSeq(pending, 1, n))
        /\ pending' = SubSeq(pending, n + 1, Len(pending))
  BY DEF Prints
<1>2. n \in 0 .. Len(pending)
  BY <1>0 DEF smaller
<1>3. SubSeq(pending, 1, n) \in Seq(Items)
  BY <1>0, <1>2, PrefixItems
<1>4. pending' \in Seq(Items)
  BY <1>0, <1>1, <1>2, SuffixItems
<1>5. SubSeq(pending, 1, n) \o SubSeq(pending, n + 1, Len(pending)) = pending
  <2> DEFINE a == SubSeq(pending, 1, n)
             b == SubSeq(pending, n + 1, Len(pending))
  <2>1. a \in Seq(Items) /\ Len(a) = n /\ \A k \in 1 .. n : a[k] = pending[k]
    BY <1>0, <1>2, PrefixItems
  <2>2. /\ b \in Seq(Items) /\ Len(b) = Len(pending) - n
        /\ \A k \in 1 .. (Len(pending) - n) : b[k] = pending[n + k]
    BY <1>0, <1>2, SuffixItems
  <2> HIDE DEF a, b
  <2>3. /\ a \o b \in Seq(Items) /\ Len(a \o b) = Len(a) + Len(b)
        /\ \A k \in 1 .. Len(a) : (a \o b)[k] = a[k]
        /\ \A k \in (Len(a) + 1) .. (Len(a) + Len(b)) : (a \o b)[k] = b[k - Len(a)]
    BY <2>1, <2>2, ConcatItems
  <2> DEFINE c == a \o b
  <2>4. c \in Seq(Items) /\ Len(c) = Len(pending)
    BY <2>1, <2>2, <2>3, <1>0, <1>2
  <2>5. ASSUME NEW k \in 1 .. Len(pending) PROVE c[k] = pending[k]
    <3>1. CASE k <= n
      BY <3>1, <2>1, <2>3, <1>2
    <3>2. CASE k > n
      <4>1. k \in (n + 1) .. (n + (Len(pending) - n)) /\ k - n \in 1 .. (Len(pending) - n)
            /\ n + (k - n) = k
        BY <3>2, <1>0, <1>2
      <4> QED
        BY <4>1, <2>1, <2>2, <2>3
    <3>3. k \in Int /\ n \in Int
      BY <1>0, <1>2
    <3>4. k <= n \/ k > n
      BY <3>3
    <3> QED
      BY <3>1, <3>2, <3>4
  <2> HIDE DEF c
  <2> QED
    BY <2>4, <2>5, <1>0, SeqEqual DEF a, b, c
<1>6. written' = written \o SubSeq(pending, 1, n)
  BY <1>1 DEF push
<1>7. written' \o pending' = written \o pending
  <2> DEFINE a == SubSeq(pending, 1, n)
  <2>1. a \in Seq(Items) /\ a \o pending' = pending /\ written' = written \o a
    BY <1>1, <1>3, <1>5, <1>6
  <2> HIDE DEF a
  <2>2. (written \o a) \o pending' = written \o (a \o pending')
    <3>1. written \in Seq(Items) /\ a \in Seq(Items) /\ pending' \in Seq(Items)
      BY <1>0, <1>4, <2>1
    <3> QED
      BY <3>1, ConcatAssociative
  <2>3. written' \o pending' = (written \o a) \o pending'
    BY <2>1, Zenon
  <2>4. written \o (a \o pending') = written \o pending
    BY <2>1, Zenon
  <2> QED
    BY <2>2, <2>3, <2>4, Zenon
<1> QED
  BY <1>1, <1>3, <1>4, <1>7

(* A new buffer has kept the ends of nothing. *)
LEMMA AnewKeeps ==
  ASSUME BufferAnew
  PROVE  BufferInv' /\ written' = <<>>
  BY HalfType DEF BufferAnew, BufferInv, BufferType, OutputKeepsEnds, smaller

(* What the commands of a plan print. *)
LEMMA InstallPrints ==
  ASSUME NEW ran \in Seq(Commands), NEW failing
  PROVE  [n \in DOMAIN ran |-> printedBy(ran[n], failing)] \in Seq(Items)
<1>1. ASSUME NEW c \in Commands PROVE printedBy(c, failing) \in Items
  <2>1. CASE c[1] = "retry" /\ c \in failing
    <3>1. c[2] \in ToSet(requirementFiles)
      BY <2>1, RetriesOf
    <3>2. \E n \in DOMAIN requirementFiles : requirementFiles[n] = c[2]
      BY <3>1 DEF ToSet
    <3> QED
      BY <2>1, <3>2, ItemsAssumption DEF printedBy
  <2>2. CASE ~(c[1] = "retry" /\ c \in failing)
    BY <2>2, ItemsAssumption DEF printedBy
  <2> QED
    BY <2>1, <2>2
<1>2. DOMAIN ran = 1 .. Len(ran) /\ Len(ran) \in Nat /\ \A n \in 1 .. Len(ran) : ran[n] \in Commands
  OBVIOUS
<1> QED
  BY <1>1, <1>2

-----------------------------------------------------------------------------
(* A checkout with a plan of its own that has tests. *)
Ready == repo \in Repos /\ plan = planRepo(repo) /\ plan.error = "none" /\ plan.test # "none"

(* The runners of a plan are known ones, and unittest only runs where it was
   planned. *)
LEMMA RunnersAre ==
  ASSUME Ready
  PROVE  /\ runners \subseteq Runners
         /\ "unittest" \in runners => plan.test = "unittest"
<1>1. /\ plan.test \in {"pytest", "unittest", "exec", "script", "config"}
      /\ plan.test \in {"exec", "script"} => repo.bin \in {"vitest", "jest", "node", "other"}
  BY PlanOfTests DEF Ready
<1>2. CASE plan.test \in {"pytest", "unittest"}
  BY <1>2 DEF runners, Runners
<1>3. CASE plan.test = "config"
  BY <1>3 DEF runners, Runners
<1>4. CASE plan.test \in {"exec", "script"}
  BY <1>1, <1>4 DEF runners, Runners
<1> QED
  BY <1>1, <1>2, <1>3, <1>4

(* What tests print tells of one runner and of the suites that ran. *)
LEMMA TestsPrint ==
  ASSUME NEW runner \in Runners, NEW suites \in Suites
  PROVE  /\ printed(runner, suites) \in Telling(runner, ToSet(suites))
         /\ printed(runner, suites) \in Seq(Items)
<1>1. suites \in Seq(Truths)
  BY SuitesTotal
<1>2. ToSet(suites) \in SUBSET Truths /\ suites \in Seq(ToSet(suites))
  <2>1. DOMAIN suites = 1 .. Len(suites) /\ Len(suites) \in Nat /\ \A n \in 1 .. Len(suites) : suites[n] \in Truths
    BY <1>1
  <2> DEFINE U == ToSet(suites)
  <2>2. \A n \in 1 .. Len(suites) : suites[n] \in U
    BY <2>1 DEF ToSet
  <2>3. U \in SUBSET Truths
    BY <2>1 DEF ToSet
  <2> HIDE DEF U
  <2>4. suites \in Seq(U)
    BY <1>1, <2>1, <2>2
  <2> QED
    BY <2>3, <2>4 DEF U
<1>3. printed(runner, suites) \in Telling(runner, ToSet(suites))
  BY <1>2, PrintedTells
<1> QED
  BY <1>3 DEF Telling

(* What a test command can have run. *)
LEMMA SuitesOfExit ==
  ASSUME NEW suites \in {<<t>> : t \in Truths} \cup (IF anything THEN Truths \X Truths ELSE {})
  PROVE  suites \in Suites
  BY DEF Suites

(* A job under way has such a checkout. *)
LEMMA PlannedReady ==
  ASSUME PlanInv, stage \in UnderWay
  PROVE  Ready
  BY DEF PlanInv, UnderWay, Ready

(* Every step of the sandbox keeps the ends of the output, and what is yet to
   print is typed. *)
LEMMA BufferStep ==
  ASSUME BufferInv, PlanInv, PendingInv, [Next]_vars
  PROVE  BufferInv' /\ PendingInv'
<1>0. ASSUME UNCHANGED buffer PROVE BufferInv'
  BY <1>0 DEF buffer, BufferInv, BufferType, OutputKeepsEnds
<1>1. CASE MakePlan
  <2>1. UNCHANGED <<buffer, pending>> /\ stage = "planning"
    BY <1>1 DEF MakePlan
  <2> QED
    BY <2>1, <1>0 DEF PendingInv
<1>2. CASE Prints
  <2>1. /\ \E chunk \in Seq(Items) : push(chunk)
        /\ pending' \in Seq(Items)
    BY <1>2, PrintsInOrder
  <2>2. BufferInv'
    BY <2>1, PushKeeps
  <2>3. stage' = stage /\ pending # <<>>
    BY <1>2 DEF Prints
  <2> QED
    BY <2>1, <2>2, <2>3 DEF PendingInv
<1>3. CASE Install
  <2>1. Ready
    BY <1>3, PlannedReady DEF Install, UnderWay
  <2>2. PICK failing \in SUBSET commandsOf(plan.install) :
          LET s == shell(plan.install, failing)
          IN ExecStarts([n \in DOMAIN s.ran |-> printedBy(s.ran[n], failing)])
    BY <1>3 DEF Install
  <2> DEFINE s == shell(plan.install, failing)
  <2>3. plan.install \in Seq(Steps)
    BY <2>1, InstallIs DEF Ready
  <2>4. s.ran \in Seq(Commands)
    BY <2>3, ShellRuns DEF ShellStates
  <2>5. BufferAnew /\ pending' = [n \in DOMAIN s.ran |-> printedBy(s.ran[n], failing)]
    BY <2>2 DEF ExecStarts
  <2> HIDE DEF s
  <2>6. pending' \in Seq(Items)
    BY <2>4, <2>5, InstallPrints
  <2>7. stage' = "installing"
    BY <1>3 DEF Install
  <2> QED
    BY <2>5, <2>6, <2>7, AnewKeeps DEF PendingInv
<1>4. CASE InstallEnds
  <2>1. BufferAnew /\ pending = <<>> /\ pending' = pending
    BY <1>4 DEF InstallEnds
  <2> QED
    BY <2>1, AnewKeeps DEF PendingInv
<1>5. CASE Prepare
  <2>1. UNCHANGED <<buffer, pending>> /\ stage = "installed"
    BY <1>5 DEF Prepare
  <2> QED
    BY <2>1, <1>0 DEF PendingInv
<1>6. CASE TestsExit
  <2>1. Ready
    BY <1>6, PlannedReady DEF TestsExit, UnderWay
  <2>2. PICK runner \in runners,
             suites \in {<<t>> : t \in Truths} \cup (IF anything THEN Truths \X Truths ELSE {}) :
          ExecStarts(printed(runner, suites))
    BY <1>6 DEF TestsExit
  <2>3. runner \in Runners /\ suites \in Suites
    BY <2>1, RunnersAre, SuitesOfExit
  <2>4. BufferAnew /\ pending' = printed(runner, suites) /\ stage' = "testing"
    BY <1>6, <2>2 DEF ExecStarts, TestsExit
  <2>5. pending' \in Seq(Items)
    BY <2>3, <2>4, TestsPrint
  <2> QED
    BY <2>4, <2>5, AnewKeeps DEF PendingInv
<1>7. CASE TestsKilled
  <2>1. BufferAnew /\ pending' = <<Log>> /\ stage' = "testing"
    BY <1>7 DEF TestsKilled, ExecStarts
  <2>2. <<Log>> \in Seq(Items)
    BY ItemsAssumption
  <2> QED
    BY <2>1, <2>2, AnewKeeps DEF PendingInv
<1>8. CASE Judge
  <2>1. UNCHANGED <<buffer, pending>> /\ pending = <<>>
    BY <1>8 DEF Judge
  <2> QED
    BY <2>1, <1>0 DEF PendingInv
<1>9. CASE Edit
  <2>1. UNCHANGED <<buffer, pending, stage>>
    BY <1>9 DEF Edit
  <2> QED
    BY <2>1, <1>0 DEF PendingInv
<1>10. CASE UNCHANGED vars
  <2>1. UNCHANGED <<buffer, pending, stage>>
    BY <1>10 DEF vars
  <2> QED
    BY <2>1, <1>0 DEF PendingInv
<1> QED
  BY <1>1, <1>2, <1>3, <1>4, <1>5, <1>6, <1>7, <1>8, <1>9, <1>10 DEF Next

-----------------------------------------------------------------------------
(* An install that ends well has run what it had to. *)
LEMMA InstallDoes ==
  ASSUME Ready, NEW failing, NEW done,
         shell(plan.install, failing).ok,
         done = {c \in ToSet(shell(plan.install, failing).ran) : succeeds(c, failing)}
  PROVE  plan.stack = "python" /\ ~repo.config.install =>
           /\ <<"venv", "create">> \in done
           /\ <<"install", "project">> \in commandsOf(plan.install) =>
                <<"install", "project">> \in done
           /\ plan.test = "pytest" =>
                {<<"import", "pytest">>, <<"install", "pytest">>} \cap done # {}
           /\ \A file \in ToSet(requirementFiles) :
                <<"install", file>> \in commandsOf(plan.install) =>
                  {<<"install", file>>, <<"retry", file>>} \cap done # {}
<1> DEFINE s == shell(plan.install, failing)
           steps == plan.install
<1>1. /\ steps \in Seq(Steps)
      /\ plan.stack = "python" /\ ~repo.config.install =>
           /\ steps = pythonSteps(repo)
           /\ plan.test = "pytest" => usesPytest(repo)
  BY InstallIs DEF Ready
<1>2. \A n \in 1 .. Len(steps) : Serves(steps[n].group, failing, s)
  BY <1>1, ShellRuns
<1>3. DOMAIN steps = 1 .. Len(steps) /\ Len(steps) \in Nat /\ \A n \in 1 .. Len(steps) : steps[n] \in Steps
  BY <1>1
<1> HIDE DEF s, steps
<1>4. \A n \in 1 .. Len(steps) : ToSet(steps[n].group) \cap done # {}
  BY <1>2 DEF Serves, s
<1>5. ASSUME NEW c \in commandsOf(steps)
      PROVE  \E n \in 1 .. Len(steps) : c \in ToSet(steps[n].group) /\ steps[n].group \in Groups
  <2>1. PICK n \in 1 .. Len(steps) : c \in ToSet(steps[n].group)
    BY <1>3 DEF commandsOf
  <2>2. steps[n].group \in Groups
    <3>1. steps[n] \in Steps
      BY <1>3
    <3> QED
      BY <3>1 DEF Steps, Step
  <2> QED
    BY <2>1, <2>2
<1>6. <<"install", "project">> \in commandsOf(steps) => <<"install", "project">> \in done
  <2> SUFFICES ASSUME <<"install", "project">> \in commandsOf(steps)
               PROVE  <<"install", "project">> \in done
    OBVIOUS
  <2>1. PICK n \in 1 .. Len(steps) :
          <<"install", "project">> \in ToSet(steps[n].group) /\ steps[n].group \in Groups
    BY <1>5
  <2>2. ToSet(steps[n].group) = {<<"install", "project">>}
    BY <2>1, GroupIs
  <2> QED
    BY <2>2, <1>4
<1>7. ASSUME NEW file \in ToSet(requirementFiles), <<"install", file>> \in commandsOf(steps)
      PROVE  {<<"install", file>>, <<"retry", file>>} \cap done # {}
  <2>1. PICK n \in 1 .. Len(steps) :
          <<"install", file>> \in ToSet(steps[n].group) /\ steps[n].group \in Groups
    BY <1>5, <1>7
  <2>2. ToSet(steps[n].group) = {<<"install", file>>, <<"retry", file>>}
    BY <2>1, GroupIs
  <2> QED
    BY <2>2, <1>4
<1>8. ASSUME plan.stack = "python", ~repo.config.install
      PROVE  /\ <<"venv", "create">> \in done
             /\ plan.test = "pytest" =>
                  {<<"import", "pytest">>, <<"install", "pytest">>} \cap done # {}
  <2>1. steps = pythonSteps(repo) /\ (plan.test = "pytest" => usesPytest(repo))
    BY <1>1, <1>8 DEF steps
  <2>2. /\ Len(steps) \in Nat \ {0}
        /\ steps[1] = Step(<<<<"venv", "create">>>>)
        /\ usesPytest(repo) => steps[Len(steps)]
                                 = Step(<<<<"import", "pytest">>, <<"install", "pytest">>>>)
    BY <2>1, PythonInstall
  <2>3. 1 \in 1 .. Len(steps) /\ Len(steps) \in 1 .. Len(steps)
    BY <2>2
  <2>4. steps[1].group = <<<<"venv", "create">>>>
    BY <2>2 DEF Step
  <2>5. ToSet(steps[1].group) = {<<"venv", "create">>}
    BY <2>4, GroupElements
  <2>6. <<"venv", "create">> \in done
    BY <2>3, <2>5, <1>4
  <2>7. ASSUME usesPytest(repo)
        PROVE  {<<"import", "pytest">>, <<"install", "pytest">>} \cap done # {}
    <3>1. steps[Len(steps)].group = <<<<"import", "pytest">>, <<"install", "pytest">>>>
      BY <2>2, <2>7 DEF Step
    <3>2. ToSet(steps[Len(steps)].group) = {<<"import", "pytest">>, <<"install", "pytest">>}
      BY <3>1, GroupElements
    <3> QED
      BY <3>2, <2>3, <1>4
  <2> QED
    BY <2>1, <2>6, <2>7
<1> QED
  BY <1>6, <1>7, <1>8 DEF steps

(* What the markers name is what was left out. *)
LEMMA MarkersName ==
  ASSUME NEW ran \in Seq(Commands), NEW failing
  PROVE  skippedPackages([n \in DOMAIN ran |-> printedBy(ran[n], failing)])
           = filesOf({c \in ToSet(ran) \cap failing : c[1] = "retry"})
<1> DEFINE output == [n \in DOMAIN ran |-> printedBy(ran[n], failing)]
           retried == {c \in ToSet(ran) \cap failing : c[1] = "retry"}
<1>1. ASSUME NEW c
      PROVE  /\ c[1] = "retry" /\ c \in failing =>
                  printedBy(c, failing).kind = "skipped" /\ printedBy(c, failing).from = c[2]
             /\ printedBy(c, failing).kind = "skipped" => c[1] = "retry" /\ c \in failing
  BY DEF printedBy, Marker, Log, Item
<1>2. DOMAIN output = DOMAIN ran /\ \A n \in DOMAIN ran : output[n] = printedBy(ran[n], failing)
  OBVIOUS
<1> HIDE DEF output
<1>3. ASSUME NEW name \in skippedPackages(output)
      PROVE  name \in filesOf(retried)
  <2>1. PICK item \in ToSet(output) : item.kind = "skipped" /\ item.from = name
    BY DEF skippedPackages
  <2>2. PICK n \in DOMAIN output : output[n] = item
    BY <2>1 DEF ToSet
  <2>3. ran[n] \in ToSet(ran) /\ item = printedBy(ran[n], failing)
    BY <2>2, <1>2 DEF ToSet
  <2>4. ran[n] \in retried /\ ran[n][2] = name
    BY <2>1, <2>3, <1>1
  <2> QED
    BY <2>4 DEF filesOf
<1>4. ASSUME NEW name \in filesOf(retried)
      PROVE  name \in skippedPackages(output)
  <2>1. PICK c \in retried : name = c[2]
    BY DEF filesOf
  <2>2. PICK n \in DOMAIN ran : ran[n] = c
    BY <2>1 DEF ToSet
  <2>3. output[n] \in ToSet(output) /\ output[n] = printedBy(c, failing)
    BY <2>2, <1>2 DEF ToSet
  <2>4. output[n].kind = "skipped" /\ output[n].from = name
    BY <2>1, <2>3, <1>1
  <2> QED
    BY <2>3, <2>4 DEF skippedPackages
<1> QED
  BY <1>3, <1>4 DEF output

(* What is shown was written, and all of it if nothing was dropped. *)
LEMMA ShownIsWritten ==
  ASSUME BufferInv
  PROVE  /\ shown \in Seq(Items)
         /\ ToSet(shown) \subseteq ToSet(written)
         /\ dropped = 0 => shown = written
         /\ \A n \in 1 .. Len(shown) : \E m \in 1 .. Len(written) : shown[n] = written[m]
         /\ dropped \in Nat
<1>1. /\ head \in Seq(Items) /\ tail \in Seq(Items) /\ written \in Seq(Items) /\ dropped \in Nat
      /\ Len(head) + dropped + Len(tail) = Len(written)
      /\ \A n \in 1 .. Len(head) : head[n] = written[n]
      /\ \A n \in 1 .. Len(tail) : tail[n] = written[Len(written) - Len(tail) + n]
  BY DEF BufferInv, BufferType, OutputKeepsEnds
<1>2. /\ shown \in Seq(Items) /\ Len(shown) = Len(head) + Len(tail)
      /\ \A n \in 1 .. Len(head) : shown[n] = head[n]
      /\ \A n \in (Len(head) + 1) .. (Len(head) + Len(tail)) : shown[n] = tail[n - Len(head)]
  <2>1. head \in Seq(Items) /\ tail \in Seq(Items)
    BY <1>1
  <2> QED
    BY <2>1, ConcatItems DEF shown
<1> DEFINE h == Len(head)
           t == Len(tail)
           w == Len(written)
           d == dropped
<1>3. h \in Nat /\ t \in Nat /\ w \in Nat /\ d \in Nat
  BY <1>1
<1>4. h + d + t = w
  BY <1>1
<1>5. \A n \in 1 .. h : shown[n] = written[n] /\ n \in 1 .. w
  BY <1>1, <1>2, <1>3, <1>4
<1>6. ASSUME NEW n \in (h + 1) .. (h + t) PROVE shown[n] = written[d + n] /\ d + n \in 1 .. w
  <2>1. n - h \in 1 .. t /\ w - t + (n - h) = d + n /\ d + n \in 1 .. w
    BY <1>3, <1>4
  <2>2. shown[n] = tail[n - h]
    BY <1>2
  <2>3. tail[n - h] = written[w - t + (n - h)]
    BY <2>1, <1>1
  <2> QED
    BY <2>1, <2>2, <2>3
<1>7. Len(shown) = h + t
  BY <1>2
<1> HIDE DEF h, t, w, d
<1>8. ASSUME NEW n \in 1 .. Len(shown)
      PROVE  \E m \in 1 .. w : shown[n] = written[m]
  <2>1. n \in 1 .. h \/ n \in (h + 1) .. (h + t)
    BY <1>3, <1>7
  <2> QED
    BY <2>1, <1>5, <1>6
<1>9. ToSet(shown) \subseteq ToSet(written)
  <2>1. DOMAIN shown = 1 .. Len(shown) /\ DOMAIN written = 1 .. w
    BY <1>1, <1>2 DEF w
  <2> QED
    BY <2>1, <1>8 DEF ToSet
<1>10. ASSUME d = 0 PROVE shown = written
  <2>1. Len(shown) = w
    BY <1>3, <1>4, <1>7, <1>10
  <2>2. ASSUME NEW n \in 1 .. Len(shown) PROVE shown[n] = written[n]
    <3>1. n \in 1 .. h \/ (n \in (h + 1) .. (h + t) /\ d + n = n)
      BY <1>3, <1>7, <1>10
    <3> QED
      BY <3>1, <1>5, <1>6
  <2>3. shown \in Seq(Items) /\ written \in Seq(Items) /\ Len(shown) = Len(written)
    BY <2>1, <1>1, <1>2 DEF w
  <2> QED
    BY <2>2, <2>3, SeqEqual
<1> QED
  BY <1>1, <1>2, <1>8, <1>9, <1>10 DEF w, d

-----------------------------------------------------------------------------
(* Less output names no more packages. *)
LEMMA SkippedWithin ==
  ASSUME NEW s, NEW t, ToSet(s) \subseteq ToSet(t)
  PROVE  skippedPackages(s) \subseteq skippedPackages(t)
  BY DEF skippedPackages

(* Nothing printed adds nothing. *)
LEMMA ConcatEmptyItems ==
  ASSUME NEW s \in Seq(Items)
  PROVE  s \o <<>> = s /\ <<>> \o s = s
  BY ConcatEmptySeq

(* Every step of the sandbox keeps what is known of the install. *)
LEMMA InstallStep ==
  ASSUME BufferInv, PlanInv, PendingInv, InstallInv, [Next]_vars
  PROVE  InstallInv'
<1>0. stage \in Stages
  BY DEF PlanInv
<1>a. ASSUME UNCHANGED <<repo, plan, installed>>
      PROVE  (installed.ok => PythonInstalled)'
  BY <1>a DEF InstallInv, PythonInstalled
<1>1. CASE MakePlan
  <2>1. stage = "planning" /\ ~installed.ok /\ stage' \in {"over", "planned"} /\ installed' = installed
    BY <1>1 DEF MakePlan, InstallInv
  <2> QED
    BY <2>1 DEF InstallInv
<1>2. CASE Prints
  <2>1. UNCHANGED <<stage, repo, plan, installed>>
    BY <1>2 DEF Prints
  <2>2. written' \o pending' = written \o pending
    BY <1>2, PrintsInOrder
  <2>3. skippedPackages(written' \o pending') = skippedPackages(written \o pending)
    BY <2>2
  <2> QED
    BY <2>1, <2>3, <1>a DEF InstallInv, skippedPackages
<1>3. CASE Install
  <2>1. Ready
    BY <1>3, PlannedReady DEF Install, UnderWay
  <2>2. PICK failing \in SUBSET commandsOf(plan.install) :
          LET s == shell(plan.install, failing)
          IN /\ ExecStarts([n \in DOMAIN s.ran |-> printedBy(s.ran[n], failing)])
             /\ installed' = [NotInstalled EXCEPT
                  !.ok = s.ok,
                  !.done = {c \in ToSet(s.ran) : succeeds(c, failing)},
                  !.skipped = filesOf({c \in ToSet(s.ran) \cap failing : c[1] = "retry"}),
                  !.options = filesOf({c \in ToSet(s.ran) : passedOver(repo, c)})]
    BY <1>3 DEF Install
  <2> DEFINE s == shell(plan.install, failing)
             output == [n \in DOMAIN s.ran |-> printedBy(s.ran[n], failing)]
  <2>3. plan.install \in Seq(Steps)
    BY <2>1, InstallIs DEF Ready
  <2>4. s.ran \in Seq(Commands)
    BY <2>3, ShellRuns DEF ShellStates
  <2>a. DOMAIN installed' = {"ok", "done", "skipped", "told", "options", "cut"}
    BY <2>2 DEF NotInstalled
  <2>5. /\ installed'.ok = s.ok
        /\ installed'.done = {c \in ToSet(s.ran) : succeeds(c, failing)}
        /\ installed'.skipped = filesOf({c \in ToSet(s.ran) \cap failing : c[1] = "retry"})
        /\ installed'.options = filesOf({c \in ToSet(s.ran) : passedOver(repo, c)})
    BY <2>2 DEF NotInstalled
  <2>6. BufferAnew /\ pending' = output
    BY <2>2 DEF ExecStarts
  <2>7. UNCHANGED <<plan, repo>> /\ stage' = "installing"
    BY <1>3 DEF Install
  <2>8. (installed.ok => PythonInstalled)'
    <3> SUFFICES ASSUME installed'.ok PROVE PythonInstalled'
      OBVIOUS
    <3> DEFINE done == installed'.done
    <3>1. shell(plan.install, failing).ok
      BY <2>5
    <3>2. done = {c \in ToSet(shell(plan.install, failing).ran) : succeeds(c, failing)}
      BY <2>5
    <3> HIDE DEF s, output, done
    <3>3. plan.stack = "python" /\ ~repo.config.install =>
            /\ <<"venv", "create">> \in done
            /\ <<"install", "project">> \in commandsOf(plan.install) =>
                 <<"install", "project">> \in done
            /\ plan.test = "pytest" =>
                 {<<"import", "pytest">>, <<"install", "pytest">>} \cap done # {}
            /\ \A file \in ToSet(requirementFiles) :
                 <<"install", file>> \in commandsOf(plan.install) =>
                   {<<"install", file>>, <<"retry", file>>} \cap done # {}
      BY <2>1, <3>1, <3>2, InstallDoes
    <3> QED
      BY <3>3, <2>7 DEF PythonInstalled, done
  <2>9. skippedPackages(written' \o pending') = installed'.skipped
    <3>1. output \in Seq(Items)
      BY <2>4, InstallPrints
    <3>2. written' = <<>>
      BY <2>6 DEF BufferAnew
    <3>3. skippedPackages(output) = filesOf({c \in ToSet(s.ran) \cap failing : c[1] = "retry"})
      BY <2>4, MarkersName
    <3> HIDE DEF s, output
    <3>4. written' \o pending' = output
      BY <2>6, <3>1, <3>2, ConcatEmptyItems
    <3> QED
      BY <2>5, <3>3, <3>4 DEF s
  <2>10. ASSUME NEW file \in installed'.skipped \cup installed'.options
         PROVE  <<"retry", file>> \in installed'.done
    <3> HIDE DEF s, output
    <3>1. PICK c \in ToSet(s.ran) : c[1] = "retry" /\ c[2] = file
      BY <2>5, <2>10 DEF filesOf, passedOver
    <3>2. c \in Commands
      BY <2>4, <3>1 DEF ToSet
    <3>3. c = <<"retry", file>>
      BY <3>1, <3>2, RetriesOf
    <3> QED
      BY <2>5, <3>1, <3>3 DEF succeeds
  <2> QED
    BY <2>7, <2>8, <2>9, <2>10, <2>a DEF InstallInv, skippedPackages
<1>4. CASE InstallEnds
  <2>1. /\ stage = "installing" /\ pending = <<>> /\ UNCHANGED <<repo, plan>>
        /\ installed' = [installed EXCEPT !.told = skippedPackages(shown), !.cut = dropped > 0]
        /\ stage' \in {"over", "installed"}
    BY <1>4 DEF InstallEnds
  <2>2. skippedPackages(written) = installed.skipped
    <3>1. written \in Seq(Items)
      BY DEF BufferInv, BufferType
    <3>2. written \o pending = written
      BY <2>1, <3>1, ConcatEmptyItems
    <3> QED
      BY <2>1, <3>2 DEF InstallInv
  <2>3. /\ skippedPackages(shown) \subseteq installed.skipped
        /\ dropped > 0 \/ skippedPackages(shown) = installed.skipped
    <3>1. ToSet(shown) \subseteq ToSet(written) /\ (dropped = 0 => shown = written) /\ dropped \in Nat
      BY ShownIsWritten
    <3>2. skippedPackages(shown) \subseteq skippedPackages(written)
      BY <3>1, SkippedWithin
    <3>3. dropped = 0 \/ dropped > 0
      BY <3>1
    <3> QED
      BY <2>2, <3>1, <3>2, <3>3
  <2>4. /\ installed'.ok = installed.ok /\ installed'.done = installed.done
        /\ installed'.skipped = installed.skipped /\ installed'.options = installed.options
        /\ installed.ok => installed'.told = skippedPackages(shown) /\ installed'.cut = (dropped > 0)
    BY <2>1 DEF InstallInv
  <2>a. DOMAIN installed' = DOMAIN installed
    BY <2>1
  <2>5. (installed.ok => PythonInstalled)'
    BY <2>1, <2>4 DEF InstallInv, PythonInstalled
  <2> QED
    BY <2>1, <2>3, <2>4, <2>5, <2>a DEF InstallInv
<1>5. CASE Prepare
  <2>1. stage = "installed" /\ stage' = "prepared" /\ UNCHANGED <<installed, plan, repo>>
    BY <1>5 DEF Prepare
  <2> QED
    BY <2>1, <1>a DEF InstallInv
<1>6. CASE TestsExit
  <2>1. stage = "prepared" /\ stage' = "testing" /\ UNCHANGED <<installed, plan, repo>>
    BY <1>6 DEF TestsExit
  <2> QED
    BY <2>1, <1>a DEF InstallInv
<1>7. CASE TestsKilled
  <2>1. stage = "prepared" /\ stage' = "testing" /\ UNCHANGED <<installed, plan, repo>>
    BY <1>7 DEF TestsKilled
  <2> QED
    BY <2>1, <1>a DEF InstallInv
<1>8. CASE Judge
  <2>1. stage = "testing" /\ stage' = "over" /\ UNCHANGED <<installed, plan, repo>>
    BY <1>8 DEF Judge
  <2> QED
    BY <2>1, <1>a DEF InstallInv
<1>9. CASE Edit
  <2>1. stage = "editing" /\ UNCHANGED <<stage, installed>>
    BY <1>9 DEF Edit
  <2> QED
    BY <2>1 DEF InstallInv
<1>10. CASE UNCHANGED vars
  <2>1. UNCHANGED <<stage, installed, plan, repo, pending, written>>
    BY <1>10 DEF vars, buffer
  <2>2. (written \o pending)' = written \o pending
    BY <2>1
  <2> QED
    BY <2>1, <2>2, <1>a DEF InstallInv, skippedPackages
<1> QED
  BY <1>1, <1>2, <1>3, <1>4, <1>5, <1>6, <1>7, <1>8, <1>9, <1>10 DEF Next

-----------------------------------------------------------------------------
(* The verdict is drawn from what was read when the command had ended. *)
Judged ==
  LET timedOut == ended.how = "timed out"
  IN /\ tests = IF timedOut THEN NoSummary ELSE readReport(report, plan.reportFormat, shown)
     /\ verdict = verdictOf(ended.exit, timedOut, tests)

(* A runner ran the suites: it printed what it prints of them, ended as it does,
   and a report that is not of the last one is none that the job cleared away. *)
Ran(runner) ==
  /\ truth \in Suites
  /\ ended.exit \in exitsOf(runner, total(truth)) \cup {0}
  /\ written \o pending = printed(runner, truth)
  /\ report.shape = "whole" /\ report.counts # Last(truth) =>
       plan.testReport \notin REPORT_DIR \/ ~cleared

(* What is known of the test run, from the file that was cleared away to the
   verdict. *)
ReportInv ==
  /\ stage \notin {"testing", "over"} => ended = Running
  /\ stage = "prepared" =>
       report \in Files /\ (plan.testReport \in REPORT_DIR /\ cleared => report = Missing)
  /\ stage = "testing" => ended.how \in {"exited", "killed", "timed out"}
  /\ stage \in {"testing", "over"} /\ ended.how = "exited" =>
       Ready /\ report \in Files /\ \E runner \in runners : Ran(runner)
  /\ ended.how \in {"killed", "timed out"} => ended.exit # 0
  /\ stage = "over" =>
       IF ended.how = "running" THEN verdict \in {"error", "unknown"}
       ELSE Judged /\ ended.how \in {"exited", "killed", "timed out"}

(* Reports that are there before the run are well formed. *)
LEMMA EarlierFiles ==
  /\ earlierReports \subseteq Files
  /\ Missing \in Files
<1>1. Missing \in Files
  BY DEF Missing, Files, Zero, Counts
<1>2. \A t \in Truths : [shape |-> "whole", counts |-> t, nested |-> FALSE, early |-> 0] \in Files
  BY TruthsAssumption DEF Files, Counts
<1> QED
  BY <1>1, <1>2 DEF earlierReports

(* Afterwards there is the one from before or one of the last suite. *)
LEMMA WrittenReports ==
  ASSUME NEW runner, NEW suites \in Suites, report \in Files,
         NEW after \in reportsWritten(runner, suites)
  PROVE  /\ after \in Files
         /\ after = report \/ (after.shape = "whole" /\ after.counts = Last(suites))
<1> DEFINE t == Last(suites)
           file(n) == [shape |-> "whole", counts |-> t, nested |-> runner = "node", early |-> n]
           loads == IF runner = "jest" THEN 0 .. t.unloaded ELSE {0}
           whole == {file(n) : n \in loads}
<1>1. t \in Counts
  <2>1. /\ Len(suites) \in 1 .. Len(suites) /\ Last(suites) = suites[Len(suites)]
        /\ \A n \in 1 .. Len(suites) : Within(suites[n], total(suites))
    BY SuitesTotal
  <2> QED
    BY <2>1 DEF Within
<1>2. ASSUME NEW n \in loads
      PROVE  file(n) \in Files /\ file(n).shape = "whole" /\ file(n).counts = t
  <2>1. t.unloaded \in Nat
    BY <1>1 DEF Counts
  <2> HIDE DEF t
  <2>2. n \in Nat /\ n <= t.unloaded
    BY <2>1
  <2> QED
    BY <1>1, <2>2 DEF Files
<1>3. \A w \in whole : w \in Files /\ w.shape = "whole" /\ w.counts = t
  <2> HIDE DEF file, loads, t
  <2> QED
    BY <1>2
<1>4. reportsWritten(runner, suites) =
        CASE plan.testReport = "none" -> {report}
          [] plan.testReport # "none" /\ (plan.test = "config" \/ collected(total(suites)) = 0) ->
               {report} \cup whole
          [] OTHER -> whole
  BY DEF reportsWritten
<1> HIDE DEF whole
<1>5. after = report \/ after \in whole
  <2>1. CASE plan.testReport = "none"
    BY <1>4, <2>1
  <2>2. CASE plan.testReport # "none" /\ (plan.test = "config" \/ collected(total(suites)) = 0)
    BY <1>4, <2>2
  <2>3. CASE plan.testReport # "none" /\ ~(plan.test = "config" \/ collected(total(suites)) = 0)
    BY <1>4, <2>3
  <2> QED
    BY <2>1, <2>2, <2>3
<1> QED
  BY <1>3, <1>5

(* A command that was stopped has not ended well. *)
LEMMA StopCodes == \A code : code \in {137, 124} => code # 0
  OBVIOUS

(* Every step of the sandbox keeps what is known of the test run. *)
LEMMA ReportStep ==
  ASSUME BufferInv, PlanInv, PendingInv, ReportInv, [Next]_vars
  PROVE  ReportInv'
<1>0. stage \in Stages
  BY DEF PlanInv
<1>a. Running.how = "running"
  BY DEF Running
<1>1. CASE MakePlan
  <2>1. /\ stage = "planning" /\ ended' = ended
        /\ \/ stage' = "over" /\ verdict' \in {"error", "unknown"}
           \/ stage' = "planned"
    BY <1>1 DEF MakePlan
  <2>2. ended = Running
    BY <2>1 DEF ReportInv
  <2> QED
    BY <1>a, <2>1, <2>2 DEF ReportInv
<1>2. CASE Prints
  <2>1. /\ UNCHANGED <<stage, caller, repo, plan, truth, ended, cleared, report, tests, verdict>>
        /\ pending # <<>>
    BY <1>2 DEF Prints
  <2>2. stage \in {"installing", "testing"}
    BY <2>1 DEF PendingInv
  <2>3. written' \o pending' = written \o pending
    BY <1>2, PrintsInOrder
  <2>4. runners' = runners /\ Ready' = Ready
    BY <2>1 DEF runners, Ready
  <2>5. \A runner : Ran(runner)' <=> Ran(runner)
    BY <2>1, <2>3 DEF Ran
  <2> QED
    BY <2>1, <2>2, <2>4, <2>5 DEF ReportInv
<1>3. CASE Install
  <2>1. stage = "planned" /\ stage' = "installing" /\ ended' = ended
    BY <1>3 DEF Install
  <2>2. ended = Running
    BY <2>1 DEF ReportInv
  <2> QED
    BY <1>a, <2>1, <2>2 DEF ReportInv
<1>4. CASE InstallEnds
  <2>1. /\ stage = "installing" /\ ended' = ended
        /\ \/ stage' = "over" /\ verdict' = "error"
           \/ stage' = "installed"
    BY <1>4 DEF InstallEnds
  <2>2. ended = Running
    BY <2>1 DEF ReportInv
  <2> QED
    BY <1>a, <2>1, <2>2 DEF ReportInv
<1>5. CASE Prepare
  <2>1. /\ stage = "installed" /\ stage' = "prepared" /\ UNCHANGED <<ended, plan>>
        /\ \E before \in earlierReports :
             report' = IF cleared' THEN prepared(before) ELSE before
    BY <1>5 DEF Prepare
  <2>2. ended = Running
    BY <2>1 DEF ReportInv
  <2>3. report' \in Files /\ (plan.testReport \in REPORT_DIR /\ cleared' => report' = Missing)
    BY <2>1, EarlierFiles DEF prepared
  <2> QED
    BY <1>a, <2>1, <2>2, <2>3 DEF ReportInv
<1>6. CASE TestsExit
  <2>1. stage = "prepared" /\ stage' = "testing" /\ UNCHANGED <<caller, repo, plan, cleared>>
    BY <1>6 DEF TestsExit
  <2>2. Ready
    BY <2>1, PlannedReady DEF UnderWay
  <2>3. PICK runner \in runners,
             suites \in {<<t>> : t \in Truths} \cup (IF anything THEN Truths \X Truths ELSE {}) :
          /\ truth' = suites
          /\ \E exit \in exitsOf(runner, total(suites)) \cup (IF anything THEN {0} ELSE {}) :
               ended' = [how |-> "exited", exit |-> exit]
          /\ report' \in reportsWritten(runner, suites)
          /\ ExecStarts(printed(runner, suites))
    BY <1>6 DEF TestsExit
  <2>4. runner \in Runners /\ suites \in Suites
    BY <2>2, RunnersAre, SuitesOfExit
  <2>5. report \in Files /\ (plan.testReport \in REPORT_DIR /\ cleared => report = Missing)
    BY <2>1 DEF ReportInv
  <2>6. /\ report' \in Files
        /\ report' = report \/ (report'.shape = "whole" /\ report'.counts = Last(suites))
    BY <2>3, <2>4, <2>5, WrittenReports
  <2>7. ended'.how = "exited" /\ ended'.exit \in exitsOf(runner, total(suites)) \cup {0}
    BY <2>3
  <2>8. written' \o pending' = printed(runner, suites)
    <3>1. written' = <<>> /\ pending' = printed(runner, suites)
      BY <2>3 DEF ExecStarts, BufferAnew
    <3>2. printed(runner, suites) \in Seq(Items)
      BY <2>4, TestsPrint
    <3> QED
      BY <3>1, <3>2, ConcatEmptyItems
  <2>9. report'.shape = "whole" /\ report'.counts # Last(suites) =>
          plan.testReport \notin REPORT_DIR \/ ~cleared
    BY <2>5, <2>6 DEF Missing
  <2>10. Ran(runner)'
    BY <2>1, <2>3, <2>4, <2>7, <2>8, <2>9 DEF Ran
  <2>11. runners' = runners /\ Ready'
    BY <2>1, <2>2 DEF runners, Ready
  <2> QED
    BY <2>1, <2>6, <2>7, <2>10, <2>11 DEF ReportInv
<1>7. CASE TestsKilled
  <2>1. stage' = "testing"
    BY <1>7 DEF TestsKilled
  <2>2. ended'.how \in {"killed", "timed out"} /\ ended'.exit # 0
    <3>1. PICK how \in {"killed", "timed out"} :
            ended' = [how |-> how, exit |-> IF how = "killed" THEN 137 ELSE 124]
      BY <1>7 DEF TestsKilled
    <3>2. ended'.how = how
      BY <3>1
    <3>3. ended'.exit = 137 \/ ended'.exit = 124
      BY <3>1
    <3>4. ended'.exit # 0
      BY <3>3, StopCodes
    <3> QED
      BY <3>2, <3>4
  <2> QED
    BY <2>1, <2>2 DEF ReportInv
<1>8. CASE Judge
  <2>1. /\ stage = "testing" /\ stage' = "over"
        /\ UNCHANGED <<buffer, caller, repo, plan, pending, truth, ended, cleared, report>>
    BY <1>8 DEF Judge
  <2>2. UNCHANGED <<shown, written>>
    BY <2>1 DEF buffer, shown
  <2>3. Judged'
    BY <1>8, <2>1, <2>2 DEF Judge, Judged, verdictOf
  <2>4. runners' = runners /\ Ready' = Ready /\ \A runner : Ran(runner)' <=> Ran(runner)
    BY <2>1, <2>2 DEF runners, Ready, Ran
  <2>5. ended.how \in {"exited", "killed", "timed out"}
    BY <2>1 DEF ReportInv
  <2> QED
    BY <2>1, <2>3, <2>4, <2>5 DEF ReportInv
<1>9. CASE Edit
  <2>1. stage = "editing" /\ UNCHANGED <<stage, ended>>
    BY <1>9 DEF Edit
  <2> QED
    BY <2>1 DEF ReportInv
<1>10. CASE UNCHANGED vars
  <2>1. UNCHANGED <<stage, caller, repo, plan, pending, truth, ended, cleared, report, tests,
                    verdict, shown, written>>
    BY <1>10 DEF vars, buffer, shown
  <2>2. runners' = runners /\ Ready' = Ready /\ \A runner : Ran(runner)' <=> Ran(runner)
    BY <2>1 DEF runners, Ready, Ran
  <2>3. Judged' <=> Judged
    BY <2>1 DEF Judged, verdictOf
  <2> QED
    BY <2>1, <2>2, <2>3 DEF ReportInv
<1> QED
  BY <1>1, <1>2, <1>3, <1>4, <1>5, <1>6, <1>7, <1>8, <1>9, <1>10 DEF Next

-----------------------------------------------------------------------------
(* The inductive invariant of the sandbox. *)
SandboxInv == BufferInv /\ PlanInv /\ PendingInv /\ InstallInv /\ ReportInv

(* What is kept of telling output is telling. *)
LEMMA ShownTells ==
  ASSUME BufferInv, NEW runner, NEW U, written \in Telling(runner, U)
  PROVE  shown \in Telling(runner, U)
<1>1. /\ shown \in Seq(Items)
      /\ \A n \in 1 .. Len(shown) : \E m \in 1 .. Len(written) : shown[n] = written[m]
  BY ShownIsWritten
<1>2. \A m \in 1 .. Len(written) : Fits(written[m], runner, U)
  BY DEF Telling
<1>3. \A n \in 1 .. Len(shown) : Fits(shown[n], runner, U)
  BY <1>1, <1>2
<1> QED
  BY <1>1, <1>3 DEF Telling

(* What the verdicts have in common. *)
LEMMA VerdictIs ==
  ASSUME caller \in {"runtest", "agent"}, NEW exit, NEW s
  PROVE  /\ verdictOf(exit, TRUE, s) \in {"error", "failed"}
         /\ verdictOf(exit, FALSE, s) = "passed" => testsPass(exit, s)
         /\ verdictOf(exit, FALSE, s) = "failed" => ~testsPass(exit, s) /\ ~noTestsCollected(exit, s)
         /\ noTestsCollected(exit, s) => verdictOf(exit, FALSE, s) \in {"error", "unknown"}
<1>1. CASE caller = "runtest"
  <2>1. \A timedOut : verdictOf(exit, timedOut, s) = runtestVerdict(exit, timedOut, s)
    BY <1>1 DEF verdictOf
  <2>2. runtestVerdict(exit, TRUE, s) = "error"
    BY DEF runtestVerdict
  <2>3. CASE noTestsCollected(exit, s)
    <3>1. runtestVerdict(exit, FALSE, s) = "error"
      BY <2>3 DEF runtestVerdict
    <3> QED
      BY <2>1, <2>2, <2>3, <3>1
  <2>4. CASE ~noTestsCollected(exit, s) /\ s.source = "none" /\ exit \notin {0, 1}
    <3>1. runtestVerdict(exit, FALSE, s) = "error"
      BY <2>4 DEF runtestVerdict
    <3> QED
      BY <2>1, <2>2, <2>4, <3>1
  <2>5. CASE ~noTestsCollected(exit, s) /\ ~(s.source = "none" /\ exit \notin {0, 1})
    <3>1. runtestVerdict(exit, FALSE, s) = IF testsPass(exit, s) THEN "passed" ELSE "failed"
      BY <2>5 DEF runtestVerdict
    <3> QED
      BY <2>1, <2>2, <2>5, <3>1
  <2> QED
    BY <2>3, <2>4, <2>5
<1>2. CASE caller # "runtest"
  <2>1. \A timedOut : verdictOf(exit, timedOut, s) = finalVerdict(exit, timedOut, s)
    BY <1>2 DEF verdictOf
  <2>2. finalVerdict(exit, TRUE, s) = "failed"
    BY DEF finalVerdict
  <2>3. CASE noTestsCollected(exit, s)
    <3>1. finalVerdict(exit, FALSE, s) = "unknown"
      BY <2>3 DEF finalVerdict
    <3> QED
      BY <2>1, <2>2, <2>3, <3>1
  <2>4. CASE ~noTestsCollected(exit, s)
    <3>1. finalVerdict(exit, FALSE, s) = IF testsPass(exit, s) THEN "passed" ELSE "failed"
      BY <2>4 DEF finalVerdict
    <3> QED
      BY <2>1, <2>2, <2>4, <3>1
  <2> QED
    BY <2>3, <2>4
<1> QED
  BY <1>1, <1>2

(* What is known of a run whose command ended by itself. *)
LEMMA ExitedReads ==
  ASSUME SandboxInv, exited
  PROVE  /\ Ready /\ report \in Files /\ truth \in Suites
         /\ verdict = verdictOf(ended.exit, FALSE, tests)
         /\ \E runner \in runners :
              /\ runner \in Runners /\ ended.exit \in exitsOf(runner, total(truth)) \cup {0}
              /\ Reads(tests, runner, truth, report)
         /\ ~stale => (report.shape = "whole" => report.counts = Last(truth))
<1>0. stage = "over" /\ ended.how = "exited"
  BY DEF exited
<1>1. Ready /\ report \in Files /\ \E runner \in runners : Ran(runner)
  BY <1>0 DEF SandboxInv, ReportInv
<1>2. PICK runner \in runners : Ran(runner)
  BY <1>1
<1>3. /\ tests = readReport(report, plan.reportFormat, shown)
      /\ verdict = verdictOf(ended.exit, FALSE, tests)
  <2>1. Judged
    BY <1>0 DEF SandboxInv, ReportInv
  <2>2. (ended.how = "timed out") = FALSE
    BY <1>0
  <2> QED
    BY <2>1, <2>2 DEF Judged
<1>4. runner \in Runners
  BY <1>1, RunnersAre
<1>5. truth \in Suites /\ ended.exit \in exitsOf(runner, total(truth)) \cup {0}
  BY <1>2 DEF Ran
<1>6. written = printed(runner, truth)
  <2>1. pending = <<>> /\ written \in Seq(Items)
    BY <1>0 DEF SandboxInv, PendingInv, BufferInv, BufferType
  <2> QED
    BY <1>2, <2>1, ConcatEmptyItems DEF Ran
<1>7. shown \in Telling(runner, ToSet(truth))
  <2>1. written \in Telling(runner, ToSet(truth))
    BY <1>4, <1>5, <1>6, TestsPrint
  <2> QED
    BY <2>1, ShownTells DEF SandboxInv
<1>8. Reads(tests, runner, truth, report)
  <2>1. \/ tests = NoSummary
        \/ /\ report.shape = "whole"
           /\ ReadFrom(tests, report.counts, "junit") \/ ReadFromJest(tests, report.counts)
        \/ runner # "other" /\ \E t \in ToSet(truth) : tests = readAs(runner, t)
    BY <1>1, <1>3, <1>4, <1>7, SummaryRead
  <2>2. truth \in Seq(Truths)
    BY <1>5, SuitesTotal
  <2>3. \A t \in ToSet(truth) : \E n \in 1 .. Len(truth) : t = truth[n]
    BY <2>2 DEF ToSet
  <2> QED
    BY <2>1, <2>3 DEF Reads
<1>9. ~stale => (report.shape = "whole" => report.counts = Last(truth))
  BY <1>2 DEF Ran, stale
<1> QED
  BY <1>1, <1>2, <1>3, <1>4, <1>5, <1>8, <1>9

(* Exit code 5 with no tests counted means that none were collected. *)
LEMMA NothingCounted ==
  ASSUME NEW s
  PROVE  noTestsCollected(5, s) <=> Nothing(s)
  BY DEF noTestsCollected, Nothing

(* A verdict is no better and no worse than the tests. *)
LEMMA VerdictTrue ==
  ASSUME SandboxInv
  PROVE  VerdictFollowsTests
<1> SUFFICES ASSUME stage = "over"
             PROVE  /\ verdict = "passed" => ended.how = "exited" /\ (Green(total(truth)) \/ hidden)
                    /\ verdict = "failed" =>
                         \/ ended.how \in {"killed", "timed out"}
                         \/ ~Green(total(truth))
                         \/ collected(total(truth)) = 0 /\ ended.exit = 1
                         \/ stale \/ misread
                    /\ ended.how = "running" => verdict \in {"error", "unknown"}
                    /\ exited /\ ended.exit = 5 /\ ~stale => verdict \in {"error", "unknown"}
  BY DEF VerdictFollowsTests
<1>0. caller \in {"runtest", "agent"}
  BY DEF SandboxInv, PlanInv
<1>1. CASE ended.how = "running"
  <2>1. verdict \in {"error", "unknown"}
    BY <1>1 DEF SandboxInv, ReportInv
  <2> QED
    BY <1>1, <2>1 DEF exited
<1>2. CASE ended.how \in {"killed", "timed out"}
  <2>1. Judged /\ ended.exit # 0
    BY <1>2 DEF SandboxInv, ReportInv
  <2>2. verdict # "passed"
    <3>1. CASE ended.how = "timed out"
      <4>1. verdict = verdictOf(ended.exit, TRUE, tests)
        BY <2>1, <3>1 DEF Judged
      <4> QED
        BY <4>1, <1>0, VerdictIs
    <3>2. CASE ended.how # "timed out"
      <4>1. verdict = verdictOf(ended.exit, FALSE, tests)
        BY <2>1, <3>2 DEF Judged
      <4>2. ~testsPass(ended.exit, tests)
        BY <2>1 DEF testsPass
      <4> QED
        BY <4>1, <4>2, <1>0, VerdictIs
    <3> QED
      BY <3>1, <3>2
  <2> QED
    BY <1>2, <2>2 DEF exited
<1>3. CASE ended.how = "exited"
  <2>0. exited
    BY <1>3 DEF exited
  <2>1. /\ Ready /\ report \in Files /\ truth \in Suites
        /\ verdict = verdictOf(ended.exit, FALSE, tests)
        /\ ~stale => (report.shape = "whole" => report.counts = Last(truth))
    BY <2>0, ExitedReads
  <2>2. PICK runner \in runners :
              /\ runner \in Runners /\ ended.exit \in exitsOf(runner, total(truth)) \cup {0}
              /\ Reads(tests, runner, truth, report)
    BY <2>0, ExitedReads
  <2> DEFINE all == total(truth)
  <2>3. all \in Counts
    BY <2>1, SuitesTotal
  <2>4. ~stale =>
          /\ tests.failed = 0 => Green(all) \/ Hides(tests, runner, truth)
          /\ Green(all) => tests.failed = 0 \/ Misread(runner, all)
          /\ Green(all) /\ collected(all) = 0 => Nothing(tests)
    <3> HIDE DEF all
    <3> QED
      BY <2>1, <2>2, SummaryOfSuites DEF all
  <2>5. /\ Green(all) => ended.exit = 0 \/ collected(all) = 0
        /\ ended.exit \in {0, 1, 2, 5}
        /\ ended.exit = 5 => Green(all) /\ collected(all) = 0
        /\ Green(all) => ended.exit \in {0, 1, 5}
    BY <2>2, <2>3, ExitTells
  <2>6. Misread(runner, all) => misread
    <3>1. runner = "unittest" => plan.test = "unittest"
      BY <2>1, <2>2, RunnersAre
    <3> QED
      BY <3>1 DEF Misread, misread
  <2> HIDE DEF all
  <2>7. ended.exit = 0 /\ Hides(tests, runner, truth) => hidden
    BY DEF Hides, hidden, all
  <2>8. ended.exit = 0 /\ stale => hidden
    BY DEF hidden
  <2>9. verdict = "passed" => Green(all) \/ hidden
    <3> SUFFICES ASSUME verdict = "passed" PROVE Green(all) \/ hidden
      OBVIOUS
    <3>1. testsPass(ended.exit, tests)
      BY <1>0, <2>1, VerdictIs
    <3>2. ended.exit = 0 /\ tests.failed = 0
      BY <3>1 DEF testsPass
    <3> QED
      BY <3>2, <2>4, <2>7, <2>8
  <2>10. ended.exit = 5 /\ ~stale => noTestsCollected(ended.exit, tests)
    BY <2>4, <2>5, NothingCounted
  <2>11. ended.exit = 5 /\ ~stale => verdict \in {"error", "unknown"}
    BY <1>0, <2>1, <2>10, VerdictIs
  <2>12. verdict = "failed" /\ Green(all) /\ ~stale /\ ~misread => collected(all) = 0 /\ ended.exit = 1
    <3> SUFFICES ASSUME verdict = "failed", Green(all), ~stale, ~misread
                 PROVE  collected(all) = 0 /\ ended.exit = 1
      OBVIOUS
    <3>1. ~testsPass(ended.exit, tests)
      BY <1>0, <2>1, VerdictIs
    <3>2. tests.failed = 0
      BY <2>4, <2>6
    <3>3. ended.exit # 0
      BY <3>1, <3>2 DEF testsPass
    <3>4. ended.exit # 5
      BY <2>11
    <3> QED
      BY <3>3, <3>4, <2>5
  <2> QED
    BY <1>3, <2>9, <2>11, <2>12 DEF all
<1>4. ended.how \in {"running", "exited", "killed", "timed out"}
  BY DEF SandboxInv, ReportInv
<1> QED
  BY <1>1, <1>2, <1>3, <1>4

(* The numbers are those of the suite. *)
LEMMA SummaryTrue ==
  ASSUME SandboxInv
  PROVE  SummaryIsTrue
<1> SUFFICES ASSUME exited, tests.source # "none", ~stale, Len(truth) = 1, ~misread
             PROVE  LET t == total(truth)
                    IN /\ tests.passed = t.passed
                       /\ tests.failed \in t.failed .. t.failed + t.unloaded
                       /\ tests.failed < t.failed + t.unloaded =>
                            \/ tests.source = "output" /\ tests.failed = t.failed
                               /\ (t.failed > 0 \/ "jest" \in runners)
                            \/ tests.source = "jest-json" /\ tests.failed >= MAX_FAILURES
                       /\ tests.skipped \in {t.skipped, t.skipped + t.aside}
  BY DEF SummaryIsTrue
<1>1. /\ Ready /\ report \in Files /\ truth \in Suites
      /\ report.shape = "whole" => report.counts = Last(truth)
  BY ExitedReads
<1>2. PICK runner \in runners : runner \in Runners /\ Reads(tests, runner, truth, report)
  BY ExitedReads
<1> DEFINE all == total(truth)
<1>3. Tells(tests, runner, all) \/ Misread(runner, all)
  <2> HIDE DEF all
  <2> QED
    BY <1>1, <1>2, SummaryOfSuites DEF all
<1>4. ~Misread(runner, all)
  <2>1. runner = "unittest" => plan.test = "unittest"
    BY <1>1, <1>2, RunnersAre
  <2> QED
    BY <2>1 DEF Misread, misread
<1> HIDE DEF all
<1>5. /\ tests.passed = all.passed
      /\ tests.failed \in all.failed .. all.failed + all.unloaded
      /\ tests.failed < all.failed + all.unloaded =>
           \/ tests.source = "output" /\ tests.failed = all.failed
              /\ (all.failed > 0 \/ "jest" \in runners)
           \/ tests.source = "jest-json" /\ tests.failed >= MAX_FAILURES
      /\ tests.skipped \in {all.skipped, all.skipped + all.aside}
  BY <1>2, <1>3, <1>4 DEF Tells
<1> QED
  BY <1>5 DEF all

-----------------------------------------------------------------------------
(* The invariant holds at all times. *)
THEOREM SandboxInvariant == Spec => []SandboxInv
<1>1. Init => SandboxInv
  <2> SUFFICES ASSUME Init PROVE SandboxInv
    OBVIOUS
  <2>1. BufferInv
    BY HalfType DEF Init, BufferInit, BufferInv, BufferType, OutputKeepsEnds, smaller
  <2>2. PlanInv
    BY DEF Init, PlanInv, Stages, UnderWay
  <2>3. PendingInv
    BY DEF Init, PendingInv
  <2>4. InstallInv
    BY DEF Init, InstallInv, NotInstalled
  <2>5. ReportInv
    BY DEF Init, ReportInv, Running
  <2> QED
    BY <2>1, <2>2, <2>3, <2>4, <2>5 DEF SandboxInv
<1>2. SandboxInv /\ [Next]_vars => SandboxInv'
  BY BufferStep, PlanStep, InstallStep, ReportStep DEF SandboxInv
<1> QED
  BY <1>1, <1>2, PTL DEF Spec

(* An install that ends well has made the environment, the project and pytest,
   whatever fails in it, and the notes name the requirements with packages that
   could not be installed; what lines of options name is left out silently, but only
   where a file was retried. *)
THEOREM Told == Spec => []InstallIsTold
<1>1. SandboxInv => InstallIsTold
  <2> SUFFICES ASSUME SandboxInv PROVE InstallIsTold
    OBVIOUS
  <2>1. stage \in Stages
    BY DEF SandboxInv, PlanInv
  <2>2. InstallInv
    BY DEF SandboxInv
  <2> QED
    BY <2>2 DEF InstallInv, InstallIsTold, PythonInstalled
<1> QED
  BY <1>1, SandboxInvariant, PTL

(* The verdict of a job follows the tests that ran, whatever the runner, the exit
   code, the report file, whether it was this run's, and however much of the output
   was kept; and the numbers in the summary are those of the tests, as far as jest
   lists them. *)
THEOREM Reports == Spec => []ReportIsTrue
<1>1. SandboxInv => ReportIsTrue
  BY VerdictTrue, SummaryTrue DEF ReportIsTrue
<1> QED
  BY <1>1, SandboxInvariant, PTL

(* The sandbox shows the ends of what a command printed. *)
THEOREM Shows == Spec => []OutputKeepsEnds
<1>1. SandboxInv => OutputKeepsEnds
  BY DEF SandboxInv, BufferInv
<1> QED
  BY <1>1, SandboxInvariant, PTL

-----------------------------------------------------------------------------
(* Every command has its output kept as HeadTailBuffer keeps any: each step of
   the sandbox is one of the buffer, or leaves it alone. *)
THEOREM Buffers == Spec => BufferSpec
<1>1. Init => BufferInit
  BY DEF Init
<1>2. SandboxInv /\ [Next]_vars => [BufferNext]_buffer
  <2> SUFFICES ASSUME SandboxInv, [Next]_vars
               PROVE  BufferNext \/ UNCHANGED buffer
    OBVIOUS
  <2>1. CASE MakePlan \/ Prepare \/ Judge \/ Edit
    BY <2>1 DEF MakePlan, Prepare, Judge, Edit
  <2>2. CASE Prints
    BY <2>2, PrintsInOrder DEF SandboxInv, BufferNext
  <2>3. CASE Install \/ InstallEnds \/ TestsExit \/ TestsKilled
    <3>1. BufferAnew
      BY <2>3 DEF Install, InstallEnds, TestsExit, TestsKilled, ExecStarts
    <3> QED
      BY <3>1 DEF BufferNext
  <2>4. CASE UNCHANGED vars
    BY <2>4 DEF vars
  <2> QED
    BY <2>1, <2>2, <2>3, <2>4 DEF Next
<1> QED
  BY <1>1, <1>2, SandboxInvariant, PTL DEF Spec, BufferSpec

-----------------------------------------------------------------------------
(* What parsePatch and checkPatch go through, and what they keep.  The provers are
   not told that a literal is a string, hence Words. *)
Words == STRING \cup {"same", "tab", "x", "a part of the header", "mojibake", "in quotes"}
Texts == Seq(Words) \cup Words
Names == Texts \cup {unquote(w) : w \in Words}
Starts == {"diff --git", "new file mode", "new mode", "deleted file mode", "rename from",
           "rename to", "---", "+++", "@@", "-", "+", "GIT binary patch", "base85"}
PatchLine == [start : Starts, path : Seq(Words), to : Texts, secret : BOOLEAN]
PatchFile == [path : Names, oldPath : Names, added : Nat, deleted : Nat, binary : BOOLEAN,
              newMode : Names]
ParseState == [files : Seq(PatchFile), inHunk : BOOLEAN]
ScanState == [file : Names, inHunk : BOOLEAN, found : SUBSET (Names \X {"secret"})]

(* The fields of a line, and what is unquoted of them. *)
LEMMA UnquoteTypes ==
  /\ \A p \in Seq(Words) : unquote(p) \in Seq(Words)
  /\ \A t \in Texts : unquote(t) \in Names
<1>1. ASSUME NEW p \in Seq(Words) PROVE unquote(p) \in Seq(Words)
  <2> DEFINE q == [n \in DOMAIN p |-> IF p[n] = "accent" THEN "mojibake" ELSE p[n]]
  <2>1. "mojibake" \in Words
    BY DEF Words
  <2>2. Len(p) \in Nat /\ DOMAIN p = 1 .. Len(p) /\ \A n \in DOMAIN p : p[n] \in Words
    OBVIOUS
  <2>3. q \in [1 .. Len(p) -> Words]
    BY <2>1, <2>2
  <2>4. q \in Seq(Words)
    BY <2>2, <2>3
  <2>5. unquote(p) \in {p, q}
    BY Zenon DEF unquote
  <2> HIDE DEF q
  <2> QED
    BY <2>4, <2>5
<1> QED
  BY <1>1, Zenon DEF Texts, Names

LEMMA LineFields ==
  ASSUME NEW line \in PatchLine
  PROVE  /\ line.start \in Starts /\ line.path \in Names /\ line.to \in Names /\ line.to \in Texts
         /\ line.path \in Seq(Words) /\ unquote(line.path) \in Names /\ unquote(line.to) \in Names
<1>1. line.start \in Starts /\ line.path \in Seq(Words) /\ line.to \in Texts
  BY DEF PatchLine
<1> QED
  BY <1>1, UnquoteTypes, Zenon DEF Texts, Names

(* The current file with another line read. *)
LEMMA FileReads ==
  ASSUME NEW f \in PatchFile, NEW line \in PatchLine
  PROVE  hunkLine(f, line) \in PatchFile /\ extendedLine(f, line) \in PatchFile
<1>1. unquote(line.path) \in Names /\ line.to \in Names
  BY LineFields
<1>2. hunkLine(f, line) \in PatchFile
  <2>1. CASE startsWithPlus(line)
    BY <2>1 DEF hunkLine, PatchFile
  <2>2. CASE startsWithMinus(line) /\ ~startsWithPlus(line)
    BY <2>2 DEF hunkLine, PatchFile
  <2>3. CASE ~startsWithMinus(line) /\ ~startsWithPlus(line)
    BY <2>3 DEF hunkLine
  <2> QED
    BY <2>1, <2>2, <2>3
<1>3. /\ \A p \in Names : [f EXCEPT !.path = p] \in PatchFile
      /\ \A p \in Names : [f EXCEPT !.oldPath = p] \in PatchFile
      /\ \A p \in Names : [f EXCEPT !.newMode = p] \in PatchFile
      /\ [f EXCEPT !.binary = TRUE] \in PatchFile
  BY DEF PatchFile
<1>4. extendedLine(f, line) \in
        {f, [f EXCEPT !.path = unquote(line.path)], [f EXCEPT !.oldPath = unquote(line.path)],
         [f EXCEPT !.newMode = line.to], [f EXCEPT !.binary = TRUE]}
  BY Zenon DEF extendedLine
<1> QED
  BY <1>1, <1>2, <1>3, <1>4

(* parseLine keeps to its states. *)
LEMMA LineParsed ==
  ASSUME NEW s \in ParseState, NEW line \in PatchLine
  PROVE  parseLine(s, line) \in ParseState
<1>0. s.files \in Seq(PatchFile) /\ s.inHunk \in BOOLEAN
  BY DEF ParseState
<1>1. newFile(line) \in PatchFile
  <2>1. unquote(line.path) \in Names /\ unquote(line.to) \in Names /\ "same" \in Names
    BY LineFields DEF Names, Texts, Words
  <2> QED
    BY <2>1 DEF newFile, PatchFile
<1>2. Append(s.files, newFile(line)) \in Seq(PatchFile)
  BY <1>0, <1>1
<1>3. [files |-> Append(s.files, newFile(line)), inHunk |-> FALSE] \in ParseState
  BY <1>2 DEF ParseState
<1>4. [s EXCEPT !.inHunk = TRUE] \in ParseState
  BY DEF ParseState
<1>5. ASSUME s.files # <<>>
      PROVE  [s EXCEPT !.files[Len(s.files)] =
                IF s.inHunk THEN hunkLine(@, line) ELSE extendedLine(@, line)] \in ParseState
  <2>1. Len(s.files) \in Nat /\ Len(s.files) \in DOMAIN s.files /\ s.files[Len(s.files)] \in PatchFile
    BY <1>0, <1>5
  <2> DEFINE f == s.files[Len(s.files)]
             g == IF s.inHunk THEN hunkLine(f, line) ELSE extendedLine(f, line)
  <2>2. g \in PatchFile
    BY <2>1, FileReads
  <2> HIDE DEF g
  <2>3. [s.files EXCEPT ![Len(s.files)] = g] \in Seq(PatchFile)
    BY <1>0, <2>1, <2>2
  <2>4. [s EXCEPT !.files = [s.files EXCEPT ![Len(s.files)] = g]] \in ParseState
    BY <2>3 DEF ParseState
  <2> QED
    BY <2>4 DEF g
<1> QED
  BY <1>3, <1>4, <1>5 DEF parseLine

(* The steps of the folds. *)
ParseStep == [p \in ParseState \X PatchLine |-> parseLine(p[1], p[2])]
ScanStep == [p \in ScanState \X PatchLine |-> scanLine(p[1], p[2])]
ParseBase == [files |-> <<>>, inHunk |-> FALSE]
ScanBase == [file |-> devNull, inHunk |-> FALSE, found |-> {}]

(* parsePatch begins with a fold of parseLine. *)
LEMMA ParseRuns ==
  ASSUME NEW patch \in Seq(PatchLine)
  PROVE  RunsTo(ParseStep, ParseState, ParseBase, patch, FoldLeft(parseLine, ParseBase, patch))
<1> DEFINE Iter(h) == h = [s \in SUBSET DOMAIN patch |->
                             IF s = {} THEN ParseBase ELSE parseLine(h[s \ {Max(s)}], patch[Max(s)])]
<1>0. ParseBase \in ParseState
  BY DEF ParseBase, ParseState
<1>1. /\ ParseStep \in [ParseState \X PatchLine -> ParseState]
      /\ \A x \in ParseState, l \in PatchLine : ParseStep[<<x, l>>] = parseLine(x, l)
  BY LineParsed DEF ParseStep
<1>2. \E h : Iter(h)
  <2>1. PICK g : Folds(ParseStep, ParseState, PatchLine, ParseBase, patch, g)
    BY <1>0, <1>1, FoldExists
  <2>2. Iter(g)
    BY <1>1, <2>1 DEF Folds
  <2> QED
    BY <2>2
<1> DEFINE fold == CHOOSE h : Iter(h)
<1>3. Iter(fold)
  BY <1>2
<1>4. FoldLeft(parseLine, ParseBase, patch) = fold[DOMAIN patch]
  BY DEF FoldLeft, MapThenFoldSet
<1> HIDE DEF fold
<1>5. Follows(ParseStep, ParseState, PatchLine, ParseBase, patch, fold)
  BY <1>1, <1>3 DEF Follows
<1>6. RunsTo(ParseStep, ParseState, ParseBase, patch, fold[DOMAIN patch])
  BY <1>0, <1>1, <1>5, FoldRuns
<1> QED
  BY <1>4, <1>6

(* scanLine keeps to its states. *)
LEMMA LineScanned ==
  ASSUME NEW s \in ScanState, NEW line \in PatchLine
  PROVE  scanLine(s, line) \in ScanState
<1>0. s.file \in Names /\ s.inHunk \in BOOLEAN /\ s.found \in SUBSET (Names \X {"secret"})
  BY DEF ScanState
<1>1. headed(line) \in Names
  <2>1. line.to \in Names
    BY LineFields
  <2>2. "a part of the header" \in Words /\ "in quotes" \in Words
    BY DEF Words
  <2>3. <<"a part of the header">> \in Names /\ <<"in quotes">> \in Names
    <3>1. \A w \in Words : <<w>> \in Seq(Words)
      OBVIOUS
    <3>2. <<"a part of the header">> \in Seq(Words) /\ <<"in quotes">> \in Seq(Words)
      BY <2>2, <3>1, Zenon
    <3> QED
      BY <3>2, Zenon DEF Names, Texts
  <2> QED
    BY <2>1, <2>3, Zenon DEF headed
<1>2. [s EXCEPT !.file = headed(line), !.inHunk = FALSE] \in ScanState
  BY <1>1 DEF ScanState
<1>3. s.found \cup {<<s.file, "secret">>} \in SUBSET (Names \X {"secret"})
  BY <1>0
<1>4. \A in \in BOOLEAN, found \in SUBSET (Names \X {"secret"}) :
        [s EXCEPT !.inHunk = in, !.found = found] \in ScanState
  BY DEF ScanState
<1>5. (s.inHunk \/ line.start = "@@") \in BOOLEAN
  OBVIOUS
<1> QED
  BY <1>0, <1>2, <1>3, <1>4, <1>5 DEF scanLine

(* secretsIn is a fold of scanLine. *)
LEMMA ScanRuns ==
  ASSUME NEW patch \in Seq(PatchLine)
  PROVE  RunsTo(ScanStep, ScanState, ScanBase, patch, FoldLeft(scanLine, ScanBase, patch))
<1> DEFINE Iter(h) == h = [s \in SUBSET DOMAIN patch |->
                             IF s = {} THEN ScanBase ELSE scanLine(h[s \ {Max(s)}], patch[Max(s)])]
<1>0. ScanBase \in ScanState
  BY DEF ScanBase, ScanState, Names, Texts, devNull
<1>1. /\ ScanStep \in [ScanState \X PatchLine -> ScanState]
      /\ \A x \in ScanState, l \in PatchLine : ScanStep[<<x, l>>] = scanLine(x, l)
  BY LineScanned DEF ScanStep
<1>2. \E h : Iter(h)
  <2>1. PICK g : Folds(ScanStep, ScanState, PatchLine, ScanBase, patch, g)
    BY <1>0, <1>1, FoldExists
  <2>2. Iter(g)
    BY <1>1, <2>1 DEF Folds
  <2> QED
    BY <2>2
<1> DEFINE fold == CHOOSE h : Iter(h)
<1>3. Iter(fold)
  BY <1>2
<1>4. FoldLeft(scanLine, ScanBase, patch) = fold[DOMAIN patch]
  BY DEF FoldLeft, MapThenFoldSet
<1> HIDE DEF fold
<1>5. Follows(ScanStep, ScanState, PatchLine, ScanBase, patch, fold)
  BY <1>1, <1>3 DEF Follows
<1>6. RunsTo(ScanStep, ScanState, ScanBase, patch, fold[DOMAIN patch])
  BY <1>0, <1>1, <1>5, FoldRuns
<1> QED
  BY <1>4, <1>6

-----------------------------------------------------------------------------
(* A sequence of elements of a smaller set. *)
LEMMA WiderSeq ==
  ASSUME NEW S, NEW T, S \subseteq T, NEW s \in Seq(S)
  PROVE  s \in Seq(T)
<1>1. Len(s) \in Nat /\ s \in [1 .. Len(s) -> S]
  OBVIOUS
<1>2. s \in [1 .. Len(s) -> T]
  BY <1>1
<1> QED
  BY <1>1, <1>2

(* Texts are sequences of words. *)
LEMMA PathsAreNames ==
  /\ Seq(STRING) \subseteq Seq(Words)
  /\ Seq(Words) \subseteq Texts /\ STRING \subseteq Texts /\ Texts \subseteq Names
  /\ devNull \in Seq(Words)
<1>1. STRING \subseteq Words
  BY DEF Words
<1>2. ASSUME NEW s \in Seq(STRING) PROVE s \in Seq(Words)
  BY <1>1, <1>2, WiderSeq, Zenon
<1>3. devNull \in Seq(Words)
  BY DEF devNull
<1> QED
  BY <1>1, <1>2, <1>3 DEF Names, Texts

(* The fields of a change. *)
ChangeOK(c) ==
  /\ c.old \in Seq(Words) /\ c.new \in Seq(Words) /\ c.mode \in Texts /\ c.binary \in BOOLEAN
  /\ c.body \in Seq([sign : {"+", "-"}, text : {"plain", "secret", "marker"}])
  /\ ~(c.old = devNull /\ c.new = devNull)
  /\ c.binary => c.body = <<>>

LEMMA ChangeFields ==
  ASSUME NEW c \in Changes
  PROVE  ChangeOK(c)
<1> DEFINE Body == Seq([sign : {"+", "-"}, text : {"plain", "secret", "marker"}])
<1>1. /\ c \in [old : Seq(STRING), new : Seq(STRING), mode : STRING, binary : BOOLEAN, body : Body]
      /\ {c.old, c.new} # {devNull}
      /\ c.binary => c.body = <<>>
  BY ChangesAssumption
<1> HIDE DEF Body
<1>2. c.old \in Seq(STRING) /\ c.new \in Seq(STRING) /\ c.mode \in STRING /\ c.binary \in BOOLEAN
      /\ c.body \in Body
  BY <1>1
<1>3. ~(c.old = devNull /\ c.new = devNull)
  BY <1>1
<1> QED
  BY <1>1, <1>2, <1>3, PathsAreNames, Zenon DEF ChangeOK, Body

(* The name before and the name after, as the header has them. *)
fromOf(c) == IF c.old = devNull THEN c.new ELSE c.old
headLine(c) == Line("diff --git", fromOf(c), named(c), FALSE)

(* The lines that git writes are lines. *)
LEMMA LineTypes ==
  ASSUME NEW start \in Starts, NEW path \in Seq(Words), NEW to \in Texts, NEW secret \in BOOLEAN
  PROVE  /\ Line(start, path, to, secret) \in PatchLine
         /\ Line(start, path, to, secret).start = start /\ Line(start, path, to, secret).path = path
         /\ Line(start, path, to, secret).to = to /\ Line(start, path, to, secret).secret = secret
BY DEF Line, PatchLine

LEMMA BareTypes ==
  ASSUME NEW start \in Starts
  PROVE  /\ Bare(start) \in PatchLine /\ Bare(start).start = start /\ Bare(start).secret = FALSE
         /\ Bare(start).path = devNull
<1>1. devNull \in Texts /\ devNull \in Seq(Words)
  BY PathsAreNames
<1> QED
  BY <1>1, LineTypes DEF Bare

(* A line of a hunk. *)
LEMMA LineOfTypes ==
  ASSUME NEW content \in [sign : {"+", "-"}, text : {"plain", "secret", "marker"}]
  PROVE  /\ lineOf(content) \in PatchLine
         /\ lineOf(content).start \notin {"diff --git", "@@"}
         /\ startsWithPlus(lineOf(content)) <=> content.sign = "+"
         /\ startsWithMinus(lineOf(content)) <=> content.sign = "-"
         /\ startsWithPlus(lineOf(content)) /\ lineOf(content).secret
              <=> content.sign = "+" /\ content.text = "secret"
         /\ lineOf(content).path \in {devNull, <<"x">>}
<1>1. content.sign \in {"+", "-"} /\ content.text \in {"plain", "secret", "marker"}
  OBVIOUS
<1>2. <<"x">> \in Seq(Words)
  <2>1. \A w \in Words : <<w>> \in Seq(Words)
    OBVIOUS
  <2>2. "x" \in Words
    BY DEF Words
  <2> QED
    BY <2>1, <2>2, Zenon
<1>3. devNull \in Texts /\ devNull \in Seq(Words)
  BY PathsAreNames
<1>4. /\ "+" \in Starts /\ "-" \in Starts /\ "+++" \in Starts /\ "---" \in Starts
      /\ (content.text = "secret") \in BOOLEAN
  BY DEF Starts
<1>5. CASE content.text = "marker"
  <2> DEFINE start == IF content.sign = "+" THEN "+++" ELSE "---"
  <2>1. lineOf(content) = Line(start, <<"x">>, devNull, FALSE)
    BY <1>5 DEF lineOf
  <2>2. start \in Starts /\ FALSE \in BOOLEAN
    BY <1>4
  <2> HIDE DEF start
  <2>3. lineOf(content) \in PatchLine /\ lineOf(content).start = start /\ lineOf(content).secret = FALSE
        /\ lineOf(content).path = <<"x">>
    <3> DEFINE x == <<"x">>
    <3>1. x \in Seq(Words)
      BY <1>2
    <3>2. lineOf(content) = Line(start, x, devNull, FALSE)
      BY <2>1
    <3> HIDE DEF x
    <3> DEFINE l == Line(start, x, devNull, FALSE)
    <3>3. l \in PatchLine /\ l.start = start /\ l.secret = FALSE /\ l.path = x
      BY <3>1, <2>2, <1>3 DEF Line, PatchLine
    <3> HIDE DEF l
    <3>4. lineOf(content) = l
      BY <3>2 DEF l
    <3> QED
      BY <3>3, <3>4 DEF x
  <2> QED
    BY <2>3, <1>1, <1>5 DEF start, startsWithPlus, startsWithMinus
<1>6. CASE content.text # "marker"
  <2>1. lineOf(content) = Line(content.sign, devNull, devNull, content.text = "secret")
    BY <1>6 DEF lineOf
  <2>2. content.sign \in Starts
    BY <1>1, <1>4
  <2>3. lineOf(content) \in PatchLine /\ lineOf(content).start = content.sign
        /\ lineOf(content).secret = (content.text = "secret") /\ lineOf(content).path = devNull
    <3> DEFINE l == Line(content.sign, devNull, devNull, content.text = "secret")
    <3>1. l \in PatchLine /\ l.start = content.sign /\ l.secret = (content.text = "secret")
          /\ l.path = devNull
      BY <2>2, <1>3, <1>4 DEF Line, PatchLine
    <3> HIDE DEF l
    <3>2. lineOf(content) = l
      BY <2>1 DEF l
    <3> QED
      BY <3>1, <3>2
  <2> QED
    BY <2>3, <1>1, <1>6 DEF startsWithPlus, startsWithMinus
<1> QED
  BY <1>5, <1>6

(* The lines of a hunk. *)
hunkOf(c) == [n \in DOMAIN c.body |-> lineOf(c.body[n])]

LEMMA HunkTypes ==
  ASSUME NEW c, ChangeOK(c)
  PROVE  /\ hunkOf(c) \in Seq(PatchLine) /\ Len(hunkOf(c)) = Len(c.body)
         /\ \A n \in 1 .. Len(c.body) :
              /\ c.body[n] \in [sign : {"+", "-"}, text : {"plain", "secret", "marker"}]
              /\ hunkOf(c)[n] = lineOf(c.body[n])
<1> DEFINE Contents == [sign : {"+", "-"}, text : {"plain", "secret", "marker"}]
<1>1. c.body \in Seq(Contents)
  BY DEF ChangeOK
<1>2. \A content \in Contents : lineOf(content) \in PatchLine
  BY LineOfTypes
<1> HIDE DEF Contents
<1>3. Len(c.body) \in Nat /\ DOMAIN c.body = 1 .. Len(c.body) /\ \A n \in DOMAIN c.body : c.body[n] \in Contents
  BY <1>1
<1>4. hunkOf(c) \in [1 .. Len(c.body) -> PatchLine]
  BY <1>2, <1>3 DEF hunkOf
<1>5. hunkOf(c) \in Seq(PatchLine) /\ Len(hunkOf(c)) = Len(c.body)
  BY <1>3, <1>4
<1>6. \A n \in 1 .. Len(c.body) : c.body[n] \in Contents /\ hunkOf(c)[n] = lineOf(c.body[n])
  BY <1>3 DEF hunkOf
<1> QED
  BY <1>5, <1>6 DEF Contents

-----------------------------------------------------------------------------
(* The last element of a sequence, and another one in its place. *)
LEMMA AppendLast ==
  ASSUME NEW S, NEW F \in Seq(S), NEW f \in S
  PROVE  /\ Append(F, f) \in Seq(S) /\ Len(Append(F, f)) = Len(F) + 1 /\ Append(F, f) # <<>>
         /\ Append(F, f)[Len(Append(F, f))] = f
         /\ \A x \in S : [Append(F, f) EXCEPT ![Len(Append(F, f))] = x] = Append(F, x)
<1>1. /\ Append(F, f) \in Seq(S) /\ Append(F, f) # <<>> /\ Len(Append(F, f)) = Len(F) + 1
      /\ Append(F, f)[Len(F) + 1] = f
      /\ \A i \in 1 .. Len(F) : Append(F, f)[i] = F[i]
  BY AppendProperties
<1>2. ASSUME NEW x \in S
      PROVE  [Append(F, f) EXCEPT ![Len(Append(F, f))] = x] = Append(F, x)
  <2> DEFINE n == Len(F) + 1
             E == Append(F, f)
             G == [E EXCEPT ![n] = x]
             H == Append(F, x)
  <2>1. H \in Seq(S) /\ Len(H) = n /\ H[n] = x /\ \A i \in 1 .. Len(F) : H[i] = F[i]
    BY AppendProperties
  <2>2. n \in 1 .. n /\ \A i \in 1 .. n : i = n \/ i \in 1 .. Len(F)
    OBVIOUS
  <2>3. E \in Seq(S) /\ Len(E) = n
    BY <1>1
  <2> HIDE DEF n, E, H
  <2>4. G \in Seq(S) /\ Len(G) = n /\ \A i \in 1 .. n : G[i] = IF i = n THEN x ELSE E[i]
    BY <2>2, <2>3, ExceptSeq
  <2> HIDE DEF G
  <2>5. \A i \in 1 .. n : G[i] = H[i]
    BY <1>1, <2>1, <2>2, <2>4 DEF E
  <2>6. G = H
    BY <2>1, <2>4, <2>5, SeqEqual
  <2> QED
    BY <2>3, <2>6 DEF G, H, E
<1> QED
  BY <1>1, <1>2

LEMMA AppendIs ==
  ASSUME NEW S, NEW F \in Seq(S), NEW f \in S, NEW E, E = Append(F, f)
  PROVE  /\ E \in Seq(S) /\ Len(E) = Len(F) + 1 /\ E # <<>> /\ E[Len(E)] = f
         /\ \A x \in S : [E EXCEPT ![Len(E)] = x] = Append(F, x)
BY AppendLast

LEMMA AppendFile ==
  ASSUME NEW F \in Seq(PatchFile), NEW f \in PatchFile, NEW E, E = Append(F, f)
  PROVE  /\ E \in Seq(PatchFile) /\ E # <<>> /\ E[Len(E)] = f
         /\ \A x \in PatchFile : [E EXCEPT ![Len(E)] = x] = Append(F, x)
BY AppendIs

(* parsePatch at a line of a file f, after the files F. *)
ParseAt(F, f, in) == [files |-> Append(F, f), inHunk |-> in]

(* The states of parsePatch. *)
LEMMA ParseStates ==
  /\ \A G \in Seq(PatchFile), in \in BOOLEAN :
       /\ [files |-> G, inHunk |-> in] \in ParseState
       /\ [files |-> G, inHunk |-> in].files = G /\ [files |-> G, inHunk |-> in].inHunk = in
  /\ \A s \in ParseState :
       /\ s.files \in Seq(PatchFile) /\ s.inHunk \in BOOLEAN
       /\ [s EXCEPT !.inHunk = TRUE] = [files |-> s.files, inHunk |-> TRUE]
       /\ \A G : [s EXCEPT !.files = G] = [files |-> G, inHunk |-> s.inHunk]
<1> DEFINE S == Seq(PatchFile)
<1>1. ParseState = [files : S, inHunk : BOOLEAN]
  BY DEF ParseState
<1> HIDE DEF S
<1>2. \A G \in S, in \in BOOLEAN :
        /\ [files |-> G, inHunk |-> in] \in ParseState
        /\ [files |-> G, inHunk |-> in].files = G /\ [files |-> G, inHunk |-> in].inHunk = in
  BY <1>1
<1>3. ASSUME NEW s \in ParseState
      PROVE  /\ s.files \in S /\ s.inHunk \in BOOLEAN
             /\ [s EXCEPT !.inHunk = TRUE] = [files |-> s.files, inHunk |-> TRUE]
             /\ \A G : [s EXCEPT !.files = G] = [files |-> G, inHunk |-> s.inHunk]
  <2>1. s.files \in S /\ s.inHunk \in BOOLEAN
    BY <1>1
  <2>2. [s EXCEPT !.inHunk = TRUE] = [files |-> s.files, inHunk |-> TRUE]
    <3>1. \A b : [s EXCEPT !.inHunk = b] = [files |-> s.files, inHunk |-> b]
      BY <1>1
    <3> QED
      BY <3>1, Zenon
  <2>3. ASSUME NEW G PROVE [s EXCEPT !.files = G] = [files |-> G, inHunk |-> s.inHunk]
    BY <1>1
  <2> QED
    BY <2>1, <2>2, <2>3, Zenon
<1> QED
  BY <1>2, <1>3 DEF S

(* A line of a file changes the current file, and no other. *)
LEMMA ParseWithin ==
  ASSUME NEW F \in Seq(PatchFile), NEW f \in PatchFile, NEW in \in BOOLEAN,
         NEW line \in PatchLine, line.start # "diff --git"
  PROVE  /\ ParseAt(F, f, in) \in ParseState
         /\ ParseStep[<<ParseAt(F, f, in), line>>] =
              IF line.start = "@@" THEN ParseAt(F, f, TRUE)
              ELSE ParseAt(F, IF in THEN hunkLine(f, line) ELSE extendedLine(f, line), in)
<1> DEFINE G == Append(F, f)
           s == ParseAt(F, f, in)
           g == IF in THEN hunkLine(f, line) ELSE extendedLine(f, line)
<1>1. G \in Seq(PatchFile) /\ G # <<>> /\ G[Len(G)] = f
      /\ \A x \in PatchFile : [G EXCEPT ![Len(G)] = x] = Append(F, x)
  <2>1. G = Append(F, f)
    OBVIOUS
  <2> HIDE DEF G
  <2> QED
    BY <2>1, AppendFile
<1>2. s \in ParseState /\ s.files = G /\ s.inHunk = in
  <2> HIDE DEF G
  <2> DEFINE r == [files |-> G, inHunk |-> in]
  <2>1. r \in ParseState /\ r.files = G /\ r.inHunk = in
    BY <1>1, ParseStates, Zenon
  <2>2. s = r
    BY Zenon DEF ParseAt, G
  <2> HIDE DEF r, s
  <2> QED
    BY <2>1, <2>2, Zenon
<1>3. g \in PatchFile
  BY FileReads
<1>4. Append(F, f) = G
  OBVIOUS
<1> HIDE DEF s, g, G
<1>5. [s EXCEPT !.inHunk = TRUE] = ParseAt(F, f, TRUE)
  <2>1. [s EXCEPT !.inHunk = TRUE] = [files |-> s.files, inHunk |-> TRUE]
    BY <1>2, ParseStates, Zenon
  <2> QED
    BY <1>2, <1>4, <2>1, Zenon DEF ParseAt
<1>6. [s EXCEPT !.files[Len(s.files)] = IF s.inHunk THEN hunkLine(@, line) ELSE extendedLine(@, line)]
        = ParseAt(F, g, in)
  <2>1. [s EXCEPT !.files[Len(s.files)] = IF s.inHunk THEN hunkLine(@, line) ELSE extendedLine(@, line)]
          = [s EXCEPT !.files = [G EXCEPT ![Len(G)] = g]]
    BY <1>1, <1>2 DEF g
  <2>2. [G EXCEPT ![Len(G)] = g] = Append(F, g)
    BY <1>1, <1>3
  <2>3. [s EXCEPT !.files = Append(F, g)] = ParseAt(F, g, in)
    BY <1>2, ParseStates, Zenon DEF ParseAt
  <2> QED
    BY <2>1, <2>2, <2>3, Zenon
<1>7. ParseStep[<<s, line>>] = parseLine(s, line)
  BY <1>2 DEF ParseStep
<1>8. parseLine(s, line) = IF line.start = "@@" THEN ParseAt(F, f, TRUE) ELSE ParseAt(F, g, in)
  <2>1. ~isHeader(line) /\ s.files # <<>>
    BY <1>1, <1>2 DEF isHeader
  <2>2. parseLine(s, line) =
          IF line.start = "@@" THEN [s EXCEPT !.inHunk = TRUE]
          ELSE [s EXCEPT !.files[Len(s.files)] =
                  IF s.inHunk THEN hunkLine(@, line) ELSE extendedLine(@, line)]
    BY <2>1, Zenon DEF parseLine
  <2> QED
    BY <2>2, <1>5, <1>6, Zenon
<1> QED
  BY <1>2, <1>7, <1>8, Zenon DEF s, g

(* A file of a change, with what was read of it. *)
FileOf(c, added, deleted, binary, mode) ==
  [path |-> named(c), oldPath |-> fromOf(c), added |-> added, deleted |-> deleted,
   binary |-> binary, newMode |-> mode]

LEMMA FileOfTypes ==
  ASSUME NEW c, ChangeOK(c), NEW a \in Nat, NEW d \in Nat, NEW b \in BOOLEAN, NEW m \in Names
  PROVE  FileOf(c, a, d, b, m) \in PatchFile
<1>1. c.old \in Names /\ c.new \in Names
  BY PathsAreNames DEF ChangeOK
<1>2. named(c) \in Names /\ fromOf(c) \in Names
  BY <1>1 DEF named, fromOf
<1> QED
  BY <1>2 DEF FileOf, PatchFile

LEMMA NamesOf ==
  ASSUME NEW c, ChangeOK(c)
  PROVE  /\ named(c) \in Seq(Words) /\ fromOf(c) \in Seq(Words)
         /\ named(c) \in {c.old, c.new} \ {devNull} /\ fromOf(c) \in {c.old, c.new} \ {devNull}
         /\ headLine(c) \in PatchLine /\ headLine(c).start = "diff --git"
         /\ headLine(c).path = fromOf(c) /\ headLine(c).to = named(c)
<1>1. named(c) \in Seq(Words) /\ fromOf(c) \in Seq(Words)
  BY DEF ChangeOK, named, fromOf
<1>2. named(c) \in {c.old, c.new} \ {devNull} /\ fromOf(c) \in {c.old, c.new} \ {devNull}
  BY DEF ChangeOK, named, fromOf
<1>3. named(c) \in Texts
  BY <1>1, PathsAreNames
<1>4. headLine(c) \in PatchLine /\ headLine(c).start = "diff --git"
      /\ headLine(c).path = fromOf(c) /\ headLine(c).to = named(c)
  BY <1>1, <1>3 DEF headLine, Line, PatchLine, Starts
<1> QED
  BY <1>1, <1>2, <1>4

(* Names that git writes as they are: nothing is to be unquoted of them. *)
Verbatim(c) == plain(c.old) /\ plain(c.new)

LEMMA VerbatimNames ==
  ASSUME NEW c, Verbatim(c), NEW path \in {c.old, c.new, named(c), fromOf(c)}
  PROVE  ~spaced(path) /\ ~escaped(path) /\ unquote(path) = path /\ ~unparsable(path)
<1>1. path \in {c.old, c.new}
  BY DEF named, fromOf
<1>2. plain(path)
  BY <1>1 DEF Verbatim
<1> QED
  BY <1>2, Zenon DEF plain, escaped, unquote, unparsable

(* The header begins a file. *)
LEMMA ParseHead ==
  ASSUME NEW c, ChangeOK(c), Verbatim(c), NEW s \in ParseState
  PROVE  ParseStep[<<s, headLine(c)>>] = ParseAt(s.files, FileOf(c, 0, 0, FALSE, "same"), FALSE)
<1>0. /\ ~spaced(named(c)) /\ ~spaced(fromOf(c))
      /\ unquote(named(c)) = named(c) /\ unquote(fromOf(c)) = fromOf(c)
  BY VerbatimNames
<1>1. isHeader(headLine(c))
  BY <1>0, NamesOf DEF isHeader
<1>2. newFile(headLine(c)) = FileOf(c, 0, 0, FALSE, "same")
  BY <1>0, NamesOf DEF newFile, FileOf
<1>3. parseLine(s, headLine(c)) = ParseAt(s.files, FileOf(c, 0, 0, FALSE, "same"), FALSE)
  BY <1>1, <1>2 DEF parseLine, ParseAt
<1> QED
  BY <1>3, NamesOf DEF ParseStep

-----------------------------------------------------------------------------
(* What the lines in front of the hunks change of a file. *)
LEMMA ExtendedReads ==
  ASSUME NEW f, NEW line,
         NEW to, [f EXCEPT !.path = to] = f, NEW from, [f EXCEPT !.oldPath = from] = f
  PROVE  /\ line.start \in {"deleted file mode", "base85"} => extendedLine(f, line) = f
         /\ line.start \in {"new file mode", "new mode"} =>
              extendedLine(f, line) = [f EXCEPT !.newMode = line.to]
         /\ line.start = "GIT binary patch" => extendedLine(f, line) = [f EXCEPT !.binary = TRUE]
         /\ line.start = "rename from" /\ unquote(line.path) = from => extendedLine(f, line) = f
         /\ line.start = "rename to" /\ unquote(line.path) = to => extendedLine(f, line) = f
         /\ line.start = "---" /\ (line.path = devNull \/ unquote(line.path) = from) =>
              extendedLine(f, line) = f
         /\ line.start = "+++" /\ (line.path = devNull \/ unquote(line.path) = to) =>
              extendedLine(f, line) = f
<1>2. CASE line.start \in {"deleted file mode", "base85"}
  BY <1>2, Zenon DEF extendedLine
<1>3. CASE line.start \in {"new file mode", "new mode"}
  BY <1>3, Zenon DEF extendedLine
<1>4. CASE line.start = "GIT binary patch"
  BY <1>4, Zenon DEF extendedLine
<1>5. CASE line.start = "rename from"
  BY <1>5, Zenon DEF extendedLine
<1>6. CASE line.start = "rename to"
  BY <1>6, Zenon DEF extendedLine
<1>7. CASE line.start = "---"
  BY <1>7, Zenon DEF extendedLine
<1>8. CASE line.start = "+++"
  BY <1>8, Zenon DEF extendedLine
<1> QED
  BY <1>2, <1>3, <1>4, <1>5, <1>6, <1>7, <1>8, Zenon

(* The file of a change while none of its hunks was read. *)
PlainFile(c, m) == FileOf(c, 0, 0, FALSE, m)
BinaryFile(c, m) == FileOf(c, 0, 0, TRUE, m)

LEMMA PlainTypes ==
  ASSUME NEW c, ChangeOK(c), NEW m \in Names
  PROVE  PlainFile(c, m) \in PatchFile /\ BinaryFile(c, m) \in PatchFile
<1>1. \A b \in BOOLEAN : FileOf(c, 0, 0, b, m) \in PatchFile
  BY FileOfTypes
<1> QED
  BY <1>1, Zenon DEF PlainFile, BinaryFile

(* It has the names of the header. *)
LEMMA PlainChanged ==
  ASSUME NEW c, NEW m
  PROVE  /\ [PlainFile(c, m) EXCEPT !.path = named(c)] = PlainFile(c, m)
         /\ [PlainFile(c, m) EXCEPT !.oldPath = fromOf(c)] = PlainFile(c, m)
         /\ [BinaryFile(c, m) EXCEPT !.path = named(c)] = BinaryFile(c, m)
         /\ [BinaryFile(c, m) EXCEPT !.oldPath = fromOf(c)] = BinaryFile(c, m)
         /\ \A t : [PlainFile(c, m) EXCEPT !.newMode = t] = PlainFile(c, t)
         /\ [PlainFile(c, m) EXCEPT !.binary = TRUE] = BinaryFile(c, m)
<1>1. ASSUME NEW b
      PROVE  /\ [FileOf(c, 0, 0, b, m) EXCEPT !.path = named(c)] = FileOf(c, 0, 0, b, m)
             /\ [FileOf(c, 0, 0, b, m) EXCEPT !.oldPath = fromOf(c)] = FileOf(c, 0, 0, b, m)
  BY DEF FileOf
<1>2. ASSUME NEW b, NEW t
      PROVE  [FileOf(c, 0, 0, b, m) EXCEPT !.newMode = t] = FileOf(c, 0, 0, b, t)
  BY DEF FileOf
<1>3. ASSUME NEW b, NEW d
      PROVE  [FileOf(c, 0, 0, b, m) EXCEPT !.binary = d] = FileOf(c, 0, 0, d, m)
  BY DEF FileOf
<1> QED
  BY <1>1, <1>2, <1>3, Zenon DEF PlainFile, BinaryFile

LEMMA PlainReads ==
  ASSUME NEW c, NEW m, NEW line
  PROVE  /\ line.start \in {"deleted file mode", "base85"} =>
              extendedLine(PlainFile(c, m), line) = PlainFile(c, m)
         /\ line.start \in {"deleted file mode", "base85"} =>
              extendedLine(BinaryFile(c, m), line) = BinaryFile(c, m)
         /\ line.start \in {"new file mode", "new mode"} =>
              extendedLine(PlainFile(c, m), line) = PlainFile(c, line.to)
         /\ line.start = "GIT binary patch" => extendedLine(PlainFile(c, m), line) = BinaryFile(c, m)
<1> DEFINE f == PlainFile(c, m)
           g == BinaryFile(c, m)
<1>1. /\ [f EXCEPT !.path = named(c)] = f /\ [f EXCEPT !.oldPath = fromOf(c)] = f
      /\ [g EXCEPT !.path = named(c)] = g /\ [g EXCEPT !.oldPath = fromOf(c)] = g
  BY PlainChanged, Zenon
<1>2. [f EXCEPT !.newMode = line.to] = PlainFile(c, line.to) /\ [f EXCEPT !.binary = TRUE] = g
  BY PlainChanged, Zenon
<1> HIDE DEF f, g
<1>3. /\ line.start \in {"deleted file mode", "base85"} => extendedLine(f, line) = f
      /\ line.start \in {"new file mode", "new mode"} =>
           extendedLine(f, line) = [f EXCEPT !.newMode = line.to]
      /\ line.start = "GIT binary patch" => extendedLine(f, line) = [f EXCEPT !.binary = TRUE]
  <2>1. CASE line.start \in {"deleted file mode", "base85"}
    BY <2>1, Zenon DEF extendedLine
  <2>2. CASE line.start \in {"new file mode", "new mode"}
    BY <2>2, Zenon DEF extendedLine
  <2>3. CASE line.start = "GIT binary patch"
    BY <2>3, Zenon DEF extendedLine
  <2> QED
    BY <2>1, <2>2, <2>3, Zenon
<1>4. line.start \in {"deleted file mode", "base85"} => extendedLine(g, line) = g
  <2>1. [g EXCEPT !.path = named(c)] = g
    BY <1>1, Zenon
  <2>2. [g EXCEPT !.oldPath = fromOf(c)] = g
    BY <1>1, Zenon
  <2> QED
    BY <2>1, <2>2, ExtendedReads, Zenon
<1>5. /\ line.start \in {"new file mode", "new mode"} => extendedLine(f, line) = PlainFile(c, line.to)
      /\ line.start = "GIT binary patch" => extendedLine(f, line) = g
  BY <1>2, <1>3, Zenon
<1>7. line.start \in {"deleted file mode", "base85"} => extendedLine(f, line) = f
  BY <1>3, Zenon
<1> QED
  BY <1>4, <1>5, <1>7, Zenon DEF f, g

(* The lines that name the file again. *)
NamesAgain(c, line) ==
  /\ line \in PatchLine /\ line.secret = FALSE
  /\ \/ line.start = "rename from" /\ unquote(line.path) = fromOf(c)
     \/ line.start = "rename to" /\ unquote(line.path) = named(c)
     \/ line.start = "---" /\ (line.path = devNull \/ unquote(line.path) = fromOf(c))
     \/ line.start = "+++" /\ (line.path = devNull \/ unquote(line.path) = named(c))

LEMMA NamedAgain ==
  ASSUME NEW c, NEW m, NEW line, NamesAgain(c, line)
  PROVE  line.start \notin {"diff --git", "@@"} /\ extendedLine(PlainFile(c, m), line) = PlainFile(c, m)
<1>1. line.start \notin {"diff --git", "@@"}
  BY DEF NamesAgain
<1> DEFINE f == PlainFile(c, m)
<1>2. [f EXCEPT !.path = named(c)] = f /\ [f EXCEPT !.oldPath = fromOf(c)] = f
  BY PlainChanged, Zenon
<1> HIDE DEF f
<1>3. /\ line.start = "rename from" /\ unquote(line.path) = fromOf(c) => extendedLine(f, line) = f
      /\ line.start = "rename to" /\ unquote(line.path) = named(c) => extendedLine(f, line) = f
      /\ line.start = "---" /\ (line.path = devNull \/ unquote(line.path) = fromOf(c)) =>
           extendedLine(f, line) = f
      /\ line.start = "+++" /\ (line.path = devNull \/ unquote(line.path) = named(c)) =>
           extendedLine(f, line) = f
  BY <1>2, ExtendedReads, Zenon
<1> QED
  BY <1>1, <1>3 DEF NamesAgain, f

-----------------------------------------------------------------------------
(* In front of the hunks of a file, and in them. *)
Before(F, f) == ParseAt(F, f, FALSE)
Inside(F, f) == ParseAt(F, f, TRUE)

LEMMA AtTypes ==
  ASSUME NEW F \in Seq(PatchFile), NEW f \in PatchFile
  PROVE  Before(F, f) \in ParseState /\ Inside(F, f) \in ParseState
<1>1. \A in \in BOOLEAN : ParseAt(F, f, in) \in ParseState
  <2> DEFINE G == Append(F, f)
  <2>1. G \in Seq(PatchFile)
    OBVIOUS
  <2> HIDE DEF G
  <2>2. \A in \in BOOLEAN : [files |-> G, inHunk |-> in] \in ParseState
    BY <2>1, ParseStates, Zenon
  <2> QED
    BY <2>2, Zenon DEF ParseAt, G
<1> QED
  BY <1>1, Zenon DEF Before, Inside

(* A line in front of the hunks. *)
LEMMA ReadsBefore ==
  ASSUME NEW F \in Seq(PatchFile), NEW f \in PatchFile, NEW line \in PatchLine,
         line.start # "diff --git"
  PROVE  ParseStep[<<Before(F, f), line>>] =
           IF line.start = "@@" THEN Inside(F, f) ELSE Before(F, extendedLine(f, line))
<1>1. \A in \in BOOLEAN :
        ParseStep[<<ParseAt(F, f, in), line>>] =
          IF line.start = "@@" THEN ParseAt(F, f, TRUE)
          ELSE ParseAt(F, IF in THEN hunkLine(f, line) ELSE extendedLine(f, line), in)
  BY ParseWithin
<1> QED
  BY <1>1, Zenon DEF Before, Inside

(* A line of a hunk. *)
LEMMA ReadsInside ==
  ASSUME NEW F \in Seq(PatchFile), NEW f \in PatchFile, NEW line \in PatchLine,
         line.start \notin {"diff --git", "@@"}
  PROVE  ParseStep[<<Inside(F, f), line>>] = Inside(F, hunkLine(f, line))
<1>1. \A in \in BOOLEAN :
        ParseStep[<<ParseAt(F, f, in), line>>] =
          IF line.start = "@@" THEN ParseAt(F, f, TRUE)
          ELSE ParseAt(F, IF in THEN hunkLine(f, line) ELSE extendedLine(f, line), in)
  BY ParseWithin
<1> QED
  BY <1>1, Zenon DEF Inside

(* One line before the hunks. *)
LEMMA ParseOne ==
  ASSUME NEW F \in Seq(PatchFile), NEW f \in PatchFile, NEW line \in PatchLine,
         line.start \notin {"diff --git", "@@"}, NEW g, g = extendedLine(f, line)
  PROVE  RunsTo(ParseStep, ParseState, Before(F, f), <<line>>, Before(F, g))
<1> DEFINE s == Before(F, f)
<1>1. s \in ParseState /\ ParseStep[<<s, line>>] = Before(F, g)
  BY AtTypes, ReadsBefore
<1>2. ParseStep \in [ParseState \X PatchLine -> ParseState]
  BY LineParsed DEF ParseStep
<1> HIDE DEF s
<1>3. RunsTo(ParseStep, ParseState, s, <<line>>, ParseStep[<<s, line>>])
  BY <1>1, <1>2, RunsOne
<1> QED
  BY <1>1, <1>3 DEF s

(* No line. *)
LEMMA ParseNone ==
  ASSUME NEW s \in ParseState
  PROVE  RunsTo(ParseStep, ParseState, s, <<>>, s)
BY RunsEmpty

(* One sequence of lines after the other. *)
LEMMA ParseBoth ==
  ASSUME NEW p \in Seq(PatchLine), NEW q \in Seq(PatchLine), NEW s, NEW t, NEW u,
         RunsTo(ParseStep, ParseState, s, p, t), RunsTo(ParseStep, ParseState, t, q, u)
  PROVE  p \o q \in Seq(PatchLine) /\ RunsTo(ParseStep, ParseState, s, p \o q, u)
<1>1. ParseStep \in [ParseState \X PatchLine -> ParseState]
  BY LineParsed DEF ParseStep
<1>2. p \o q \in Seq(PatchLine)
  BY ConcatItems
<1>3. RunsTo(ParseStep, ParseState, s, p \o q, u)
  BY <1>1, RunsConcat
<1> QED
  BY <1>2, <1>3

(* The mode that the lines tell. *)
modeOf(c) == IF c.new = devNull THEN "same" ELSE c.mode

(* The lines of the mode. *)
LEMMA ModeLines ==
  ASSUME NEW c, ChangeOK(c)
  PROVE  /\ modeOf(c) \in Names
         /\ \/ modeLines(c) = <<>> /\ modeOf(c) = "same"
            \/ \E line \in PatchLine :
                 /\ modeLines(c) = <<line>> /\ line.secret = FALSE /\ line.path = devNull
                 /\ \/ line.start = "deleted file mode" /\ modeOf(c) = "same"
                    \/ line.start \in {"new file mode", "new mode"} /\ line.to = modeOf(c)
<1>1. "same" \in Names /\ c.mode \in Names /\ c.mode \in Texts
  BY DEF Names, Texts, Words, ChangeOK
<1>2. modeOf(c) \in Names
  BY <1>1 DEF modeOf
<1>3. "deleted file mode" \in Starts /\ "new file mode" \in Starts /\ "new mode" \in Starts
  BY DEF Starts
<1>4. CASE c.new = devNull
  <2>1. Bare("deleted file mode") \in PatchLine /\ Bare("deleted file mode").start = "deleted file mode"
        /\ Bare("deleted file mode").secret = FALSE /\ Bare("deleted file mode").path = devNull
    BY <1>3, BareTypes
  <2>2. modeLines(c) = <<Bare("deleted file mode")>> /\ modeOf(c) = "same"
    BY <1>4 DEF modeLines, modeOf
  <2> QED
    BY <1>2, <2>1, <2>2
<1>5. CASE c.new # devNull /\ c.mode = "same"
  BY <1>2, <1>5 DEF modeLines, modeOf
<1>6. CASE c.new # devNull /\ c.mode # "same"
  <2> DEFINE start == IF c.old = devNull THEN "new file mode" ELSE "new mode"
             line == [Bare(start) EXCEPT !.to = c.mode]
  <2>1. start \in Starts /\ start \in {"new file mode", "new mode"}
    BY <1>3
  <2>2. modeLines(c) = <<line>> /\ modeOf(c) = c.mode
    BY <1>6 DEF modeLines, modeOf
  <2> HIDE DEF start
  <2>3. line = [start |-> start, path |-> devNull, to |-> c.mode, secret |-> FALSE]
    <3>1. \A b : [[start |-> start, path |-> devNull, to |-> devNull, secret |-> b] EXCEPT !.to = c.mode]
                  = [start |-> start, path |-> devNull, to |-> c.mode, secret |-> b]
      OBVIOUS
    <3> QED
      BY <3>1, Zenon DEF Bare, Line
  <2>4. devNull \in Seq(Words)
    BY PathsAreNames
  <2> HIDE DEF line
  <2>5. line \in PatchLine /\ line.start = start /\ line.to = c.mode /\ line.secret = FALSE
        /\ line.path = devNull
    BY <1>1, <2>1, <2>3, <2>4 DEF PatchLine
  <2> QED
    BY <1>2, <2>1, <2>2, <2>5
<1> QED
  BY <1>4, <1>5, <1>6

LEMMA ParseMode ==
  ASSUME NEW c, ChangeOK(c), NEW F \in Seq(PatchFile)
  PROVE  /\ modeLines(c) \in Seq(PatchLine)
         /\ RunsTo(ParseStep, ParseState, Before(F, PlainFile(c, "same")),
                   modeLines(c), Before(F, PlainFile(c, modeOf(c))))
<1> DEFINE f == PlainFile(c, "same")
           g == PlainFile(c, modeOf(c))
<1>1. "same" \in Names
  BY DEF Names, Texts, Words
<1>2. f \in PatchFile
  BY <1>1, PlainTypes
<1> DEFINE Claim == /\ modeLines(c) \in Seq(PatchLine)
                   /\ RunsTo(ParseStep, ParseState, Before(F, f), modeLines(c), Before(F, g))
<1>3. ASSUME modeLines(c) = <<>>, modeOf(c) = "same" PROVE Claim
  <2>1. Before(F, f) \in ParseState
    BY <1>2, AtTypes
  <2>2. f = g
    BY <1>3
  <2>3. RunsTo(ParseStep, ParseState, Before(F, f), <<>>, Before(F, f))
    BY <2>1, ParseNone
  <2>4. <<>> \in Seq(PatchLine)
    OBVIOUS
  <2> QED
    BY <1>3, <2>2, <2>3, <2>4, Zenon
<1>4. ASSUME NEW line \in PatchLine, modeLines(c) = <<line>>,
             \/ line.start = "deleted file mode" /\ modeOf(c) = "same"
             \/ line.start \in {"new file mode", "new mode"} /\ line.to = modeOf(c)
      PROVE  Claim
  <2>1. g = extendedLine(f, line)
    <3>1. /\ line.start \in {"deleted file mode", "base85"} => extendedLine(f, line) = f
          /\ line.start \in {"new file mode", "new mode"} => extendedLine(f, line) = PlainFile(c, line.to)
      BY PlainReads, Zenon
    <3>2. modeOf(c) = "same" => g = f
      BY Zenon
    <3> HIDE DEF f
    <3>3. CASE line.start = "deleted file mode" /\ modeOf(c) = "same"
      BY <3>1, <3>2, <3>3, Zenon
    <3>4. CASE line.start \in {"new file mode", "new mode"} /\ line.to = modeOf(c)
      BY <3>1, <3>4, Zenon
    <3> QED
      BY <1>4, <3>3, <3>4
  <2>2. line.start \notin {"diff --git", "@@"}
    BY <1>4
  <2> HIDE DEF f, g
  <2>3. RunsTo(ParseStep, ParseState, Before(F, f), <<line>>, Before(F, g))
    BY <1>2, <2>1, <2>2, ParseOne
  <2>4. <<line>> \in Seq(PatchLine)
    OBVIOUS
  <2> QED
    BY <1>4, <2>3, <2>4, Zenon
<1> HIDE DEF Claim
<1>5. Claim
  BY <1>3, <1>4, ModeLines
<1> QED
  BY <1>5 DEF Claim

-----------------------------------------------------------------------------
(* The elements of a sequence, and sequences of one, two and three. *)
LEMMA Elements ==
  ASSUME NEW S, NEW s \in Seq(S)
  PROVE  Len(s) \in Nat /\ DOMAIN s = 1 .. Len(s) /\ \A n \in 1 .. Len(s) : s[n] \in S
OBVIOUS

LEMMA Pairs ==
  ASSUME NEW S, NEW a \in S, NEW b \in S
  PROVE  /\ <<a, b>> \in Seq(S) /\ Len(<<a, b>>) = 2
         /\ \A n \in 1 .. Len(<<a, b>>) : <<a, b>>[n] \in {a, b}
<1>1. <<a, b>> \in Seq(S) /\ Len(<<a, b>>) = 2 /\ <<a, b>>[1] = a /\ <<a, b>>[2] = b
  OBVIOUS
<1>2. \A n \in 1 .. 2 : n = 1 \/ n = 2
  OBVIOUS
<1> QED
  BY <1>1, <1>2

(* A sequence that stays where it is. *)
LEMMA Stays ==
  ASSUME NEW S, NEW step, NEW s \in S, NEW L, NEW lines \in Seq(L),
         \A n \in 1 .. Len(lines) : step[<<s, lines[n]>>] = s
  PROVE  RunsTo(step, S, s, lines, s)
<1> DEFINE N == Len(lines)
           h == [n \in 0 .. N |-> s]
<1>1. N \in Nat
  OBVIOUS
<1> HIDE DEF N
<1>2. /\ h \in [0 .. N -> S] /\ h[0] = s /\ h[N] = s
      /\ \A n \in 1 .. N : h[n] = s /\ h[n - 1] = s
  BY <1>1
<1> HIDE DEF h
<1>3. \A n \in 1 .. N : h[n] = step[<<h[n - 1], lines[n]>>]
  BY <1>2 DEF N
<1> QED
  BY <1>2, <1>3 DEF RunsTo, N

(* Lines that change nothing. *)
LEMMA ParseSame ==
  ASSUME NEW F \in Seq(PatchFile), NEW f \in PatchFile, NEW lines \in Seq(PatchLine),
         \A n \in 1 .. Len(lines) :
           lines[n].start \notin {"diff --git", "@@"} /\ extendedLine(f, lines[n]) = f
  PROVE  RunsTo(ParseStep, ParseState, Before(F, f), lines, Before(F, f))
<1> DEFINE s == Before(F, f)
<1>1. s \in ParseState
  BY AtTypes
<1>2. \A n \in 1 .. Len(lines) : lines[n] \in PatchLine
  BY Elements
<1>3. \A n \in 1 .. Len(lines) : ParseStep[<<s, lines[n]>>] = s
  BY <1>2, ReadsBefore
<1> HIDE DEF s
<1>4. RunsTo(ParseStep, ParseState, s, lines, s)
  BY <1>1, <1>3, Stays
<1> QED
  BY <1>4 DEF s

(* A line with a name. *)
LEMMA NameLines ==
  ASSUME NEW start \in Starts, NEW path \in Seq(Words)
  PROVE  LET line == Line(start, path, devNull, FALSE)
         IN line \in PatchLine /\ line.start = start /\ line.path = path /\ line.secret = FALSE
<1>1. devNull \in Texts
  BY PathsAreNames
<1> QED
  BY <1>1 DEF Line, PatchLine

(* The lines of a rename. *)
LEMMA RenameLines ==
  ASSUME NEW c, ChangeOK(c)
  PROVE  /\ renameLines(c) \in Seq(PatchLine)
         /\ \A n \in 1 .. Len(renameLines(c)) :
              /\ renameLines(c)[n].secret = FALSE
              /\ \/ renameLines(c)[n].start = "rename from" /\ renameLines(c)[n].path = fromOf(c)
                 \/ renameLines(c)[n].start = "rename to" /\ renameLines(c)[n].path = named(c)
<1> DEFINE Renames(line) == /\ line.secret = FALSE
                           /\ \/ line.start = "rename from" /\ line.path = fromOf(c)
                              \/ line.start = "rename to" /\ line.path = named(c)
<1>1. c.old \in Seq(Words) /\ c.new \in Seq(Words)
  BY DEF ChangeOK
<1>2. CASE c.old = c.new \/ devNull \in {c.old, c.new}
  <2>1. renameLines(c) = <<>>
    BY <1>2 DEF renameLines
  <2> QED
    BY <2>1
<1>3. CASE ~(c.old = c.new \/ devNull \in {c.old, c.new})
  <2> DEFINE a == Line("rename from", c.old, devNull, FALSE)
             b == Line("rename to", c.new, devNull, FALSE)
  <2>1. renameLines(c) = <<a, b>>
    BY <1>3, Zenon DEF renameLines
  <2>2. "rename from" \in Starts /\ "rename to" \in Starts
    BY DEF Starts
  <2>3. a \in PatchLine /\ a.start = "rename from" /\ a.path = c.old /\ a.secret = FALSE
    BY <1>1, <2>2, NameLines
  <2>4. b \in PatchLine /\ b.start = "rename to" /\ b.path = c.new /\ b.secret = FALSE
    BY <1>1, <2>2, NameLines
  <2>5. fromOf(c) = c.old /\ named(c) = c.new
    BY <1>3 DEF fromOf, named
  <2> HIDE DEF a, b
  <2>6. Renames(a) /\ Renames(b)
    BY <2>3, <2>4, <2>5
  <2>7. <<a, b>> \in Seq(PatchLine) /\ \A n \in 1 .. Len(<<a, b>>) : <<a, b>>[n] \in {a, b}
    BY <2>3, <2>4, Pairs
  <2> HIDE DEF Renames
  <2>8. \A n \in 1 .. Len(renameLines(c)) : Renames(renameLines(c)[n])
    BY <2>1, <2>6, <2>7
  <2> QED
    BY <2>1, <2>7, <2>8 DEF Renames
<1> QED
  BY <1>2, <1>3

(* They change nothing. *)
LEMMA ParseRename ==
  ASSUME NEW c, ChangeOK(c), Verbatim(c), NEW F \in Seq(PatchFile), NEW m \in Names
  PROVE  RunsTo(ParseStep, ParseState, Before(F, PlainFile(c, m)), renameLines(c),
                Before(F, PlainFile(c, m)))
<1> DEFINE f == PlainFile(c, m)
<1>1. renameLines(c) \in Seq(PatchLine) /\ f \in PatchFile
  BY RenameLines, PlainTypes
<1>2. \A n \in 1 .. Len(renameLines(c)) :
        renameLines(c)[n].start \notin {"diff --git", "@@"} /\ extendedLine(f, renameLines(c)[n]) = f
  <2> SUFFICES ASSUME NEW n \in 1 .. Len(renameLines(c))
               PROVE  NamesAgain(c, renameLines(c)[n])
    BY NamedAgain
  <2>1. unquote(named(c)) = named(c) /\ unquote(fromOf(c)) = fromOf(c)
    BY VerbatimNames
  <2>2. renameLines(c)[n] \in PatchLine
    BY <1>1, Elements
  <2> QED
    BY <2>1, <2>2, RenameLines DEF NamesAgain
<1> HIDE DEF f
<1>3. RunsTo(ParseStep, ParseState, Before(F, f), renameLines(c), Before(F, f))
  BY <1>1, <1>2, ParseSame
<1> QED
  BY <1>3 DEF f

-----------------------------------------------------------------------------
(* How many of the first lines of a hunk have a sign. *)
signed(c, sign, n) == {k \in 1 .. n : c.body[k].sign = sign}
signs(c, sign, n) == Cardinality(signed(c, sign, n))

LEMMA SignsCounted ==
  ASSUME NEW c, NEW sign
  PROVE  /\ signs(c, sign, 0) = 0
         /\ \A n \in Nat : signs(c, sign, n) \in Nat
         /\ \A n \in Nat \ {0} :
              signs(c, sign, n) = IF c.body[n].sign = sign THEN signs(c, sign, n - 1) + 1
                                  ELSE signs(c, sign, n - 1)
<1>1. ASSUME NEW n \in Nat PROVE IsFiniteSet(signed(c, sign, n)) /\ signs(c, sign, n) \in Nat
  <2>1. IsFiniteSet(1 .. n)
    BY FS_Interval
  <2>2. signed(c, sign, n) \subseteq 1 .. n
    BY DEF signed
  <2>3. IsFiniteSet(signed(c, sign, n))
    BY <2>1, <2>2, FS_Subset
  <2> QED
    BY <2>3, FS_CardinalityType DEF signs
<1>2. signs(c, sign, 0) = 0
  <2>1. signed(c, sign, 0) = {}
    BY DEF signed
  <2> QED
    BY <2>1, FS_EmptySet DEF signs
<1>3. ASSUME NEW n \in Nat \ {0}
      PROVE  signs(c, sign, n) = IF c.body[n].sign = sign THEN signs(c, sign, n - 1) + 1
                                 ELSE signs(c, sign, n - 1)
  <2>0. n - 1 \in Nat /\ n \notin 1 .. (n - 1) /\ n \in 1 .. n
    OBVIOUS
  <2>1. CASE c.body[n].sign = sign
    <3>1. signed(c, sign, n) = signed(c, sign, n - 1) \cup {n}
      BY <2>1 DEF signed
    <3>2. n \notin signed(c, sign, n - 1)
      BY <2>0 DEF signed
    <3>3. IsFiniteSet(signed(c, sign, n - 1))
      BY <1>1, <2>0
    <3>4. Cardinality(signed(c, sign, n - 1) \cup {n}) = Cardinality(signed(c, sign, n - 1)) + 1
      BY <3>2, <3>3, FS_AddElement
    <3> QED
      BY <2>1, <3>1, <3>4 DEF signs
  <2>2. CASE c.body[n].sign # sign
    <3>1. signed(c, sign, n) = signed(c, sign, n - 1)
      BY <2>2 DEF signed
    <3> QED
      BY <2>2, <3>1 DEF signs
  <2> QED
    BY <2>1, <2>2
<1> QED
  BY <1>1, <1>2, <1>3

(* Every line of a hunk is one or the other. *)
LEMMA SignsPartition ==
  ASSUME NEW c, ChangeOK(c)
  PROVE  signs(c, "+", Len(c.body)) + signs(c, "-", Len(c.body)) = Len(c.body)
<1> DEFINE N == Len(c.body)
           T == {n \in 0 .. N : signs(c, "+", n) + signs(c, "-", n) = n}
<1>0. N \in Nat /\ \A n \in 1 .. N : c.body[n].sign \in {"+", "-"}
  <2> DEFINE Contents == [sign : {"+", "-"}, text : {"plain", "secret", "marker"}]
  <2>1. c.body \in Seq(Contents)
    BY DEF ChangeOK
  <2>2. \A x \in Contents : x.sign \in {"+", "-"}
    OBVIOUS
  <2> HIDE DEF Contents
  <2> QED
    BY <2>1, <2>2, Elements
<1> HIDE DEF N
<1>1. 0 \in T
  BY <1>0, SignsCounted
<1>2. \A n \in 1 .. N : n - 1 \in T => n \in T
  <2> SUFFICES ASSUME NEW n \in 1 .. N, n - 1 \in T PROVE n \in T
    OBVIOUS
  <2> DEFINE p(k) == signs(c, "+", k)
             m(k) == signs(c, "-", k)
  <2>1. n \in Nat \ {0} /\ n - 1 \in Nat /\ n \in 0 .. N
    BY <1>0
  <2>2. /\ p(n) = IF c.body[n].sign = "+" THEN p(n - 1) + 1 ELSE p(n - 1)
        /\ m(n) = IF c.body[n].sign = "-" THEN m(n - 1) + 1 ELSE m(n - 1)
        /\ p(n - 1) \in Nat /\ m(n - 1) \in Nat
    BY <2>1, SignsCounted
  <2>3. p(n - 1) + m(n - 1) = n - 1
    OBVIOUS
  <2>4. \/ c.body[n].sign = "+" /\ c.body[n].sign # "-"
        \/ c.body[n].sign = "-" /\ c.body[n].sign # "+"
    BY <1>0
  <2>5. p(n) + m(n) = n
    <3> HIDE DEF p, m
    <3> QED
      BY <2>1, <2>2, <2>3, <2>4
  <2> QED
    BY <2>1, <2>5
<1>3. N \in T
  <2> HIDE DEF T
  <2>1. N \in 0 .. N
    BY <1>0
  <2> QED
    BY <2>1, <1>0, <1>1, <1>2, Counting
<1> QED
  BY <1>3 DEF N

(* The file of a change with lines counted. *)
TextFile(c, a, d, m) == FileOf(c, a, d, FALSE, m)

LEMMA TextTypes ==
  ASSUME NEW c, ChangeOK(c), NEW m \in Names
  PROVE  \A a \in Nat, d \in Nat : TextFile(c, a, d, m) \in PatchFile
<1>1. \A a \in Nat, d \in Nat, b \in BOOLEAN : FileOf(c, a, d, b, m) \in PatchFile
  BY FileOfTypes
<1> QED
  BY <1>1, Zenon DEF TextFile

LEMMA TextReads ==
  ASSUME NEW c, ChangeOK(c), NEW a \in Nat, NEW d \in Nat, NEW m \in Names, NEW line
  PROVE  /\ TextFile(c, a, d, m) \in PatchFile
         /\ TextFile(c, 0, 0, m) = PlainFile(c, m)
         /\ startsWithPlus(line) => hunkLine(TextFile(c, a, d, m), line) = TextFile(c, a + 1, d, m)
         /\ ~startsWithPlus(line) /\ startsWithMinus(line) =>
              hunkLine(TextFile(c, a, d, m), line) = TextFile(c, a, d + 1, m)
<1>1. ASSUME NEW b
      PROVE  /\ [FileOf(c, a, d, b, m) EXCEPT !.added = @ + 1] = FileOf(c, a + 1, d, b, m)
             /\ [FileOf(c, a, d, b, m) EXCEPT !.deleted = @ + 1] = FileOf(c, a, d + 1, b, m)
  BY DEF FileOf
<1> DEFINE f == TextFile(c, a, d, m)
<1>2. /\ [f EXCEPT !.added = @ + 1] = TextFile(c, a + 1, d, m)
      /\ [f EXCEPT !.deleted = @ + 1] = TextFile(c, a, d + 1, m)
  BY <1>1, Zenon DEF TextFile
<1>3. f \in PatchFile
  BY TextTypes
<1>4. TextFile(c, 0, 0, m) = PlainFile(c, m)
  BY Zenon DEF TextFile, PlainFile
<1> HIDE DEF f
<1>5. startsWithPlus(line) => hunkLine(f, line) = TextFile(c, a + 1, d, m)
  <2>1. startsWithPlus(line) => ~startsWithMinus(line)
    BY DEF startsWithPlus, startsWithMinus
  <2> QED
    BY <1>2, <2>1, Zenon DEF hunkLine
<1>6. ~startsWithPlus(line) /\ startsWithMinus(line) => hunkLine(f, line) = TextFile(c, a, d + 1, m)
  BY <1>2, Zenon DEF hunkLine
<1> QED
  BY <1>3, <1>4, <1>5, <1>6 DEF f

(* The lines of a hunk are counted. *)
LEMMA ParseHunk ==
  ASSUME NEW c, ChangeOK(c), NEW F \in Seq(PatchFile), NEW m \in Names
  PROVE  RunsTo(ParseStep, ParseState, Inside(F, PlainFile(c, m)), hunkOf(c),
                Inside(F, TextFile(c, signs(c, "+", Len(c.body)), signs(c, "-", Len(c.body)), m)))
<1> DEFINE N == Len(c.body)
           at(n) == TextFile(c, signs(c, "+", n), signs(c, "-", n), m)
           h == [n \in 0 .. N |-> Inside(F, at(n))]
<1>0. /\ N \in Nat /\ hunkOf(c) \in Seq(PatchLine) /\ Len(hunkOf(c)) = N
      /\ \A n \in 1 .. N :
           /\ c.body[n] \in [sign : {"+", "-"}, text : {"plain", "secret", "marker"}]
           /\ hunkOf(c)[n] = lineOf(c.body[n])
  <2>1. N \in Nat
    BY Elements DEF ChangeOK
  <2> QED
    BY <2>1, HunkTypes
<1>1. \A n \in 0 .. N : at(n) \in PatchFile
  <2> SUFFICES ASSUME NEW n \in 0 .. N PROVE at(n) \in PatchFile
    OBVIOUS
  <2>0. n \in Nat
    BY <1>0
  <2>1. signs(c, "+", n) \in Nat /\ signs(c, "-", n) \in Nat
    BY <2>0, SignsCounted, Zenon
  <2>2. \A a \in Nat, d \in Nat : TextFile(c, a, d, m) \in PatchFile
    BY TextTypes
  <2> QED
    BY <2>1, <2>2
<1>2. at(0) = PlainFile(c, m)
  <2>1. signs(c, "+", 0) = 0 /\ signs(c, "-", 0) = 0
    BY SignsCounted
  <2> QED
    BY <2>1, Zenon DEF TextFile, PlainFile
<1>3. ASSUME NEW n \in 1 .. N
      PROVE  ParseStep[<<Inside(F, at(n - 1)), hunkOf(c)[n]>>] = Inside(F, at(n))
  <2> DEFINE line == hunkOf(c)[n]
             p == signs(c, "+", n - 1)
             d == signs(c, "-", n - 1)
  <2>1. n \in Nat \ {0} /\ n - 1 \in Nat /\ n - 1 \in 0 .. N
    BY <1>0
  <2>2. /\ line \in PatchLine /\ line.start \notin {"diff --git", "@@"}
        /\ startsWithPlus(line) <=> c.body[n].sign = "+"
        /\ startsWithMinus(line) <=> c.body[n].sign = "-"
        /\ c.body[n].sign \in {"+", "-"}
    BY <1>0, LineOfTypes
  <2>3. /\ p \in Nat /\ d \in Nat
        /\ signs(c, "+", n) = IF c.body[n].sign = "+" THEN p + 1 ELSE p
        /\ signs(c, "-", n) = IF c.body[n].sign = "-" THEN d + 1 ELSE d
    BY <2>1, SignsCounted
  <2>4. at(n - 1) = TextFile(c, p, d, m) /\ at(n - 1) \in PatchFile
    BY <1>1, <2>1
  <2> HIDE DEF line, p, d
  <2>5. ParseStep[<<Inside(F, at(n - 1)), line>>] = Inside(F, hunkLine(at(n - 1), line))
    <3> HIDE DEF at
    <3> QED
      BY <2>2, <2>4, ReadsInside
  <2>6. hunkLine(at(n - 1), line) = at(n)
    <3>1. CASE c.body[n].sign = "+"
      <4>1. signs(c, "+", n) = p + 1 /\ signs(c, "-", n) = d /\ startsWithPlus(line)
        BY <2>2, <2>3, <3>1
      <4>2. hunkLine(TextFile(c, p, d, m), line) = TextFile(c, p + 1, d, m)
        BY <2>3, <4>1, TextReads
      <4> QED
        BY <2>4, <4>1, <4>2
    <3>2. CASE c.body[n].sign = "-"
      <4>1. signs(c, "+", n) = p /\ signs(c, "-", n) = d + 1
            /\ ~startsWithPlus(line) /\ startsWithMinus(line)
        BY <2>2, <2>3, <3>2
      <4>2. hunkLine(TextFile(c, p, d, m), line) = TextFile(c, p, d + 1, m)
        BY <2>3, <4>1, TextReads
      <4> QED
        BY <2>4, <4>1, <4>2
    <3> QED
      BY <2>2, <3>1, <3>2
  <2> QED
    BY <2>5, <2>6 DEF line
<1> HIDE DEF at
<1>4. h \in [0 .. N -> ParseState]
  <2>1. \A n \in 0 .. N : Inside(F, at(n)) \in ParseState
    BY <1>1, AtTypes
  <2> QED
    BY <2>1
<1>5. /\ h[0] = Inside(F, at(0)) /\ h[N] = Inside(F, at(N))
      /\ \A n \in 1 .. N : h[n] = Inside(F, at(n)) /\ h[n - 1] = Inside(F, at(n - 1))
  BY <1>0
<1> HIDE DEF h
<1>6. \A n \in 1 .. N : h[n] = ParseStep[<<h[n - 1], hunkOf(c)[n]>>]
  BY <1>3, <1>5
<1> HIDE DEF N
<1>7. RunsTo(ParseStep, ParseState, Inside(F, at(0)), hunkOf(c), Inside(F, at(N)))
  BY <1>0, <1>4, <1>5, <1>6 DEF RunsTo
<1> QED
  BY <1>2, <1>7 DEF at, N

-----------------------------------------------------------------------------
(* The file that parsePatch makes of a change, before it drops equal names. *)
rawOf(c) ==
  FileOf(c, signs(c, "+", Len(c.body)), signs(c, "-", Len(c.body)), c.binary, modeOf(c))

(* Short sequences, put together. *)
LEMMA Singles ==
  ASSUME NEW S, NEW a \in S
  PROVE  <<a>> \in Seq(S)
OBVIOUS

LEMMA ShortConcat ==
  ASSUME NEW S, NEW a \in S, NEW b \in S, NEW e \in S
  PROVE  <<a>> \o <<b>> = <<a, b>> /\ (<<a>> \o <<b>>) \o <<e>> = <<a, b, e>>
<1> DEFINE p == <<a>>
           q == <<b>>
           r == <<e>>
           pq == <<a, b>>
           pqr == <<a, b, e>>
<1>1. /\ p \in Seq(S) /\ Len(p) = 1 /\ p[1] = a
      /\ q \in Seq(S) /\ Len(q) = 1 /\ q[1] = b
      /\ r \in Seq(S) /\ Len(r) = 1 /\ r[1] = e
      /\ pq \in Seq(S) /\ Len(pq) = 2 /\ pq[1] = a /\ pq[2] = b
      /\ pqr \in Seq(S) /\ Len(pqr) = 3 /\ pqr[1] = a /\ pqr[2] = b /\ pqr[3] = e
  OBVIOUS
<1> HIDE DEF p, q, r, pq, pqr
<1>2. p \o q = pq
  <2>0. /\ p \o q \in Seq(S) /\ Len(p \o q) = Len(p) + Len(q)
        /\ \A i \in 1 .. Len(p) + Len(q) :
             (p \o q)[i] = IF i <= Len(p) THEN p[i] ELSE q[i - Len(p)]
    BY <1>1, ConcatProperties
  <2>1. p \o q \in Seq(S) /\ Len(p \o q) = 2 /\ (p \o q)[1] = a /\ (p \o q)[2] = b
    BY <1>1, <2>0
  <2>2. \A i \in 1 .. 2 : i = 1 \/ i = 2
    OBVIOUS
  <2>3. \A i \in 1 .. 2 : (p \o q)[i] = pq[i]
    BY <1>1, <2>1, <2>2
  <2> QED
    BY <1>1, <2>1, <2>3, SeqEqual
<1>3. pq \o r = pqr
  <2>0. /\ pq \o r \in Seq(S) /\ Len(pq \o r) = Len(pq) + Len(r)
        /\ \A i \in 1 .. Len(pq) + Len(r) :
             (pq \o r)[i] = IF i <= Len(pq) THEN pq[i] ELSE r[i - Len(pq)]
    BY <1>1, ConcatProperties
  <2>1. pq \o r \in Seq(S) /\ Len(pq \o r) = 3
        /\ (pq \o r)[1] = a /\ (pq \o r)[2] = b /\ (pq \o r)[3] = e
    BY <1>1, <2>0
  <2>2. \A i \in 1 .. 3 : i = 1 \/ i = 2 \/ i = 3
    OBVIOUS
  <2>3. \A i \in 1 .. 3 : (pq \o r)[i] = pqr[i]
    BY <1>1, <2>1, <2>2
  <2> QED
    BY <1>1, <2>1, <2>3, SeqEqual
<1> QED
  BY <1>2, <1>3 DEF p, q, r, pq, pqr

(* The lines in front of a hunk. *)
LEMMA ToHunk ==
  ASSUME NEW c, ChangeOK(c), Verbatim(c), NEW F \in Seq(PatchFile), NEW m \in Names,
         NEW lines, lines = <<Line("---", tabbed(c.old), devNull, FALSE),
                              Line("+++", tabbed(c.new), devNull, FALSE), Bare("@@")>>
  PROVE  /\ lines \in Seq(PatchLine)
         /\ RunsTo(ParseStep, ParseState, Before(F, PlainFile(c, m)), lines, Inside(F, PlainFile(c, m)))
<1> DEFINE a == Line("---", c.old, devNull, FALSE)
           b == Line("+++", c.new, devNull, FALSE)
           e == Bare("@@")
           f == PlainFile(c, m)
<1>1. c.old \in Seq(Words) /\ c.new \in Seq(Words) /\ tabbed(c.old) = c.old /\ tabbed(c.new) = c.new
  <2>1. ~spaced(c.old) /\ ~spaced(c.new)
    BY VerbatimNames
  <2> QED
    BY <2>1 DEF ChangeOK, tabbed
<1>2. "---" \in Starts /\ "+++" \in Starts /\ "@@" \in Starts
  BY DEF Starts
<1>3. a \in PatchLine /\ a.start = "---" /\ a.path = c.old /\ a.secret = FALSE
  BY <1>1, <1>2, NameLines
<1>4. b \in PatchLine /\ b.start = "+++" /\ b.path = c.new /\ b.secret = FALSE
  BY <1>1, <1>2, NameLines
<1>5. e \in PatchLine /\ e.start = "@@"
  BY <1>2, BareTypes
<1>6. /\ c.old = devNull \/ unquote(c.old) = fromOf(c)
      /\ c.new = devNull \/ unquote(c.new) = named(c)
  <2>1. unquote(c.old) = c.old /\ unquote(c.new) = c.new
    BY VerbatimNames
  <2> QED
    BY <2>1 DEF fromOf, named
<1>7. f \in PatchFile
  BY PlainTypes
<1>8. lines = <<a, b, e>>
  BY <1>1, Zenon
<1> HIDE DEF a, b, e
<1>9. NamesAgain(c, a) /\ NamesAgain(c, b)
  BY <1>3, <1>4, <1>6 DEF NamesAgain
<1>10. /\ a.start \notin {"diff --git", "@@"} /\ extendedLine(f, a) = f
       /\ b.start \notin {"diff --git", "@@"} /\ extendedLine(f, b) = f
  BY <1>9, NamedAgain
<1> HIDE DEF f
<1>11. RunsTo(ParseStep, ParseState, Before(F, f), <<a>>, Before(F, f))
  BY <1>3, <1>7, <1>10, ParseOne
<1>12. RunsTo(ParseStep, ParseState, Before(F, f), <<b>>, Before(F, f))
  BY <1>4, <1>7, <1>10, ParseOne
<1>13. RunsTo(ParseStep, ParseState, Before(F, f), <<e>>, Inside(F, f))
  <2>1. ParseStep[<<Before(F, f), e>>] = Inside(F, f)
    BY <1>5, <1>7, ReadsBefore
  <2>2. Before(F, f) \in ParseState
    BY <1>7, AtTypes
  <2>3. ParseStep \in [ParseState \X PatchLine -> ParseState]
    BY LineParsed DEF ParseStep
  <2>4. RunsTo(ParseStep, ParseState, Before(F, f), <<e>>, ParseStep[<<Before(F, f), e>>])
    BY <1>5, <2>2, <2>3, RunsOne
  <2> QED
    BY <2>1, <2>4
<1>14. <<a>> \in Seq(PatchLine) /\ <<b>> \in Seq(PatchLine) /\ <<e>> \in Seq(PatchLine)
  BY <1>3, <1>4, <1>5
<1>15. /\ <<a>> \o <<b>> \in Seq(PatchLine)
       /\ RunsTo(ParseStep, ParseState, Before(F, f), <<a>> \o <<b>>, Before(F, f))
  BY <1>11, <1>12, <1>14, ParseBoth
<1>16. /\ (<<a>> \o <<b>>) \o <<e>> \in Seq(PatchLine)
       /\ RunsTo(ParseStep, ParseState, Before(F, f), (<<a>> \o <<b>>) \o <<e>>, Inside(F, f))
  BY <1>13, <1>14, <1>15, ParseBoth
<1>17. (<<a>> \o <<b>>) \o <<e>> = <<a, b, e>>
  BY <1>3, <1>4, <1>5, ShortConcat
<1> QED
  BY <1>8, <1>16, <1>17, Zenon DEF f

(* No lines are counted where there are none. *)
LEMMA NoSigns ==
  ASSUME NEW c, c.body = <<>>
  PROVE  signs(c, "+", Len(c.body)) = 0 /\ signs(c, "-", Len(c.body)) = 0
<1>1. Len(c.body) = 0
  <2>1. Len(<<>>) = 0
    OBVIOUS
  <2> QED
    BY <2>1, Zenon
<1> QED
  BY <1>1, SignsCounted, Zenon

(* The lines of the content. *)
LEMMA ParseBody ==
  ASSUME NEW c, ChangeOK(c), Verbatim(c), NEW F \in Seq(PatchFile)
  PROVE  /\ bodyLines(c) \in Seq(PatchLine)
         /\ \E in \in BOOLEAN :
              RunsTo(ParseStep, ParseState, Before(F, PlainFile(c, modeOf(c))), bodyLines(c),
                     ParseAt(F, rawOf(c), in))
<1> DEFINE m == modeOf(c)
           f == PlainFile(c, m)
           Claim == /\ bodyLines(c) \in Seq(PatchLine)
                    /\ \E in \in BOOLEAN :
                         RunsTo(ParseStep, ParseState, Before(F, f), bodyLines(c),
                                ParseAt(F, rawOf(c), in))
<1>0. m \in Names /\ c.binary \in BOOLEAN /\ (c.binary => c.body = <<>>)
  BY ModeLines DEF ChangeOK
<1>1. f \in PatchFile
  BY <1>0, PlainTypes
<1>2. ASSUME c.binary PROVE Claim
  <2> DEFINE a == Bare("GIT binary patch")
             b == Bare("base85")
             g == BinaryFile(c, m)
  <2>1. "GIT binary patch" \in Starts /\ "base85" \in Starts
    BY DEF Starts
  <2>2. a \in PatchLine /\ a.start = "GIT binary patch" /\ b \in PatchLine /\ b.start = "base85"
    BY <2>1, BareTypes
  <2>3. bodyLines(c) = <<a, b>>
    BY <1>2, Zenon DEF bodyLines
  <2>4. rawOf(c) = g
    <3>1. c.binary = TRUE
      BY <1>0, <1>2, Zenon
    <3>2. signs(c, "+", Len(c.body)) = 0 /\ signs(c, "-", Len(c.body)) = 0
      BY <1>0, <1>2, NoSigns
    <3> QED
      BY <3>1, <3>2, Zenon DEF rawOf, BinaryFile
  <2>5. g \in PatchFile
    BY <1>0, PlainTypes
  <2> HIDE DEF a, b
  <2>6. g = extendedLine(f, a) /\ g = extendedLine(g, b)
    BY <2>2, PlainReads
  <2> HIDE DEF g, f
  <2>7. RunsTo(ParseStep, ParseState, Before(F, f), <<a>>, Before(F, g))
    BY <1>1, <2>2, <2>6, ParseOne
  <2>8. RunsTo(ParseStep, ParseState, Before(F, g), <<b>>, Before(F, g))
    BY <2>5, <2>2, <2>6, ParseOne
  <2>9. <<a>> \in Seq(PatchLine) /\ <<b>> \in Seq(PatchLine) /\ <<a>> \o <<b>> = <<a, b>>
    <3>1. <<a>> \in Seq(PatchLine)
      BY <2>2, Singles, Zenon
    <3>2. <<b>> \in Seq(PatchLine)
      BY <2>2, Singles, Zenon
    <3>3. <<a>> \o <<b>> = <<a, b>>
      BY <2>2, ShortConcat
    <3> QED
      BY <3>1, <3>2, <3>3
  <2>10. /\ <<a>> \o <<b>> \in Seq(PatchLine)
         /\ RunsTo(ParseStep, ParseState, Before(F, f), <<a>> \o <<b>>, Before(F, g))
    BY <2>7, <2>8, <2>9, ParseBoth
  <2>11. Before(F, g) = ParseAt(F, rawOf(c), FALSE)
    BY <2>4, Zenon DEF Before
  <2> QED
    BY <2>3, <2>9, <2>10, <2>11, Zenon
<1>3. ASSUME ~c.binary, c.body = <<>> PROVE Claim
  <2>1. bodyLines(c) = <<>>
    BY <1>3, Zenon DEF bodyLines
  <2>2. rawOf(c) = f
    <3>1. c.binary = FALSE
      BY <1>0, <1>3, Zenon
    <3>2. signs(c, "+", Len(c.body)) = 0 /\ signs(c, "-", Len(c.body)) = 0
      BY <1>3, NoSigns
    <3> QED
      BY <3>1, <3>2, Zenon DEF rawOf, PlainFile
  <2> HIDE DEF f
  <2>3. RunsTo(ParseStep, ParseState, Before(F, f), <<>>, Before(F, f)) /\ <<>> \in Seq(PatchLine)
    BY <1>1, AtTypes, ParseNone
  <2>4. Before(F, f) = ParseAt(F, rawOf(c), FALSE)
    BY <2>2, Zenon DEF Before
  <2> QED
    BY <2>1, <2>3, <2>4, Zenon
<1>4. ASSUME ~c.binary, c.body # <<>> PROVE Claim
  <2> DEFINE lines == <<Line("---", tabbed(c.old), devNull, FALSE),
                        Line("+++", tabbed(c.new), devNull, FALSE), Bare("@@")>>
             g == TextFile(c, signs(c, "+", Len(c.body)), signs(c, "-", Len(c.body)), m)
  <2>1. bodyLines(c) = lines \o hunkOf(c)
    BY <1>4, Zenon DEF bodyLines, hunkOf
  <2>2. rawOf(c) = g
    <3>1. c.binary = FALSE
      BY <1>0, <1>4, Zenon
    <3> QED
      BY <3>1, Zenon DEF rawOf, TextFile
  <2>3. /\ lines \in Seq(PatchLine)
        /\ RunsTo(ParseStep, ParseState, Before(F, f), lines, Inside(F, f))
    BY <1>0, ToHunk
  <2> HIDE DEF lines
  <2>4. RunsTo(ParseStep, ParseState, Inside(F, f), hunkOf(c), Inside(F, g))
    BY <1>0, ParseHunk
  <2>5. hunkOf(c) \in Seq(PatchLine)
    BY HunkTypes
  <2> HIDE DEF g, f
  <2>6. /\ lines \o hunkOf(c) \in Seq(PatchLine)
        /\ RunsTo(ParseStep, ParseState, Before(F, f), lines \o hunkOf(c), Inside(F, g))
    BY <2>3, <2>4, <2>5, ParseBoth
  <2>7. Inside(F, g) = ParseAt(F, rawOf(c), TRUE)
    BY <2>2, Zenon DEF Inside
  <2> QED
    BY <2>1, <2>6, <2>7, Zenon
<1>5. Claim
  <2> HIDE DEF Claim
  <2> QED
    BY <1>2, <1>3, <1>4, Zenon
<1> QED
  BY <1>5, Zenon

-----------------------------------------------------------------------------
(* checkPatch's second loop at a line of a file, with what it found. *)
ScanAt(file, in, found) == [file |-> file, inHunk |-> in, found |-> found]

Finds == SUBSET (Names \X {"secret"})

LEMMA ScanTypes ==
  /\ \A file \in Names, in \in BOOLEAN, found \in Finds : ScanAt(file, in, found) \in ScanState
  /\ \A file, in, found :
       /\ ScanAt(file, in, found).file = file /\ ScanAt(file, in, found).inHunk = in
       /\ ScanAt(file, in, found).found = found
<1> DEFINE S == Finds
<1>1. ScanState = [file : Names, inHunk : BOOLEAN, found : S]
  BY DEF ScanState, Finds
<1> HIDE DEF S
<1>2. \A file \in Names, in \in BOOLEAN, found \in S : ScanAt(file, in, found) \in ScanState
  BY <1>1 DEF ScanAt
<1>3. ASSUME NEW file, NEW in, NEW found
      PROVE  /\ ScanAt(file, in, found).file = file /\ ScanAt(file, in, found).inHunk = in
             /\ ScanAt(file, in, found).found = found
  BY Zenon DEF ScanAt
<1> QED
  BY <1>2, <1>3, Zenon DEF S

(* The fields that a line changes. *)
goneOn(s, in, found) == [s EXCEPT !.inHunk = in, !.found = found]
begun(s, file, in) == [s EXCEPT !.file = file, !.inHunk = in]

LEMMA ScanGoesOn ==
  \A file, in, found, x, y : goneOn(ScanAt(file, in, found), x, y) = ScanAt(file, x, y)
<1> SUFFICES ASSUME NEW file, NEW in, NEW found, NEW x, NEW y
             PROVE  goneOn(ScanAt(file, in, found), x, y) = ScanAt(file, x, y)
  BY Zenon
<1>0. goneOn(ScanAt(file, in, found), x, y) =
        [ScanAt(file, in, found) EXCEPT !.inHunk = x, !.found = y]
  BY Zenon DEF goneOn
<1>1. [ScanAt(file, in, found) EXCEPT !.inHunk = x] = ScanAt(file, x, found)
  BY DEF ScanAt
<1>2. [ScanAt(file, x, found) EXCEPT !.found = y] = ScanAt(file, x, y)
  BY DEF ScanAt
<1> QED
  BY <1>0, <1>1, <1>2, Zenon

LEMMA ScanBegins ==
  \A file, in, found, x, y : begun(ScanAt(file, in, found), x, y) = ScanAt(x, y, found)
<1> SUFFICES ASSUME NEW file, NEW in, NEW found, NEW x, NEW y
             PROVE  begun(ScanAt(file, in, found), x, y) = ScanAt(x, y, found)
  BY Zenon
<1>0. begun(ScanAt(file, in, found), x, y) =
        [ScanAt(file, in, found) EXCEPT !.file = x, !.inHunk = y]
  BY Zenon DEF begun
<1>1. [ScanAt(file, in, found) EXCEPT !.file = x] = ScanAt(x, in, found)
  BY DEF ScanAt
<1>2. [ScanAt(x, in, found) EXCEPT !.inHunk = y] = ScanAt(x, y, found)
  BY DEF ScanAt
<1> QED
  BY <1>0, <1>1, <1>2, Zenon

LEMMA ScanParts ==
  ASSUME NEW s \in ScanState
  PROVE  /\ s = ScanAt(s.file, s.inHunk, s.found)
         /\ s.file \in Names /\ s.inHunk \in BOOLEAN /\ s.found \in Finds
<1> DEFINE S == Finds
<1>1. ScanState = [file : Names, inHunk : BOOLEAN, found : S]
  BY DEF ScanState, Finds
<1> HIDE DEF S
<1> QED
  BY <1>1 DEF ScanAt, S

(* Whether a line is one of a hunk, and what is found in it. *)
within(in, line) == in \/ line.start = "@@"
foundWith(file, in, found, line) ==
  IF within(in, line) /\ startsWithPlus(line) /\ line.secret
  THEN found \cup {<<file, "secret">>} ELSE found

LEMMA ScanOther ==
  ASSUME NEW s, NEW line, line.start # "diff --git"
  PROVE  scanLine(s, line) =
           goneOn(s, within(s.inHunk, line), foundWith(s.file, s.inHunk, s.found, line))
BY Zenon DEF scanLine, within, foundWith, goneOn

(* What it makes of a line that is no header. *)
LEMMA ScanFields ==
  ASSUME NEW file, NEW in, NEW found, NEW s, s = ScanAt(file, in, found)
  PROVE  /\ s.file = file /\ s.inHunk = in /\ s.found = found
         /\ \A x, y : goneOn(s, x, y) = ScanAt(file, x, y)
<1>1. s.file = file /\ s.inHunk = in /\ s.found = found
  BY ScanTypes
<1>2. \A x, y : goneOn(s, x, y) = ScanAt(file, x, y)
  BY ScanGoesOn
<1> QED
  BY <1>1, <1>2

LEMMA ScanReads ==
  ASSUME NEW file, NEW in, NEW found, NEW s \in ScanState, s = ScanAt(file, in, found),
         NEW line \in PatchLine, line.start # "diff --git"
  PROVE  ScanStep[<<s, line>>] =
           ScanAt(file, within(in, line), foundWith(file, in, found, line))
<1>1. /\ s.file = file /\ s.inHunk = in /\ s.found = found
      /\ \A x, y : goneOn(s, x, y) = ScanAt(file, x, y)
  <2>1. s = ScanAt(file, in, found)
    OBVIOUS
  <2> QED
    BY ONLY <2>1, ScanFields
<1>2. ScanStep[<<s, line>>] = scanLine(s, line)
  BY DEF ScanStep
<1>4. scanLine(s, line) =
        goneOn(s, within(s.inHunk, line), foundWith(s.file, s.inHunk, s.found, line))
  BY ScanOther, Zenon
<1>5. goneOn(s, within(in, line), foundWith(file, in, found, line)) =
        ScanAt(file, within(in, line), foundWith(file, in, found, line))
  BY <1>1, Zenon
<1> QED
  BY <1>1, <1>2, <1>4, <1>5, Zenon

(* And of a header. *)
LEMMA ScanHead ==
  ASSUME NEW c, ChangeOK(c), NEW s \in ScanState
  PROVE  /\ headed(headLine(c)) \in Names
         /\ \A in : in = FALSE =>
              ScanStep[<<s, headLine(c)>>] = ScanAt(headed(headLine(c)), in, s.found)
<1> DEFINE line == headLine(c)
<1>1. line \in PatchLine /\ line.start = "diff --git"
  BY NamesOf
<1> HIDE DEF line
<1>2. scanLine(s, line) = begun(s, headed(line), FALSE)
  BY <1>1, Zenon DEF scanLine, begun
<1>3. \A x, y : begun(s, x, y) = ScanAt(x, y, s.found)
  <2>1. s = ScanAt(s.file, s.inHunk, s.found)
    BY ScanParts
  <2> QED
    BY <2>1, ScanBegins
<1>4. ScanStep[<<s, line>>] = scanLine(s, line)
  BY <1>1 DEF ScanStep
<1>5. scanLine(s, line) \in ScanState
  BY <1>1, LineScanned
<1>6. \A in : in = FALSE => ScanStep[<<s, line>>] = ScanAt(headed(line), in, s.found)
  BY <1>2, <1>3, <1>4, Zenon
<1>7. headed(line) \in Names
  <2>1. scanLine(s, line) = ScanAt(headed(line), FALSE, s.found)
    BY <1>4, <1>6, Zenon
  <2>2. scanLine(s, line).file = headed(line)
    BY <2>1 DEF ScanAt
  <2> QED
    BY <1>5, <2>2 DEF ScanState
<1> QED
  BY <1>6, <1>7 DEF line

(* Lines that are no header and hold no secret. *)
Quiet(line) == line.start # "diff --git" /\ line.secret = FALSE

(* Nothing is found in them. *)
LEMMA QuietReads ==
  ASSUME NEW file, NEW in, NEW found, NEW s \in ScanState, s = ScanAt(file, in, found),
         NEW line \in PatchLine, Quiet(line)
  PROVE  ScanStep[<<s, line>>] = ScanAt(file, within(in, line), found)
<1>1. foundWith(file, in, found, line) = found
  BY DEF foundWith, Quiet
<1>2. line.start # "diff --git"
  BY DEF Quiet
<1>3. ScanStep[<<s, line>>] = ScanAt(file, within(in, line), foundWith(file, in, found, line))
  BY <1>2, ScanReads
<1> QED
  BY <1>1, <1>3, Zenon

(* Whether the lines up to the nth open a hunk. *)
opened(in, lines, n) == in \/ \E k \in 1 .. n : lines[k].start = "@@"

LEMMA OpenedSteps ==
  ASSUME NEW in \in BOOLEAN, NEW lines
  PROVE  /\ opened(in, lines, 0) = in
         /\ \A n \in Nat : opened(in, lines, n) \in BOOLEAN
         /\ \A n \in Nat \ {0} : opened(in, lines, n) = within(opened(in, lines, n - 1), lines[n])
<1>1. \A n \in Nat : opened(in, lines, n) \in BOOLEAN
  BY Zenon DEF opened
<1>2. opened(in, lines, 0) <=> in
  BY DEF opened
<1>3. opened(in, lines, 0) \in BOOLEAN
  BY <1>1
<1>4. opened(in, lines, 0) = in
  BY <1>2, <1>3, Zenon
<1>5. ASSUME NEW n \in Nat \ {0}
      PROVE  opened(in, lines, n) = within(opened(in, lines, n - 1), lines[n])
  <2>1. 1 .. n = (1 .. (n - 1)) \cup {n}
    OBVIOUS
  <2> DEFINE a == opened(in, lines, n)
             b == within(opened(in, lines, n - 1), lines[n])
  <2>2. a <=> b
    BY <2>1, Zenon DEF opened, within
  <2>3. a \in BOOLEAN /\ b \in BOOLEAN
    BY Zenon DEF opened, within
  <2> HIDE DEF a, b
  <2>4. a = b
    BY <2>2, <2>3
  <2> QED
    BY <2>4 DEF a, b
<1> QED
  BY <1>1, <1>4, <1>5

LEMMA ScanQuiet ==
  ASSUME NEW file \in Names, NEW in \in BOOLEAN, NEW found \in Finds,
         NEW lines \in Seq(PatchLine), \A n \in 1 .. Len(lines) : Quiet(lines[n])
  PROVE  RunsTo(ScanStep, ScanState, ScanAt(file, in, found), lines,
                ScanAt(file, opened(in, lines, Len(lines)), found))
<1> DEFINE N == Len(lines)
           at(n) == opened(in, lines, n)
           h == [n \in 0 .. N |-> ScanAt(file, at(n), found)]
<1>0. N \in Nat /\ \A n \in 1 .. N : lines[n] \in PatchLine /\ Quiet(lines[n])
  BY Elements
<1>1. /\ at(0) = in /\ \A n \in Nat : at(n) \in BOOLEAN
      /\ \A n \in Nat \ {0} : at(n) = within(at(n - 1), lines[n])
  BY OpenedSteps, Zenon
<1> HIDE DEF at, N
<1>3. ASSUME NEW n \in 1 .. N
      PROVE  ScanStep[<<ScanAt(file, at(n - 1), found), lines[n]>>] = ScanAt(file, at(n), found)
  <2>1. n - 1 \in Nat /\ n \in Nat \ {0}
    BY <1>0
  <2>2. at(n - 1) \in BOOLEAN /\ at(n) = within(at(n - 1), lines[n])
    BY <1>1, <2>1
  <2>3. lines[n] \in PatchLine /\ Quiet(lines[n])
    BY <1>0
  <2>4. ScanAt(file, at(n - 1), found) \in ScanState
    BY <2>2, ScanTypes
  <2>5. ScanStep[<<ScanAt(file, at(n - 1), found), lines[n]>>] =
          ScanAt(file, within(at(n - 1), lines[n]), found)
    BY <2>3, <2>4, QuietReads
  <2> QED
    BY <2>2, <2>5, Zenon
<1>4. ASSUME NEW n \in 0 .. N PROVE ScanAt(file, at(n), found) \in ScanState
  <2>1. n \in Nat
    BY <1>0
  <2> QED
    BY <1>1, <2>1, ScanTypes
<1>6. h \in [0 .. N -> ScanState]
  BY <1>4
<1>7. /\ h[0] = ScanAt(file, in, found) /\ h[N] = ScanAt(file, at(N), found)
      /\ \A n \in 1 .. N : h[n] = ScanAt(file, at(n), found) /\ h[n - 1] = ScanAt(file, at(n - 1), found)
  BY <1>0, <1>1
<1> HIDE DEF h
<1>8. \A n \in 1 .. N : h[n] = ScanStep[<<h[n - 1], lines[n]>>]
  BY <1>3, <1>7
<1> QED
  BY <1>6, <1>7, <1>8 DEF RunsTo, N, at

-----------------------------------------------------------------------------
(* A secret in the nth line of the content, and what is found in the first n. *)
secretAt(c, n) == c.body[n].sign = "+" /\ c.body[n].text = "secret"
findsIn(file, c, n) == {<<file, "secret">> : k \in {k \in 1 .. n : secretAt(c, k)}}

(* One more line. *)
LEMMA FindsGrow ==
  ASSUME NEW file \in Names, NEW c, NEW found \in Finds
  PROVE  /\ found \cup findsIn(file, c, 0) = found
         /\ \A n \in Nat : found \cup findsIn(file, c, n) \in Finds
         /\ \A n \in Nat \ {0} :
              found \cup findsIn(file, c, n) =
                IF secretAt(c, n) THEN (found \cup findsIn(file, c, n - 1)) \cup {<<file, "secret">>}
                ELSE found \cup findsIn(file, c, n - 1)
<1>1. findsIn(file, c, 0) = {}
  BY DEF findsIn
<1>2. ASSUME NEW n \in Nat PROVE found \cup findsIn(file, c, n) \in Finds
  <2>1. findsIn(file, c, n) \subseteq {<<file, "secret">>}
    BY DEF findsIn
  <2>2. <<file, "secret">> \in Names \X {"secret"}
    OBVIOUS
  <2> QED
    BY <2>1, <2>2 DEF Finds
<1>3. ASSUME NEW n \in Nat \ {0}
      PROVE  findsIn(file, c, n) =
               IF secretAt(c, n) THEN findsIn(file, c, n - 1) \cup {<<file, "secret">>}
               ELSE findsIn(file, c, n - 1)
  <2>1. 1 .. n = (1 .. (n - 1)) \cup {n}
    OBVIOUS
  <2>2. {k \in 1 .. n : secretAt(c, k)} =
          {k \in 1 .. (n - 1) : secretAt(c, k)} \cup (IF secretAt(c, n) THEN {n} ELSE {})
    BY <2>1
  <2> QED
    BY <2>2 DEF findsIn
<1>4. ASSUME NEW n \in Nat \ {0}
      PROVE  found \cup findsIn(file, c, n) =
               IF secretAt(c, n) THEN (found \cup findsIn(file, c, n - 1)) \cup {<<file, "secret">>}
               ELSE found \cup findsIn(file, c, n - 1)
  <2> DEFINE x == findsIn(file, c, n)
             y == findsIn(file, c, n - 1)
  <2>1. x = IF secretAt(c, n) THEN y \cup {<<file, "secret">>} ELSE y
    BY <1>3
  <2> HIDE DEF x, y
  <2>2. found \cup x = IF secretAt(c, n) THEN (found \cup y) \cup {<<file, "secret">>} ELSE found \cup y
    BY <2>1
  <2> QED
    BY <2>2 DEF x, y
<1> QED
  BY <1>1, <1>2, <1>4

(* Within a hunk. *)
Opened(file, found) == ScanAt(file, TRUE, found)

(* A secret that is added by a line of a hunk. *)
tells(line) == startsWithPlus(line) /\ line.secret

LEMMA HunkTells ==
  ASSUME NEW c, ChangeOK(c), NEW n \in 1 .. Len(c.body)
  PROVE  /\ hunkOf(c)[n] \in PatchLine /\ hunkOf(c)[n].start \notin {"diff --git", "@@"}
         /\ tells(hunkOf(c)[n]) <=> secretAt(c, n)
<1>1. /\ c.body[n] \in [sign : {"+", "-"}, text : {"plain", "secret", "marker"}]
      /\ hunkOf(c)[n] = lineOf(c.body[n])
  BY HunkTypes
<1> DEFINE content == c.body[n]
<1>2. content \in [sign : {"+", "-"}, text : {"plain", "secret", "marker"}]
  BY <1>1
<1> HIDE DEF content
<1>3. /\ lineOf(content) \in PatchLine
      /\ lineOf(content).start \notin {"diff --git", "@@"}
      /\ startsWithPlus(lineOf(content)) /\ lineOf(content).secret
           <=> content.sign = "+" /\ content.text = "secret"
  BY <1>2, LineOfTypes
<1> DEFINE line == lineOf(content)
<1>4. hunkOf(c)[n] = line
  BY <1>1 DEF content
<1>5. tells(line) <=> secretAt(c, n)
  BY <1>3, Zenon DEF tells, secretAt, content
<1>6. line \in PatchLine /\ line.start \notin {"diff --git", "@@"}
  BY <1>3
<1> HIDE DEF line
<1> QED
  BY <1>4, <1>5, <1>6, Zenon

(* A line of a hunk. *)
LEMMA HunkScanned ==
  ASSUME NEW file \in Names, NEW found \in Finds, NEW line \in PatchLine,
         line.start \notin {"diff --git", "@@"}
  PROVE  /\ Opened(file, found) \in ScanState
         /\ tells(line) =>
              ScanStep[<<Opened(file, found), line>>] = Opened(file, found \cup {<<file, "secret">>})
         /\ ~tells(line) => ScanStep[<<Opened(file, found), line>>] = Opened(file, found)
<1> DEFINE more == IF tells(line) THEN found \cup {<<file, "secret">>} ELSE found
<1>1. \A in \in BOOLEAN : ScanAt(file, in, found) \in ScanState
  BY ScanTypes
<1>2. Opened(file, found) \in ScanState
  BY <1>1, Zenon DEF Opened
<1>3. \A in : in = TRUE => within(in, line) = in
  BY DEF within
<1>4. \A in : in = TRUE => foundWith(file, in, found, line) = more
  BY Zenon DEF foundWith, within, tells
<1> HIDE DEF more
<1>5. ASSUME NEW in, in = TRUE
      PROVE  ScanStep[<<Opened(file, found), line>>] = ScanAt(file, in, more)
  <2>1. Opened(file, found) = ScanAt(file, in, found)
    BY <1>5, Zenon DEF Opened
  <2>2. ScanStep[<<Opened(file, found), line>>] =
          ScanAt(file, within(in, line), foundWith(file, in, found, line))
    BY <1>2, <2>1, ScanReads
  <2>3. within(in, line) = in /\ foundWith(file, in, found, line) = more
    BY <1>3, <1>4, <1>5, Zenon
  <2> QED
    BY <2>2, <2>3, Zenon
<1>6. ScanStep[<<Opened(file, found), line>>] = Opened(file, more)
  BY <1>5, Zenon DEF Opened
<1> QED
  BY <1>2, <1>6, Zenon DEF more

(* What is found in a hunk. *)
LEMMA ScanHunk ==
  ASSUME NEW c, ChangeOK(c), NEW file \in Names, NEW found \in Finds
  PROVE  RunsTo(ScanStep, ScanState, Opened(file, found), hunkOf(c),
                Opened(file, found \cup findsIn(file, c, Len(c.body))))
<1> DEFINE N == Len(c.body)
           at(n) == found \cup findsIn(file, c, n)
           h == [n \in 0 .. N |-> Opened(file, at(n))]
<1>0. /\ N \in Nat /\ hunkOf(c) \in Seq(PatchLine) /\ Len(hunkOf(c)) = N
      /\ \A n \in 1 .. N :
           /\ c.body[n] \in [sign : {"+", "-"}, text : {"plain", "secret", "marker"}]
           /\ hunkOf(c)[n] = lineOf(c.body[n])
  <2>1. N \in Nat
    BY Elements DEF ChangeOK
  <2> QED
    BY <2>1, HunkTypes
<1>1. /\ at(0) = found /\ \A n \in Nat : at(n) \in Finds
      /\ \A n \in Nat \ {0} :
           at(n) = IF secretAt(c, n) THEN at(n - 1) \cup {<<file, "secret">>} ELSE at(n - 1)
  BY FindsGrow
<1>2. ASSUME NEW n \in 1 .. N
      PROVE  /\ hunkOf(c)[n] \in PatchLine /\ hunkOf(c)[n].start \notin {"diff --git", "@@"}
             /\ tells(hunkOf(c)[n]) <=> secretAt(c, n)
  BY HunkTells
<1> HIDE DEF at, N
<1>3. ASSUME NEW n \in 1 .. N
      PROVE  ScanStep[<<Opened(file, at(n - 1)), hunkOf(c)[n]>>] = Opened(file, at(n))
  <2>1. n \in Nat \ {0} /\ n - 1 \in Nat
    BY <1>0
  <2>2. at(n - 1) \in Finds
        /\ at(n) = IF secretAt(c, n) THEN at(n - 1) \cup {<<file, "secret">>} ELSE at(n - 1)
    BY <1>1, <2>1
  <2> DEFINE line == hunkOf(c)[n]
             x == at(n - 1)
             y == at(n)
  <2>3. line \in PatchLine /\ line.start \notin {"diff --git", "@@"} /\ x \in Finds
    BY <1>2, <2>2
  <2>4. y = IF tells(line) THEN x \cup {<<file, "secret">>} ELSE x
    BY <1>2, <2>2
  <2> HIDE DEF line, x, y
  <2>5. /\ tells(line) => ScanStep[<<Opened(file, x), line>>] = Opened(file, x \cup {<<file, "secret">>})
        /\ ~tells(line) => ScanStep[<<Opened(file, x), line>>] = Opened(file, x)
    BY <2>3, HunkScanned
  <2>6. ScanStep[<<Opened(file, x), line>>] = Opened(file, y)
    BY <2>4, <2>5, Zenon
  <2> QED
    BY <2>6 DEF line, x, y
<1>4. h \in [0 .. N -> ScanState]
  <2>1. \A in \in BOOLEAN, n \in Nat : ScanAt(file, in, at(n)) \in ScanState
    BY <1>1, ScanTypes
  <2>2. \A n \in Nat : Opened(file, at(n)) \in ScanState
    BY <2>1, Zenon DEF Opened
  <2> QED
    BY <1>0, <2>2
<1>5. /\ h[0] = Opened(file, found) /\ h[N] = Opened(file, at(N))
      /\ \A n \in 1 .. N : h[n] = Opened(file, at(n)) /\ h[n - 1] = Opened(file, at(n - 1))
  BY <1>0, <1>1
<1> HIDE DEF h
<1>6. \A n \in 1 .. N : h[n] = ScanStep[<<h[n - 1], hunkOf(c)[n]>>]
  BY <1>3, <1>5
<1>7. RunsTo(ScanStep, ScanState, Opened(file, found), hunkOf(c), Opened(file, at(N)))
  BY <1>0, <1>4, <1>5, <1>6 DEF RunsTo
<1> QED
  BY <1>7 DEF at, N

-----------------------------------------------------------------------------
(* The lines of the content in front of the hunk. *)
openOf(c) ==
  IF c.binary THEN <<Bare("GIT binary patch"), Bare("base85")>>
  ELSE IF c.body = <<>> THEN <<>>
  ELSE <<Line("---", tabbed(c.old), devNull, FALSE), Line("+++", tabbed(c.new), devNull, FALSE),
         Bare("@@")>>

hasHunk(c) == ~c.binary /\ c.body # <<>>

LEMMA BodyParts ==
  ASSUME NEW c
  PROVE  bodyLines(c) = IF hasHunk(c) THEN openOf(c) \o hunkOf(c) ELSE openOf(c)
BY Zenon DEF bodyLines, openOf, hunkOf, hasHunk

(* Three elements. *)
LEMMA Triples ==
  ASSUME NEW S, NEW a \in S, NEW b \in S, NEW e \in S
  PROVE  /\ <<a, b, e>> \in Seq(S) /\ Len(<<a, b, e>>) = 3 /\ <<a, b, e>>[3] = e
         /\ \A n \in 1 .. Len(<<a, b, e>>) : <<a, b, e>>[n] \in {a, b, e}
<1> DEFINE s == <<a, b, e>>
<1>1. s \in Seq(S) /\ Len(s) = 3 /\ s[1] = a /\ s[2] = b /\ s[3] = e
  OBVIOUS
<1> HIDE DEF s
<1>2. \A n \in 1 .. 3 : n = 1 \/ n = 2 \/ n = 3
  OBVIOUS
<1>3. \A n \in 1 .. Len(s) : s[n] \in {a, b, e}
  BY <1>1, <1>2
<1> QED
  BY <1>1, <1>3 DEF s

(* Names with a space are names. *)
LEMMA TabbedTypes ==
  ASSUME NEW path \in Seq(Words)
  PROVE  tabbed(path) \in Seq(Words)
<1>1. "tab" \in Words
  BY DEF Words
<1>2. \A w \in Words : Append(path, w) \in Seq(Words)
  OBVIOUS
<1>3. Append(path, "tab") \in Seq(Words)
  BY <1>1, <1>2, Zenon
<1> QED
  BY <1>3, Zenon DEF tabbed

(* A line without text is quiet. *)
LEMMA BareQuiet ==
  ASSUME NEW start \in Starts, start # "diff --git"
  PROVE  Bare(start) \in PatchLine /\ Quiet(Bare(start))
BY BareTypes DEF Quiet

LEMMA NameQuiet ==
  ASSUME NEW start \in Starts, start # "diff --git", NEW path \in Seq(Words)
  PROVE  Line(start, path, devNull, FALSE) \in PatchLine /\ Quiet(Line(start, path, devNull, FALSE))
BY NameLines DEF Quiet

(* Nothing is found in front of the hunk. *)
LEMMA OpenTypes ==
  ASSUME NEW c, ChangeOK(c)
  PROVE  /\ openOf(c) \in Seq(PatchLine)
         /\ \A n \in 1 .. Len(openOf(c)) : Quiet(openOf(c)[n])
         /\ hasHunk(c) => \E n \in 1 .. Len(openOf(c)) : openOf(c)[n].start = "@@"
<1> DEFINE Claim(lines) ==
             /\ lines \in Seq(PatchLine)
             /\ \A n \in 1 .. Len(lines) : Quiet(lines[n])
             /\ hasHunk(c) => \E n \in 1 .. Len(lines) : lines[n].start = "@@"
<1>0. /\ "GIT binary patch" \in Starts /\ "base85" \in Starts
      /\ "---" \in Starts /\ "+++" \in Starts /\ "@@" \in Starts
  BY DEF Starts
<1>1. ASSUME c.binary PROVE Claim(openOf(c))
  <2> DEFINE a == Bare("GIT binary patch")
             b == Bare("base85")
  <2>1. a \in PatchLine /\ Quiet(a) /\ b \in PatchLine /\ Quiet(b)
    BY <1>0, BareQuiet
  <2>2. openOf(c) = <<a, b>>
    BY <1>1, Zenon DEF openOf
  <2> HIDE DEF a, b
  <2>3. <<a, b>> \in Seq(PatchLine) /\ \A n \in 1 .. Len(<<a, b>>) : <<a, b>>[n] \in {a, b}
    BY <2>1, Pairs
  <2>4. ~hasHunk(c)
    BY <1>1 DEF hasHunk
  <2> QED
    BY <2>1, <2>2, <2>3, <2>4
<1>2. ASSUME ~c.binary, c.body = <<>> PROVE Claim(openOf(c))
  <2>1. openOf(c) = <<>> /\ ~hasHunk(c)
    BY <1>2, Zenon DEF openOf, hasHunk
  <2> QED
    BY <2>1
<1>3. ASSUME ~c.binary, c.body # <<>> PROVE Claim(openOf(c))
  <2> DEFINE a == Line("---", tabbed(c.old), devNull, FALSE)
             b == Line("+++", tabbed(c.new), devNull, FALSE)
             e == Bare("@@")
  <2>1. tabbed(c.old) \in Seq(Words) /\ tabbed(c.new) \in Seq(Words)
    BY TabbedTypes DEF ChangeOK
  <2>2. a \in PatchLine /\ Quiet(a) /\ b \in PatchLine /\ Quiet(b)
    BY <1>0, <2>1, NameQuiet
  <2>3. e \in PatchLine /\ Quiet(e) /\ e.start = "@@"
    BY <1>0, BareQuiet, BareTypes
  <2>4. openOf(c) = <<a, b, e>>
    BY <1>3, Zenon DEF openOf
  <2> HIDE DEF a, b, e
  <2> DEFINE s == <<a, b, e>>
  <2>5. s \in Seq(PatchLine) /\ Len(s) = 3 /\ s[3] = e /\ \A n \in 1 .. Len(s) : s[n] \in {a, b, e}
    BY <2>2, <2>3, Triples
  <2> HIDE DEF s
  <2>6. Claim(s)
    <3>1. \A n \in 1 .. Len(s) : Quiet(s[n])
      BY <2>2, <2>3, <2>5
    <3>2. 3 \in 1 .. Len(s) /\ s[3].start = "@@"
      BY <2>3, <2>5
    <3> QED
      BY <2>5, <3>1, <3>2
  <2>7. openOf(c) = s
    BY <2>4 DEF s
  <2> HIDE DEF Claim
  <2> QED
    BY <2>6, <2>7
<1>4. Claim(openOf(c))
  <2> HIDE DEF Claim
  <2> QED
    BY <1>1, <1>2, <1>3, Zenon
<1> QED
  BY <1>4

(* Nor in the lines of the mode and of a rename. *)
LEMMA ModeQuiet ==
  ASSUME NEW c, ChangeOK(c)
  PROVE  /\ modeLines(c) \in Seq(PatchLine)
         /\ \A n \in 1 .. Len(modeLines(c)) : Quiet(modeLines(c)[n])
<1>1. CASE modeLines(c) = <<>>
  BY <1>1
<1>2. ASSUME NEW line \in PatchLine, modeLines(c) = <<line>>, Quiet(line)
      PROVE  /\ modeLines(c) \in Seq(PatchLine)
             /\ \A n \in 1 .. Len(modeLines(c)) : Quiet(modeLines(c)[n])
  BY <1>2
<1>3. modeLines(c) = <<>> \/ \E line \in PatchLine : modeLines(c) = <<line>> /\ Quiet(line)
  BY ModeLines DEF Quiet
<1> QED
  BY <1>1, <1>2, <1>3

LEMMA RenameQuiet ==
  ASSUME NEW c, ChangeOK(c)
  PROVE  /\ renameLines(c) \in Seq(PatchLine)
         /\ \A n \in 1 .. Len(renameLines(c)) : Quiet(renameLines(c)[n])
BY RenameLines DEF Quiet

-----------------------------------------------------------------------------
(* The parts of a patch of one file are sequences of lines. *)
LEMMA DiffTypes ==
  ASSUME NEW c, ChangeOK(c)
  PROVE  /\ <<headLine(c)>> \in Seq(PatchLine) /\ modeLines(c) \in Seq(PatchLine)
         /\ renameLines(c) \in Seq(PatchLine) /\ bodyLines(c) \in Seq(PatchLine)
         /\ gitDiff(c) \in Seq(PatchLine)
         /\ gitDiff(c) = <<headLine(c)>> \o modeLines(c) \o renameLines(c) \o bodyLines(c)
<1>1. headLine(c) \in PatchLine
  BY NamesOf
<1>2. <<headLine(c)>> \in Seq(PatchLine)
  BY <1>1, Singles, Zenon
<1>3. modeLines(c) \in Seq(PatchLine) /\ renameLines(c) \in Seq(PatchLine)
  BY ModeQuiet, RenameQuiet
<1>4. bodyLines(c) \in Seq(PatchLine)
  <2>1. openOf(c) \in Seq(PatchLine) /\ hunkOf(c) \in Seq(PatchLine)
    BY OpenTypes, HunkTypes
  <2>2. openOf(c) \o hunkOf(c) \in Seq(PatchLine)
    BY <2>1, ConcatItems
  <2>3. bodyLines(c) \in {openOf(c) \o hunkOf(c), openOf(c)}
    BY BodyParts
  <2> QED
    BY <2>1, <2>2, <2>3
<1>5. gitDiff(c) = <<headLine(c)>> \o modeLines(c) \o renameLines(c) \o bodyLines(c)
  BY Zenon DEF gitDiff, headLine, fromOf, named
<1>6. <<headLine(c)>> \o modeLines(c) \in Seq(PatchLine)
  BY <1>2, <1>3, ConcatItems
<1>7. <<headLine(c)>> \o modeLines(c) \o renameLines(c) \in Seq(PatchLine)
  BY <1>3, <1>6, ConcatItems
<1>8. <<headLine(c)>> \o modeLines(c) \o renameLines(c) \o bodyLines(c) \in Seq(PatchLine)
  BY <1>4, <1>7, ConcatItems
<1> QED
  BY <1>2, <1>3, <1>4, <1>5, <1>8, Zenon

(* Lines without a name that JSON.parse throws at: nothing in them is unparsable. *)
ReadableLine ==
  {line \in PatchLine : ~unparsable(line.path) /\ (line.start = "diff --git" => ~unparsable(line.to))}

LEMMA NothingInNull ==
  ASSUME NEW word
  PROVE  ~Contains(devNull, word)
<1>1. Len(devNull) = 0
  BY DEF devNull
<1>2. 1 .. Len(devNull) = {}
  BY <1>1
<1> QED
  BY <1>2, Zenon DEF Contains

LEMMA ReadableNames ==
  /\ \A start \in Starts \ {"diff --git"}, path \in Seq(Words) :
       ~unparsable(path) => Line(start, path, devNull, FALSE) \in ReadableLine
  /\ \A start \in Starts \ {"diff --git"} : Bare(start) \in ReadableLine
<1>1. ASSUME NEW start \in Starts \ {"diff --git"}, NEW path \in Seq(Words), ~unparsable(path)
      PROVE  Line(start, path, devNull, FALSE) \in ReadableLine
  <2> DEFINE line == Line(start, path, devNull, FALSE)
  <2>1. line \in PatchLine /\ line.start = start /\ line.path = path
    BY <1>1, NameLines
  <2> HIDE DEF line
  <2>2. line \in ReadableLine
    BY <1>1, <2>1 DEF ReadableLine
  <2> QED
    BY <2>2 DEF line
<1>2. devNull \in Seq(Words) /\ ~unparsable(devNull)
  BY PathsAreNames, NothingInNull DEF unparsable
<1> QED
  BY <1>1, <1>2 DEF Bare

(* No sequence of them throws. *)
LEMMA ReadableAll ==
  ASSUME NEW patch \in Seq(ReadableLine)
  PROVE  ~throws(patch)
<1>1. ASSUME NEW n \in DOMAIN patch, NEW s, NEW path \in unquoted(s, patch[n]) PROVE ~unparsable(path)
  <2> DEFINE line == patch[n]
  <2>1. line \in ReadableLine
    BY Elements
  <2> HIDE DEF line
  <2>2. path = line.path \/ (path = line.to /\ isHeader(line))
    <3>1. path \in unquoted(s, line)
      BY <1>1 DEF line
    <3> QED
      BY <3>1 DEF unquoted
  <2> QED
    BY <2>1, <2>2 DEF ReadableLine, isHeader
<1> QED
  BY <1>1, Zenon DEF throws

(* Nor does the patch of a change whose names are written as they are. *)
LEMMA DiffReadable ==
  ASSUME NEW c, ChangeOK(c), Verbatim(c)
  PROVE  gitDiff(c) \in Seq(ReadableLine)
<1>0. /\ ~unparsable(c.old) /\ ~unparsable(c.new) /\ ~unparsable(named(c)) /\ ~unparsable(fromOf(c))
      /\ tabbed(c.old) = c.old /\ tabbed(c.new) = c.new
      /\ c.old \in Seq(Words) /\ c.new \in Seq(Words)
  BY VerbatimNames, Zenon DEF tabbed, ChangeOK
<1>1. <<headLine(c)>> \in Seq(ReadableLine)
  <2>1. headLine(c) \in ReadableLine
    BY <1>0, NamesOf DEF ReadableLine
  <2> QED
    BY <2>1, Singles, Zenon
<1>2. modeLines(c) \in Seq(ReadableLine)
  <2>1. CASE modeLines(c) = <<>>
    BY <2>1
  <2>2. ASSUME NEW line \in PatchLine, modeLines(c) = <<line>>, line.path = devNull,
               line.start # "diff --git"
        PROVE  modeLines(c) \in Seq(ReadableLine)
    <3>1. line \in ReadableLine
      BY <2>2, NothingInNull DEF ReadableLine, unparsable
    <3> QED
      BY <2>2, <3>1, Singles, Zenon
  <2>3. modeLines(c) = <<>> \/ \E line \in PatchLine : /\ modeLines(c) = <<line>> /\ line.path = devNull
                                                       /\ line.start # "diff --git"
    BY ModeLines
  <2> QED
    BY <2>1, <2>2, <2>3
<1>3. renameLines(c) \in Seq(ReadableLine)
  <2> DEFINE r == renameLines(c)
  <2>1. r \in Seq(PatchLine) /\ Len(r) \in Nat /\ DOMAIN r = 1 .. Len(r)
    BY RenameLines, Elements
  <2>2. ASSUME NEW n \in 1 .. Len(r) PROVE r[n] \in ReadableLine
    <3>1. r[n] \in PatchLine /\ r[n].start # "diff --git" /\ r[n].path \in {fromOf(c), named(c)}
      BY <2>1, RenameLines, Elements
    <3> HIDE DEF r
    <3> QED
      BY <1>0, <3>1 DEF ReadableLine
  <2> HIDE DEF r
  <2>3. r \in [1 .. Len(r) -> ReadableLine]
    BY <2>1, <2>2
  <2>4. r \in Seq(ReadableLine)
    BY <2>1, <2>3
  <2> QED
    BY <2>4 DEF r
<1>4. hunkOf(c) \in Seq(ReadableLine)
  <2> DEFINE h == hunkOf(c)
  <2>1. h \in Seq(PatchLine) /\ Len(h) \in Nat /\ DOMAIN h = 1 .. Len(h)
    BY HunkTypes, Elements
  <2>2. ASSUME NEW n \in 1 .. Len(h) PROVE h[n] \in ReadableLine
    <3> DEFINE content == c.body[n]
               line == lineOf(content)
    <3>1. content \in [sign : {"+", "-"}, text : {"plain", "secret", "marker"}] /\ h[n] = line
      BY <2>1, HunkTypes
    <3>2. line \in PatchLine /\ line.start # "diff --git"
      BY <3>1, LineOfTypes
    <3>3. ~unparsable(line.path)
      <4>1. ~unparsable(devNull) /\ ~unparsable(<<"x">>)
        BY NothingInNull DEF unparsable, Contains
      <4> HIDE DEF content
      <4>2. line.path \in {devNull, <<"x">>}
        BY <3>1, LineOfTypes DEF line
      <4> HIDE DEF line
      <4> QED
        BY <4>1, <4>2, Zenon
    <3> HIDE DEF line, h
    <3> QED
      BY <3>1, <3>2, <3>3 DEF ReadableLine
  <2> HIDE DEF h
  <2>3. h \in [1 .. Len(h) -> ReadableLine]
    BY <2>1, <2>2
  <2>4. h \in Seq(ReadableLine)
    BY <2>1, <2>3
  <2> QED
    BY <2>4 DEF h
<1>5. openOf(c) \in Seq(ReadableLine)
  <2>0. /\ "GIT binary patch" \in Starts \ {"diff --git"} /\ "base85" \in Starts \ {"diff --git"}
        /\ "---" \in Starts \ {"diff --git"} /\ "+++" \in Starts \ {"diff --git"}
        /\ "@@" \in Starts \ {"diff --git"}
    BY DEF Starts
  <2> DEFINE g == Bare("GIT binary patch")
             d == Bare("base85")
             a == Line("---", c.old, devNull, FALSE)
             b == Line("+++", c.new, devNull, FALSE)
             e == Bare("@@")
  <2>1. g \in ReadableLine /\ d \in ReadableLine /\ a \in ReadableLine /\ b \in ReadableLine
        /\ e \in ReadableLine
    BY <1>0, <2>0, ReadableNames, Zenon
  <2>2. openOf(c) \in {<<g, d>>, <<>>, <<a, b, e>>}
    BY <1>0, Zenon DEF openOf
  <2> HIDE DEF g, d, a, b, e
  <2>3. <<g, d>> \in Seq(ReadableLine) /\ <<>> \in Seq(ReadableLine)
        /\ <<a, b, e>> \in Seq(ReadableLine)
    BY <2>1
  <2> QED
    BY <2>2, <2>3, Zenon
<1>6. bodyLines(c) \in Seq(ReadableLine)
  <2>1. openOf(c) \o hunkOf(c) \in Seq(ReadableLine)
    BY <1>4, <1>5, ConcatItems
  <2> QED
    BY <1>5, <2>1, BodyParts, Zenon
<1>7. <<headLine(c)>> \o modeLines(c) \in Seq(ReadableLine)
  BY <1>1, <1>2, ConcatItems
<1>8. <<headLine(c)>> \o modeLines(c) \o renameLines(c) \in Seq(ReadableLine)
  BY <1>3, <1>7, ConcatItems
<1>9. <<headLine(c)>> \o modeLines(c) \o renameLines(c) \o bodyLines(c) \in Seq(ReadableLine)
  BY <1>6, <1>8, ConcatItems
<1> QED
  BY <1>9, DiffTypes, Zenon

(* What parsePatch makes of the patch of one file. *)
LEMMA ParseDiff ==
  ASSUME NEW c, ChangeOK(c), Verbatim(c), NEW s \in ParseState
  PROVE  \E in \in BOOLEAN :
           RunsTo(ParseStep, ParseState, s, gitDiff(c), ParseAt(s.files, rawOf(c), in))
<1> DEFINE F == s.files
           h == <<headLine(c)>>
           m == modeLines(c)
           r == renameLines(c)
           b == bodyLines(c)
<1>0. F \in Seq(PatchFile)
  BY ParseStates
<1>1. /\ h \in Seq(PatchLine) /\ m \in Seq(PatchLine) /\ r \in Seq(PatchLine) /\ b \in Seq(PatchLine)
      /\ gitDiff(c) = h \o m \o r \o b
  BY DiffTypes
<1>2. RunsTo(ParseStep, ParseState, s, h, Before(F, PlainFile(c, "same")))
  <2>2. ParseStep[<<s, headLine(c)>>] = ParseAt(F, FileOf(c, 0, 0, FALSE, "same"), FALSE)
    BY ParseHead
  <2>3. ParseStep[<<s, headLine(c)>>] = Before(F, PlainFile(c, "same"))
    BY <2>2, Zenon DEF Before, PlainFile
  <2>4. ParseStep \in [ParseState \X PatchLine -> ParseState]
    BY LineParsed DEF ParseStep
  <2>5. headLine(c) \in PatchLine
    BY NamesOf
  <2>6. RunsTo(ParseStep, ParseState, s, h, ParseStep[<<s, headLine(c)>>])
    BY <2>4, <2>5, RunsOne
  <2> QED
    BY <2>3, <2>6, Zenon
<1>3. RunsTo(ParseStep, ParseState, Before(F, PlainFile(c, "same")), m, Before(F, PlainFile(c, modeOf(c))))
  BY <1>0, ParseMode
<1>4. RunsTo(ParseStep, ParseState, Before(F, PlainFile(c, modeOf(c))), r,
             Before(F, PlainFile(c, modeOf(c))))
  BY <1>0, ModeLines, ParseRename
<1>5. PICK in \in BOOLEAN :
        RunsTo(ParseStep, ParseState, Before(F, PlainFile(c, modeOf(c))), b, ParseAt(F, rawOf(c), in))
  BY <1>0, ParseBody
<1> DEFINE t1 == Before(F, PlainFile(c, "same"))
           t2 == Before(F, PlainFile(c, modeOf(c)))
           t3 == ParseAt(F, rawOf(c), in)
<1> HIDE DEF F, h, m, r, b, t1, t2, t3
<1>6. h \o m \in Seq(PatchLine) /\ RunsTo(ParseStep, ParseState, s, h \o m, t2)
  BY <1>1, <1>2, <1>3, ParseBoth DEF t1, t2
<1>7. h \o m \o r \in Seq(PatchLine) /\ RunsTo(ParseStep, ParseState, s, h \o m \o r, t2)
  BY <1>1, <1>4, <1>6, ParseBoth DEF t2
<1>8. RunsTo(ParseStep, ParseState, s, h \o m \o r \o b, t3)
  BY <1>1, <1>5, <1>7, ParseBoth DEF t2, t3
<1> QED
  BY <1>1, <1>8, Zenon DEF t3, F

(* One sequence of lines after the other. *)
LEMMA ScanBoth ==
  ASSUME NEW p \in Seq(PatchLine), NEW q \in Seq(PatchLine), NEW s, NEW t, NEW u,
         RunsTo(ScanStep, ScanState, s, p, t), RunsTo(ScanStep, ScanState, t, q, u)
  PROVE  p \o q \in Seq(PatchLine) /\ RunsTo(ScanStep, ScanState, s, p \o q, u)
<1>1. ScanStep \in [ScanState \X PatchLine -> ScanState]
  BY LineScanned DEF ScanStep
<1>2. p \o q \in Seq(PatchLine)
  BY ConcatItems
<1>3. RunsTo(ScanStep, ScanState, s, p \o q, u)
  BY <1>1, RunsConcat
<1> QED
  BY <1>2, <1>3

(* Nothing is found in quiet lines. *)
LEMMA ScanStill ==
  ASSUME NEW file \in Names, NEW in \in BOOLEAN, NEW found \in Finds,
         NEW lines \in Seq(PatchLine), \A n \in 1 .. Len(lines) : Quiet(lines[n])
  PROVE  \E now \in BOOLEAN :
           /\ RunsTo(ScanStep, ScanState, ScanAt(file, in, found), lines, ScanAt(file, now, found))
           /\ now = opened(in, lines, Len(lines))
<1>1. RunsTo(ScanStep, ScanState, ScanAt(file, in, found), lines,
             ScanAt(file, opened(in, lines, Len(lines)), found))
  BY ScanQuiet
<1>2. Len(lines) \in Nat
  BY Elements
<1>3. opened(in, lines, Len(lines)) \in BOOLEAN
  BY <1>2, OpenedSteps
<1> QED
  BY <1>1, <1>3, Zenon

(* What is found in the content of a change. *)
finds(c) == findsIn(headed(headLine(c)), c, Len(c.body))

LEMMA ScanBody ==
  ASSUME NEW c, ChangeOK(c), NEW in \in BOOLEAN, NEW found \in Finds,
         NEW file \in Names, file = headed(headLine(c))
  PROVE  \E now \in BOOLEAN :
           RunsTo(ScanStep, ScanState, ScanAt(file, in, found), bodyLines(c),
                  ScanAt(file, now, found \cup finds(c)))
<1>0. /\ openOf(c) \in Seq(PatchLine) /\ \A n \in 1 .. Len(openOf(c)) : Quiet(openOf(c)[n])
      /\ hasHunk(c) => \E n \in 1 .. Len(openOf(c)) : openOf(c)[n].start = "@@"
  BY OpenTypes
<1>1. PICK now \in BOOLEAN :
        /\ RunsTo(ScanStep, ScanState, ScanAt(file, in, found), openOf(c), ScanAt(file, now, found))
        /\ now = opened(in, openOf(c), Len(openOf(c)))
  BY <1>0, ScanStill
<1>2. ASSUME ~hasHunk(c)
      PROVE  RunsTo(ScanStep, ScanState, ScanAt(file, in, found), bodyLines(c),
                    ScanAt(file, now, found \cup finds(c)))
  <2>1. bodyLines(c) = openOf(c)
    BY <1>2, BodyParts
  <2>2. Len(c.body) = 0
    <3>1. c.body = <<>>
      BY <1>2 DEF hasHunk, ChangeOK
    <3> QED
      BY <3>1
  <2>3. found \cup findsIn(file, c, 0) = found
    BY FindsGrow
  <2>4. found \cup finds(c) = found
    BY <2>2, <2>3, Zenon DEF finds
  <2> QED
    BY <1>1, <2>1, <2>4, Zenon
<1>3. ASSUME hasHunk(c)
      PROVE  RunsTo(ScanStep, ScanState, ScanAt(file, in, found), bodyLines(c),
                    Opened(file, found \cup finds(c)))
  <2>1. bodyLines(c) = openOf(c) \o hunkOf(c)
    BY <1>3, BodyParts
  <2>2. now
    BY <1>0, <1>1, <1>3, Zenon DEF opened
  <2>3. ScanAt(file, now, found) = Opened(file, found)
    <3>1. now = TRUE
      BY <2>2
    <3> QED
      BY <3>1, Zenon DEF Opened
  <2>4. RunsTo(ScanStep, ScanState, Opened(file, found), hunkOf(c),
               Opened(file, found \cup findsIn(file, c, Len(c.body))))
    BY ScanHunk
  <2>5. RunsTo(ScanStep, ScanState, Opened(file, found), hunkOf(c), Opened(file, found \cup finds(c)))
    BY <2>4, Zenon DEF finds
  <2>6. RunsTo(ScanStep, ScanState, ScanAt(file, in, found), openOf(c), Opened(file, found))
    BY <1>1, <2>3, Zenon
  <2>7. hunkOf(c) \in Seq(PatchLine)
    BY HunkTypes
  <2>8. RunsTo(ScanStep, ScanState, ScanAt(file, in, found), openOf(c) \o hunkOf(c),
               Opened(file, found \cup finds(c)))
    BY <1>0, <2>5, <2>6, <2>7, ScanBoth
  <2> QED
    BY <2>1, <2>8, Zenon
<1> QED
  BY <1>2, <1>3, Zenon DEF Opened

(* What the second loop of checkPatch makes of the patch of one file. *)
LEMMA ScanDiff ==
  ASSUME NEW c, ChangeOK(c), NEW s \in ScanState
  PROVE  \E in \in BOOLEAN :
           RunsTo(ScanStep, ScanState, s, gitDiff(c),
                  ScanAt(headed(headLine(c)), in, s.found \cup finds(c)))
<1> DEFINE file == headed(headLine(c))
           found == s.found
           h == <<headLine(c)>>
           m == modeLines(c)
           r == renameLines(c)
           b == bodyLines(c)
<1>0. file \in Names /\ found \in Finds
  BY ScanHead, ScanParts
<1>1. /\ h \in Seq(PatchLine) /\ m \in Seq(PatchLine) /\ r \in Seq(PatchLine) /\ b \in Seq(PatchLine)
      /\ gitDiff(c) = h \o m \o r \o b
  BY DiffTypes
<1>2. PICK x \in BOOLEAN : RunsTo(ScanStep, ScanState, s, h, ScanAt(file, x, found))
  <2>1. ScanStep \in [ScanState \X PatchLine -> ScanState]
    BY LineScanned DEF ScanStep
  <2>2. headLine(c) \in PatchLine
    BY NamesOf
  <2>3. RunsTo(ScanStep, ScanState, s, h, ScanStep[<<s, headLine(c)>>])
    BY <2>1, <2>2, RunsOne
  <2>4. \E x \in BOOLEAN : ScanStep[<<s, headLine(c)>>] = ScanAt(file, x, found)
    BY ScanHead, Zenon
  <2> QED
    BY <2>3, <2>4, Zenon
<1> HIDE DEF h, m, r, b
<1>3. PICK y \in BOOLEAN : RunsTo(ScanStep, ScanState, ScanAt(file, x, found), m, ScanAt(file, y, found))
  BY <1>0, ModeQuiet, ScanStill DEF m
<1>4. PICK z \in BOOLEAN : RunsTo(ScanStep, ScanState, ScanAt(file, y, found), r, ScanAt(file, z, found))
  BY <1>0, RenameQuiet, ScanStill DEF r
<1>5. PICK w \in BOOLEAN :
        RunsTo(ScanStep, ScanState, ScanAt(file, z, found), b, ScanAt(file, w, found \cup finds(c)))
  BY <1>0, ScanBody DEF b
<1> DEFINE t1 == ScanAt(file, x, found)
           t2 == ScanAt(file, y, found)
           t3 == ScanAt(file, z, found)
           t4 == ScanAt(file, w, found \cup finds(c))
<1>9. /\ RunsTo(ScanStep, ScanState, s, h, t1) /\ RunsTo(ScanStep, ScanState, t1, m, t2)
      /\ RunsTo(ScanStep, ScanState, t2, r, t3) /\ RunsTo(ScanStep, ScanState, t3, b, t4)
  BY <1>2, <1>3, <1>4, <1>5, Zenon
<1> HIDE DEF t1, t2, t3, t4
<1>6. h \o m \in Seq(PatchLine) /\ RunsTo(ScanStep, ScanState, s, h \o m, t2)
  BY <1>1, <1>9, ScanBoth
<1>7. h \o m \o r \in Seq(PatchLine) /\ RunsTo(ScanStep, ScanState, s, h \o m \o r, t3)
  BY <1>1, <1>6, <1>9, ScanBoth
<1>8. RunsTo(ScanStep, ScanState, s, h \o m \o r \o b, t4)
  BY <1>1, <1>7, <1>9, ScanBoth
<1> QED
  BY <1>1, <1>8, Zenon DEF t4, file, found

-----------------------------------------------------------------------------
Patches == Seq(PatchLine)

(* The steps of patchOf, bodyLength and changedLines. *)
DiffStep == [p \in Patches \X Changes |-> p[1] \o gitDiff(p[2])]
LengthStep == [p \in Nat \X Changes |-> p[1] + Len(p[2].body)]
LinesStep == [p \in Nat \X PatchFile |-> p[1] + p[2].added + p[2].deleted]

(* The patch of some changes is the patch of one after the other. *)
LEMMA PatchRuns ==
  ASSUME NEW cs \in Seq(Changes)
  PROVE  /\ RunsTo(DiffStep, Patches, <<>>, cs, patchOf(cs))
         /\ DiffStep \in [Patches \X Changes -> Patches]
         /\ \A x \in Patches, c \in Changes : DiffStep[<<x, c>>] = x \o gitDiff(c)
<1> DEFINE next(x, c) == x \o gitDiff(c)
           Iter(h) == h = [s \in SUBSET DOMAIN cs |->
                             IF s = {} THEN <<>> ELSE next(h[s \ {Max(s)}], cs[Max(s)])]
<1>0. <<>> \in Patches
  BY DEF Patches
<1>1. /\ DiffStep \in [Patches \X Changes -> Patches]
      /\ \A x \in Patches, c \in Changes : DiffStep[<<x, c>>] = next(x, c)
  <2>1. ASSUME NEW x \in Patches, NEW c \in Changes PROVE next(x, c) \in Patches
    <3>1. gitDiff(c) \in Patches
      BY ChangeFields, DiffTypes DEF Patches
    <3> QED
      BY <3>1, ConcatItems DEF Patches
  <2> QED
    BY <2>1 DEF DiffStep
<1>2. \E h : Iter(h)
  <2>1. PICK g : Folds(DiffStep, Patches, Changes, <<>>, cs, g)
    BY <1>0, <1>1, FoldExists
  <2> HIDE DEF next
  <2>2. Iter(g)
    BY <1>1, <2>1 DEF Folds
  <2> QED
    BY <2>2
<1> DEFINE fold == CHOOSE h : Iter(h)
<1>3. Iter(fold)
  BY <1>2
<1>4. patchOf(cs) = fold[DOMAIN cs]
  BY DEF patchOf, FoldLeft, MapThenFoldSet
<1> HIDE DEF fold, next
<1>5. Follows(DiffStep, Patches, Changes, <<>>, cs, fold)
  BY <1>1, <1>3 DEF Follows
<1>6. RunsTo(DiffStep, Patches, <<>>, cs, fold[DOMAIN cs])
  BY <1>0, <1>1, <1>5, FoldRuns
<1> QED
  BY <1>1, <1>4, <1>6 DEF next

(* The lines of some changes are those of one and the other. *)
LEMMA LengthRuns ==
  ASSUME NEW cs \in Seq(Changes)
  PROVE  /\ RunsTo(LengthStep, Nat, 0, cs, bodyLength(cs))
         /\ \A x \in Nat, c \in Changes : LengthStep[<<x, c>>] = x + Len(c.body)
<1> DEFINE next(x, c) == x + Len(c.body)
           Iter(h) == h = [s \in SUBSET DOMAIN cs |->
                             IF s = {} THEN 0 ELSE next(h[s \ {Max(s)}], cs[Max(s)])]
<1>1. /\ LengthStep \in [Nat \X Changes -> Nat]
      /\ \A x \in Nat, c \in Changes : LengthStep[<<x, c>>] = next(x, c)
  <2>1. ASSUME NEW x \in Nat, NEW c \in Changes PROVE next(x, c) \in Nat
    <3>1. Len(c.body) \in Nat
      BY ChangeFields, Elements DEF ChangeOK
    <3> QED
      BY <3>1
  <2> QED
    BY <2>1 DEF LengthStep
<1>2. \E h : Iter(h)
  <2>1. PICK g : Folds(LengthStep, Nat, Changes, 0, cs, g)
    BY <1>1, FoldExists
  <2> HIDE DEF next
  <2>2. Iter(g)
    BY <1>1, <2>1 DEF Folds
  <2> QED
    BY <2>2
<1> DEFINE fold == CHOOSE h : Iter(h)
<1>3. Iter(fold)
  BY <1>2
<1>4. bodyLength(cs) = fold[DOMAIN cs]
  BY DEF bodyLength, FoldLeft, MapThenFoldSet
<1> HIDE DEF fold, next
<1>5. Follows(LengthStep, Nat, Changes, 0, cs, fold)
  BY <1>1, <1>3 DEF Follows
<1>6. RunsTo(LengthStep, Nat, 0, cs, fold[DOMAIN cs])
  BY <1>1, <1>5, FoldRuns
<1> QED
  BY <1>1, <1>4, <1>6 DEF next

(* And as parsePatch has counted them. *)
LEMMA LinesRuns ==
  ASSUME NEW files \in Seq(PatchFile)
  PROVE  /\ RunsTo(LinesStep, Nat, 0, files, changedLines(files))
         /\ \A x \in Nat, f \in PatchFile : LinesStep[<<x, f>>] = x + f.added + f.deleted
<1> DEFINE next(x, f) == x + f.added + f.deleted
           Iter(h) == h = [s \in SUBSET DOMAIN files |->
                             IF s = {} THEN 0 ELSE next(h[s \ {Max(s)}], files[Max(s)])]
<1>1. /\ LinesStep \in [Nat \X PatchFile -> Nat]
      /\ \A x \in Nat, f \in PatchFile : LinesStep[<<x, f>>] = next(x, f)
  <2>1. ASSUME NEW x \in Nat, NEW f \in PatchFile PROVE next(x, f) \in Nat
    BY DEF PatchFile
  <2> QED
    BY <2>1 DEF LinesStep
<1>2. \E h : Iter(h)
  <2>1. PICK g : Folds(LinesStep, Nat, PatchFile, 0, files, g)
    BY <1>1, FoldExists
  <2> HIDE DEF next
  <2>2. Iter(g)
    BY <1>1, <2>1 DEF Folds
  <2> QED
    BY <2>2
<1> DEFINE fold == CHOOSE h : Iter(h)
<1>3. Iter(fold)
  BY <1>2
<1>4. changedLines(files) = fold[DOMAIN files]
  BY DEF changedLines, FoldLeft, MapThenFoldSet
<1> HIDE DEF fold, next
<1>5. Follows(LinesStep, Nat, PatchFile, 0, files, fold)
  BY <1>1, <1>3 DEF Follows
<1>6. RunsTo(LinesStep, Nat, 0, files, fold[DOMAIN files])
  BY <1>1, <1>5, FoldRuns
<1> QED
  BY <1>1, <1>4, <1>6 DEF next

(* What statsOf says of a change. *)
statsFrom(c) ==
  [path |-> named(c), oldPath |-> IF c.old = c.new \/ c.new = devNull THEN devNull ELSE c.old,
   added |-> signs(c, "+", Len(c.body)), deleted |-> signs(c, "-", Len(c.body)),
   binary |-> c.binary, newMode |-> modeOf(c)]

LEMMA StatsAre ==
  ASSUME NEW c, ChangeOK(c)
  PROVE  /\ statsOf(c) = statsFrom(c) /\ statsOf(c) \in PatchFile
         /\ statsOf(c).added + statsOf(c).deleted = Len(c.body)
         /\ statsOf(c).path = named(c) /\ statsOf(c).newMode = modeOf(c)
         /\ statsOf(c).oldPath = IF c.old = c.new \/ c.new = devNull THEN devNull ELSE c.old
<1>1. DOMAIN c.body = 1 .. Len(c.body) /\ Len(c.body) \in Nat
  BY Elements DEF ChangeOK
<1>2. \A sign : Cardinality({n \in DOMAIN c.body : c.body[n].sign = sign}) = signs(c, sign, Len(c.body))
  BY <1>1, Zenon DEF signs, signed
<1>3. statsOf(c) = statsFrom(c)
  <2> DEFINE tally(sign) == Cardinality({n \in DOMAIN c.body : c.body[n].sign = sign})
  <2>1. tally("+") = signs(c, "+", Len(c.body)) /\ tally("-") = signs(c, "-", Len(c.body))
    BY <1>2, Zenon
  <2>2. statsOf(c) =
          [path |-> named(c),
           oldPath |-> IF c.old = c.new \/ c.new = devNull THEN devNull ELSE c.old,
           added |-> tally("+"), deleted |-> tally("-"),
           binary |-> c.binary, newMode |-> modeOf(c)]
    BY Zenon DEF statsOf, named, modeOf
  <2> HIDE DEF tally
  <2> QED
    BY <2>1, <2>2, Zenon DEF statsFrom
<1> DEFINE a == signs(c, "+", Len(c.body))
           d == signs(c, "-", Len(c.body))
           o == IF c.old = c.new \/ c.new = devNull THEN devNull ELSE c.old
           p == named(c)
           m == modeOf(c)
           b == c.binary
<1>4. a \in Nat /\ d \in Nat /\ a + d = Len(c.body)
  BY <1>1, SignsCounted, SignsPartition
<1>5. p \in Names /\ o \in Names /\ m \in Names /\ b \in BOOLEAN
  <2>1. c.old \in Names /\ devNull \in Names
    BY PathsAreNames DEF ChangeOK
  <2>2. p \in Names
    BY NamesOf, PathsAreNames
  <2> QED
    BY <2>1, <2>2, ModeLines DEF ChangeOK
<1>6. statsFrom(c) = [path |-> p, oldPath |-> o, added |-> a, deleted |-> d, binary |-> b, newMode |-> m]
  BY Zenon DEF statsFrom
<1> HIDE DEF a, d, o, p, m, b
<1> DEFINE r == [path |-> p, oldPath |-> o, added |-> a, deleted |-> d, binary |-> b, newMode |-> m]
<1>7. r \in PatchFile /\ r.path = p /\ r.oldPath = o /\ r.added = a /\ r.deleted = d /\ r.newMode = m
  BY <1>4, <1>5 DEF PatchFile
<1>8. statsOf(c) = r
  BY <1>3, <1>6, Zenon
<1> HIDE DEF r
<1>9. /\ statsOf(c) \in PatchFile /\ statsOf(c).added = a /\ statsOf(c).deleted = d
      /\ statsOf(c).path = p /\ statsOf(c).newMode = m /\ statsOf(c).oldPath = o
  BY <1>7, <1>8
<1>10. statsOf(c).added + statsOf(c).deleted = Len(c.body)
  BY <1>4, <1>9
<1> QED
  BY <1>3, <1>9, <1>10, Zenon DEF p, m, o

(* The limit on lines is one on the lines of the changes. *)
LEMMA SameLength ==
  ASSUME NEW cs \in Seq(Changes)
  PROVE  /\ [n \in DOMAIN cs |-> statsOf(cs[n])] \in Seq(PatchFile)
         /\ changedLines([n \in DOMAIN cs |-> statsOf(cs[n])]) = bodyLength(cs)
<1> DEFINE N == Len(cs)
           files == [n \in DOMAIN cs |-> statsOf(cs[n])]
<1>0. N \in Nat /\ DOMAIN cs = 1 .. N /\ \A n \in 1 .. N : cs[n] \in Changes
  BY Elements
<1>1. ASSUME NEW n \in 1 .. N
      PROVE  /\ files[n] \in PatchFile /\ files[n].added + files[n].deleted = Len(cs[n].body)
             /\ Len(cs[n].body) \in Nat
  <2>1. ChangeOK(cs[n]) /\ files[n] = statsOf(cs[n])
    BY <1>0, ChangeFields
  <2>2. Len(cs[n].body) \in Nat
    BY <2>1, Elements DEF ChangeOK
  <2> QED
    BY <2>1, <2>2, StatsAre
<1>2. files \in Seq(PatchFile) /\ Len(files) = N
  <2>1. DOMAIN files = 1 .. N
    BY <1>0
  <2>2. files = [n \in 1 .. N |-> files[n]]
    BY <1>0
  <2> HIDE DEF files
  <2>3. files \in [1 .. N -> PatchFile]
    BY <1>1, <2>2
  <2> QED
    BY <1>0, <2>3
<1>3. RunsTo(LengthStep, Nat, 0, cs, bodyLength(cs))
      /\ \A x \in Nat, c \in Changes : LengthStep[<<x, c>>] = x + Len(c.body)
  BY LengthRuns
<1> HIDE DEF files
<1>4. RunsTo(LinesStep, Nat, 0, files, changedLines(files))
      /\ \A x \in Nat, f \in PatchFile : LinesStep[<<x, f>>] = x + f.added + f.deleted
  BY <1>2, LinesRuns
<1>5. PICK f \in [0 .. N -> Nat] :
        f[0] = 0 /\ f[N] = bodyLength(cs) /\ \A n \in 1 .. N : f[n] = LengthStep[<<f[n - 1], cs[n]>>]
  BY <1>3 DEF RunsTo
<1>6. ASSUME NEW n \in 1 .. N PROVE f[n] = LinesStep[<<f[n - 1], files[n]>>]
  <2>1. f[n - 1] \in Nat /\ cs[n] \in Changes
    BY <1>0
  <2>2. f[n] = f[n - 1] + Len(cs[n].body)
    BY <1>3, <1>5, <2>1
  <2>3. files[n] \in PatchFile /\ files[n].added \in Nat /\ files[n].deleted \in Nat
        /\ files[n].added + files[n].deleted = Len(cs[n].body)
    BY <1>1 DEF PatchFile
  <2>4. LinesStep[<<f[n - 1], files[n]>>] = f[n - 1] + files[n].added + files[n].deleted
    BY <1>4, <2>1, <2>3
  <2> QED
    BY <2>1, <2>2, <2>3, <2>4
<1>7. RunsTo(LinesStep, Nat, 0, files, bodyLength(cs))
  BY <1>2, <1>5, <1>6 DEF RunsTo
<1>8. changedLines(files) = bodyLength(cs)
  BY <1>2, <1>4, <1>7, RunsUnique
<1> QED
  BY <1>2, <1>8 DEF files

-----------------------------------------------------------------------------
(* What was parsed and found in the first n of some changes. *)
rawFiles(cs, n) == [i \in 1 .. n |-> rawOf(cs[i])]
allFinds(cs, n) == UNION {finds(cs[i]) : i \in 1 .. n}

verbatim(cs) == \A n \in DOMAIN cs : Verbatim(cs[n])

Parsed(patch, files) ==
  \E t \in ParseState : RunsTo(ParseStep, ParseState, ParseBase, patch, t) /\ t.files = files
Scanned(patch, found) ==
  \E t \in ScanState : RunsTo(ScanStep, ScanState, ScanBase, patch, t) /\ t.found = found

(* The file that is parsed is one. *)
LEMMA RawTypes ==
  ASSUME NEW c, ChangeOK(c)
  PROVE  rawOf(c) \in PatchFile
<1>1. signs(c, "+", Len(c.body)) \in Nat /\ signs(c, "-", Len(c.body)) \in Nat
  <2>1. Len(c.body) \in Nat
    BY Elements DEF ChangeOK
  <2> QED
    BY <2>1, SignsCounted
<1>2. c.binary \in BOOLEAN /\ modeOf(c) \in Names
  BY ModeLines DEF ChangeOK
<1> QED
  BY <1>1, <1>2, FileOfTypes DEF rawOf

(* One more file. *)
LEMMA RawGrows ==
  ASSUME NEW cs \in Seq(Changes), NEW n \in 1 .. Len(cs)
  PROVE  /\ rawFiles(cs, n - 1) \in Seq(PatchFile) /\ rawFiles(cs, n) \in Seq(PatchFile)
         /\ rawFiles(cs, n) = Append(rawFiles(cs, n - 1), rawOf(cs[n]))
<1>0. Len(cs) \in Nat /\ n \in Nat /\ n - 1 \in Nat /\ \A i \in 1 .. Len(cs) : cs[i] \in Changes
  BY Elements
<1>1. \A i \in 1 .. n : rawOf(cs[i]) \in PatchFile
  BY <1>0, ChangeFields, RawTypes
<1> DEFINE F == rawFiles(cs, n - 1)
           G == rawFiles(cs, n)
           f == rawOf(cs[n])
<1>2. F \in Seq(PatchFile) /\ Len(F) = n - 1 /\ \A i \in 1 .. (n - 1) : F[i] = rawOf(cs[i])
  BY <1>0, <1>1 DEF rawFiles
<1>3. G \in Seq(PatchFile) /\ Len(G) = n /\ \A i \in 1 .. n : G[i] = rawOf(cs[i])
  BY <1>0, <1>1 DEF rawFiles
<1>4. f \in PatchFile
  BY <1>0, <1>1
<1> HIDE DEF F, G
<1>5. /\ Append(F, f) \in Seq(PatchFile) /\ Len(Append(F, f)) = Len(F) + 1
      /\ Append(F, f)[Len(F) + 1] = f /\ \A i \in 1 .. Len(F) : Append(F, f)[i] = F[i]
  BY <1>2, <1>4, AppendProperties
<1>6. \A i \in 1 .. n : Append(F, f)[i] = G[i]
  <2>1. \A i \in 1 .. n : i = n \/ i \in 1 .. (n - 1)
    BY <1>0
  <2> QED
    BY <1>0, <1>2, <1>3, <1>5, <2>1
<1>7. G = Append(F, f)
  <2>1. Len(Append(F, f)) = n
    BY <1>0, <1>2, <1>5
  <2> QED
    BY <1>3, <1>5, <1>6, <2>1, SeqEqual
<1> QED
  BY <1>2, <1>3, <1>7 DEF F, G

(* Another file that is parsed, and another that is scanned. *)
LEMMA ParsedMore ==
  ASSUME NEW c, ChangeOK(c), Verbatim(c), NEW patch \in Patches, NEW F, Parsed(patch, F)
  PROVE  Parsed(patch \o gitDiff(c), Append(F, rawOf(c)))
<1>1. PICK t \in ParseState : RunsTo(ParseStep, ParseState, ParseBase, patch, t) /\ t.files = F
  BY DEF Parsed
<1>2. PICK in \in BOOLEAN : RunsTo(ParseStep, ParseState, t, gitDiff(c), ParseAt(t.files, rawOf(c), in))
  BY ParseDiff
<1>3. gitDiff(c) \in Seq(PatchLine) /\ patch \in Seq(PatchLine)
  BY DiffTypes DEF Patches
<1> DEFINE u == ParseAt(t.files, rawOf(c), in)
<1>4. u \in ParseState /\ u.files = Append(F, rawOf(c))
  <2>1. t.files \in Seq(PatchFile) /\ rawOf(c) \in PatchFile
    BY ParseStates, RawTypes
  <2> DEFINE G == Append(t.files, rawOf(c))
  <2>2. G \in Seq(PatchFile)
    BY <2>1
  <2> HIDE DEF G
  <2>3. [files |-> G, inHunk |-> in] \in ParseState /\ [files |-> G, inHunk |-> in].files = G
    BY <2>2, ParseStates, Zenon
  <2>4. u = [files |-> G, inHunk |-> in]
    BY Zenon DEF ParseAt, G
  <2>5. G = Append(F, rawOf(c))
    BY <1>1 DEF G
  <2> HIDE DEF u
  <2> QED
    BY <2>3, <2>4, <2>5, Zenon
<1> HIDE DEF u
<1>5. RunsTo(ParseStep, ParseState, t, gitDiff(c), u)
  BY <1>2 DEF u
<1>6. RunsTo(ParseStep, ParseState, ParseBase, patch \o gitDiff(c), u)
  BY <1>1, <1>3, <1>5, ParseBoth
<1> QED
  BY <1>4, <1>6, Zenon DEF Parsed

LEMMA ScannedMore ==
  ASSUME NEW c, ChangeOK(c), NEW patch \in Patches, NEW found, Scanned(patch, found)
  PROVE  Scanned(patch \o gitDiff(c), found \cup finds(c))
<1>1. PICK t \in ScanState : RunsTo(ScanStep, ScanState, ScanBase, patch, t) /\ t.found = found
  BY DEF Scanned
<1>2. PICK in \in BOOLEAN :
        RunsTo(ScanStep, ScanState, t, gitDiff(c),
               ScanAt(headed(headLine(c)), in, t.found \cup finds(c)))
  BY ScanDiff
<1>3. gitDiff(c) \in Seq(PatchLine) /\ patch \in Seq(PatchLine)
  BY DiffTypes DEF Patches
<1> DEFINE u == ScanAt(headed(headLine(c)), in, t.found \cup finds(c))
<1>4. u \in ScanState
  BY <1>2, <1>3, RunsType
<1>5. u.found = found \cup finds(c)
  <2>1. u.found = t.found \cup finds(c)
    BY Zenon DEF ScanAt
  <2> HIDE DEF u
  <2> QED
    BY <1>1, <2>1, Zenon
<1> HIDE DEF u
<1>6. RunsTo(ScanStep, ScanState, t, gitDiff(c), u)
  BY <1>2 DEF u
<1>7. RunsTo(ScanStep, ScanState, ScanBase, patch \o gitDiff(c), u)
  BY <1>1, <1>3, <1>6, ScanBoth
<1> QED
  BY <1>4, <1>5, <1>7, Zenon DEF Scanned

(* What the folds over the patch of some changes come to. *)
LEMMA PatchComesTo ==
  ASSUME NEW cs \in Seq(Changes)
  PROVE  /\ patchOf(cs) \in Patches
         /\ Scanned(patchOf(cs), allFinds(cs, Len(cs)))
         /\ verbatim(cs) => Parsed(patchOf(cs), rawFiles(cs, Len(cs)))
         /\ verbatim(cs) => patchOf(cs) \in Seq(ReadableLine)
<1> DEFINE N == Len(cs)
<1>0. N \in Nat /\ DOMAIN cs = 1 .. N /\ \A n \in 1 .. N : cs[n] \in Changes
  BY Elements
<1>1. /\ RunsTo(DiffStep, Patches, <<>>, cs, patchOf(cs))
      /\ \A x \in Patches, c \in Changes : DiffStep[<<x, c>>] = x \o gitDiff(c)
  BY PatchRuns
<1>2. PICK p \in [0 .. N -> Patches] :
        /\ p[0] = <<>> /\ p[N] = patchOf(cs)
        /\ \A n \in 1 .. N : p[n] = DiffStep[<<p[n - 1], cs[n]>>]
  BY <1>1 DEF RunsTo
<1> DEFINE Read(n) == /\ Scanned(p[n], allFinds(cs, n))
                      /\ verbatim(cs) => Parsed(p[n], rawFiles(cs, n))
                      /\ verbatim(cs) => p[n] \in Seq(ReadableLine)
           T == {n \in 0 .. N : Read(n)}
<1> HIDE DEF N
<1>3. 0 \in T
  <2>1. allFinds(cs, 0) = {} /\ rawFiles(cs, 0) = <<>>
    BY DEF allFinds, rawFiles
  <2>2. Scanned(<<>>, {})
    <3>1. ScanBase \in ScanState
      BY DEF ScanBase, ScanState, Names, Texts, devNull
    <3>2. RunsTo(ScanStep, ScanState, ScanBase, <<>>, ScanBase)
      BY <3>1, RunsEmpty
    <3>3. ScanBase.found = {}
      BY Zenon DEF ScanBase
    <3> QED
      BY <3>1, <3>2, <3>3, Zenon DEF Scanned
  <2>3. Parsed(<<>>, <<>>)
    <3>1. ParseBase \in ParseState
      BY DEF ParseBase, ParseState
    <3>2. RunsTo(ParseStep, ParseState, ParseBase, <<>>, ParseBase)
      BY <3>1, RunsEmpty
    <3>3. ParseBase.files = <<>>
      BY Zenon DEF ParseBase
    <3> QED
      BY <3>1, <3>2, <3>3, Zenon DEF Parsed
  <2>4. Read(0)
    <3>1. <<>> \in Seq(ReadableLine)
      OBVIOUS
    <3> QED
      BY <1>2, <2>1, <2>2, <2>3, <3>1, Zenon
  <2>5. 0 \in 0 .. N
    BY <1>0
  <2> HIDE DEF Read
  <2> QED
    BY <2>4, <2>5
<1>4. ASSUME NEW n \in 1 .. N, n - 1 \in T PROVE n \in T
  <2> DEFINE c == cs[n]
             q == p[n - 1]
  <2>1. n \in 0 .. N /\ n - 1 \in 0 .. N /\ n \in DOMAIN cs /\ c \in Changes /\ n \in 1 .. Len(cs)
    BY <1>0 DEF N
  <2>2. q \in Patches /\ p[n] = q \o gitDiff(c)
    BY <1>1, <1>2, <2>1
  <2>3. ChangeOK(c)
    BY <2>1, ChangeFields
  <2>4. /\ Scanned(q, allFinds(cs, n - 1))
        /\ verbatim(cs) => Parsed(q, rawFiles(cs, n - 1)) /\ q \in Seq(ReadableLine)
    BY <1>4
  <2>5. allFinds(cs, n) = allFinds(cs, n - 1) \cup finds(c)
    <3>1. 1 .. n = (1 .. (n - 1)) \cup {n}
      BY <2>1
    <3> QED
      BY <3>1 DEF allFinds
  <2>6. rawFiles(cs, n) = Append(rawFiles(cs, n - 1), rawOf(c))
    BY <2>1, RawGrows
  <2>7. verbatim(cs) => Verbatim(c)
    BY <2>1 DEF verbatim
  <2> HIDE DEF c, q
  <2>8. Scanned(q \o gitDiff(c), allFinds(cs, n - 1) \cup finds(c))
    BY <2>2, <2>3, <2>4, ScannedMore
  <2>9. verbatim(cs) => Parsed(q \o gitDiff(c), Append(rawFiles(cs, n - 1), rawOf(c)))
    BY <2>2, <2>3, <2>4, <2>7, ParsedMore
  <2>10. verbatim(cs) => q \o gitDiff(c) \in Seq(ReadableLine)
    <3>1. verbatim(cs) => gitDiff(c) \in Seq(ReadableLine)
      BY <2>3, <2>7, DiffReadable
    <3> QED
      BY <2>4, <3>1, ConcatItems
  <2>11. Read(n)
    BY <2>2, <2>5, <2>6, <2>8, <2>9, <2>10, Zenon
  <2> HIDE DEF Read
  <2> QED
    BY <2>1, <2>11
<1>5. N \in T
  <2> HIDE DEF T
  <2>1. N \in 0 .. N
    BY <1>0
  <2> QED
    BY <2>1, <1>0, <1>3, <1>4, Counting
<1>6. Read(N)
  <2> HIDE DEF Read
  <2> QED
    BY <1>5
<1>7. patchOf(cs) \in Patches
  BY <1>0, <1>2
<1> QED
  BY <1>2, <1>6, <1>7, Zenon DEF N

(* So the patch is parsed into the changes that made it. *)
normalised(f) == IF f.oldPath = f.path THEN [f EXCEPT !.oldPath = devNull] ELSE f

LEMMA RawStats ==
  ASSUME NEW c, ChangeOK(c)
  PROVE  normalised(rawOf(c)) = statsOf(c)
<1> DEFINE p == named(c)
           o == fromOf(c)
           a == signs(c, "+", Len(c.body))
           d == signs(c, "-", Len(c.body))
           b == c.binary
           m == modeOf(c)
           q == IF c.old = c.new \/ c.new = devNull THEN devNull ELSE c.old
<1>1. rawOf(c) = [path |-> p, oldPath |-> o, added |-> a, deleted |-> d, binary |-> b, newMode |-> m]
  BY Zenon DEF rawOf, FileOf
<1>2. statsOf(c) = [path |-> p, oldPath |-> q, added |-> a, deleted |-> d, binary |-> b, newMode |-> m]
  BY StatsAre, Zenon DEF statsFrom
<1>3. q = IF o = p THEN devNull ELSE o
  BY DEF fromOf, named
<1> HIDE DEF p, o, a, d, b, m, q
<1> DEFINE r == [path |-> p, oldPath |-> o, added |-> a, deleted |-> d, binary |-> b, newMode |-> m]
<1>4. r.oldPath = o /\ r.path = p
  BY Zenon
<1>5. [r EXCEPT !.oldPath = devNull] =
        [path |-> p, oldPath |-> devNull, added |-> a, deleted |-> d, binary |-> b, newMode |-> m]
  OBVIOUS
<1>6. normalised(r) = IF o = p THEN [r EXCEPT !.oldPath = devNull] ELSE r
  BY <1>4 DEF normalised
<1> QED
  BY <1>1, <1>2, <1>3, <1>5, <1>6

-----------------------------------------------------------------------------
(* parsePatch reads from the patch of some changes what they were. *)
LEMMA ParsedFiles ==
  ASSUME NEW cs \in Seq(Changes), verbatim(cs)
  PROVE  parsePatch(patchOf(cs)) = [n \in DOMAIN cs |-> statsOf(cs[n])]
<1> DEFINE N == Len(cs)
           files == FoldLeft(parseLine, ParseBase, patchOf(cs)).files
<1>0. N \in Nat /\ DOMAIN cs = 1 .. N /\ \A n \in 1 .. N : cs[n] \in Changes
  BY Elements
<1>1. patchOf(cs) \in Seq(PatchLine) /\ Parsed(patchOf(cs), rawFiles(cs, N))
  BY PatchComesTo DEF Patches
<1>2. files = rawFiles(cs, N)
  <2>1. PICK t \in ParseState :
          RunsTo(ParseStep, ParseState, ParseBase, patchOf(cs), t) /\ t.files = rawFiles(cs, N)
    BY <1>1 DEF Parsed
  <2>2. RunsTo(ParseStep, ParseState, ParseBase, patchOf(cs), FoldLeft(parseLine, ParseBase, patchOf(cs)))
    BY <1>1, ParseRuns
  <2> DEFINE u == FoldLeft(parseLine, ParseBase, patchOf(cs))
  <2> HIDE DEF u
  <2>3. RunsTo(ParseStep, ParseState, ParseBase, patchOf(cs), u)
    BY <2>2 DEF u
  <2>4. t = u
    BY <1>1, <2>1, <2>3, RunsUnique
  <2> QED
    BY <2>1, <2>4, Zenon DEF u
<1>3. parsePatch(patchOf(cs)) = [n \in DOMAIN files |-> normalised(files[n])]
  BY Zenon DEF parsePatch, linesParsed, ParseBase, normalised
<1> HIDE DEF files
<1>4. DOMAIN files = 1 .. N /\ \A n \in 1 .. N : files[n] = rawOf(cs[n])
  BY <1>0, <1>2 DEF rawFiles
<1>5. \A n \in 1 .. N : normalised(files[n]) = statsOf(cs[n])
  <2> SUFFICES ASSUME NEW n \in 1 .. N PROVE normalised(files[n]) = statsOf(cs[n])
    OBVIOUS
  <2>1. ChangeOK(cs[n]) /\ files[n] = rawOf(cs[n])
    BY <1>0, <1>4, ChangeFields
  <2>2. normalised(rawOf(cs[n])) = statsOf(cs[n])
    BY <2>1, RawStats
  <2> QED
    BY <2>1, <2>2, Zenon
<1> QED
  BY <1>0, <1>3, <1>4, <1>5

(* Its second loop finds what looks like a secret in them, and nothing else. *)
LEMMA SecretsFound ==
  ASSUME NEW cs \in Seq(Changes)
  PROVE  secretsIn(patchOf(cs)) = allFinds(cs, Len(cs))
<1>1. patchOf(cs) \in Seq(PatchLine) /\ Scanned(patchOf(cs), allFinds(cs, Len(cs)))
  BY PatchComesTo DEF Patches
<1>2. PICK t \in ScanState :
        RunsTo(ScanStep, ScanState, ScanBase, patchOf(cs), t) /\ t.found = allFinds(cs, Len(cs))
  BY <1>1 DEF Scanned
<1> DEFINE u == FoldLeft(scanLine, ScanBase, patchOf(cs))
<1>3. RunsTo(ScanStep, ScanState, ScanBase, patchOf(cs), u)
  BY <1>1, ScanRuns
<1>4. secretsIn(patchOf(cs)) = u.found
  BY Zenon DEF secretsIn, ScanBase
<1> HIDE DEF u
<1>5. t = u
  BY <1>1, <1>2, <1>3, RunsUnique
<1> QED
  BY <1>2, <1>4, <1>5, Zenon

LEMMA SecretsAre ==
  ASSUME NEW cs \in Seq(Changes), NEW v
  PROVE  v \in secretsIn(patchOf(cs)) <=>
           \E n \in DOMAIN cs : hasSecret(cs[n]) /\ v = <<headed(headLine(cs[n])), "secret">>
<1>0. Len(cs) \in Nat /\ DOMAIN cs = 1 .. Len(cs) /\ \A n \in 1 .. Len(cs) : cs[n] \in Changes
  BY Elements
<1>1. ASSUME NEW n \in DOMAIN cs
      PROVE  v \in finds(cs[n]) <=> hasSecret(cs[n]) /\ v = <<headed(headLine(cs[n])), "secret">>
  <2>1. ChangeOK(cs[n])
    BY <1>0, ChangeFields
  <2>2. DOMAIN cs[n].body = 1 .. Len(cs[n].body)
    BY <2>1, Elements DEF ChangeOK
  <2>3. hasSecret(cs[n]) <=> \E k \in 1 .. Len(cs[n].body) : secretAt(cs[n], k)
    BY <2>2 DEF hasSecret, secretAt
  <2> DEFINE file == headed(headLine(cs[n]))
  <2>4. v \in finds(cs[n]) <=> v \in {<<file, "secret">> : k \in {k \in 1 .. Len(cs[n].body) : secretAt(cs[n], k)}}
    BY Zenon DEF finds, findsIn
  <2> HIDE DEF file
  <2>5. v \in finds(cs[n]) <=> (\E k \in 1 .. Len(cs[n].body) : secretAt(cs[n], k)) /\ v = <<file, "secret">>
    BY <2>4
  <2> QED
    BY <2>3, <2>5 DEF file
<1>2. v \in allFinds(cs, Len(cs)) <=> \E n \in DOMAIN cs : v \in finds(cs[n])
  BY <1>0 DEF allFinds
<1> QED
  BY <1>1, <1>2, SecretsFound

-----------------------------------------------------------------------------
(* What checkPatch finds, one rule at a time. *)

Reasons == {"escapes", "git internals", "workflows", "agent configuration", "environment file"}

LEMMA ReasonsAre ==
  ASSUME NEW path
  PROVE  forbiddenPathReason(path) \in Reasons \cup {"none"}
BY Zenon DEF forbiddenPathReason, Reasons

stoppedFor(f, path) ==
  path \in {f.path, f.oldPath} /\ path # devNull /\ forbiddenPathReason(path) # "none"

LEMMA PathsAre ==
  ASSUME NEW f, NEW v
  PROVE  v \in pathViolations(f) <=>
           \E path : stoppedFor(f, path) /\ v = <<path, forbiddenPathReason(path)>>
<1> DEFINE P == {p \in {f.path, f.oldPath} \ {devNull} : forbiddenPathReason(p) # "none"}
<1>1. \A path : path \in P <=> stoppedFor(f, path)
  BY DEF stoppedFor
<1>2. pathViolations(f) = {<<path, forbiddenPathReason(path)>> : path \in P}
  BY Zenon DEF pathViolations
<1> HIDE DEF P
<1>3. v \in pathViolations(f) <=> \E path \in P : v = <<path, forbiddenPathReason(path)>>
  BY <1>2
<1> QED
  BY <1>1, <1>3, Zenon

LEMMA ModesAre ==
  ASSUME NEW f, NEW v
  PROVE  v \in modeViolations(f) <=>
           \/ f.newMode = "120000" /\ v = <<f.path, "symbolic link">>
           \/ f.newMode = "160000" /\ v = <<f.path, "submodule">>
<1>1. CASE f.newMode = "120000"
  <2>1. modeViolations(f) = {<<f.path, "symbolic link">>}
    BY <1>1, Zenon DEF modeViolations
  <2> QED
    BY <1>1, <2>1
<1>2. CASE f.newMode = "160000"
  <2>1. modeViolations(f) = {<<f.path, "submodule">>}
    BY <1>2, Zenon DEF modeViolations
  <2> QED
    BY <1>2, <2>1
<1>3. CASE f.newMode # "120000" /\ f.newMode # "160000"
  <2>1. modeViolations(f) = {}
    BY <1>3, Zenon DEF modeViolations
  <2> QED
    BY <1>3, <2>1
<1> QED
  BY <1>1, <1>2, <1>3

foundIn(files, patch) ==
  (UNION {pathViolations(files[n]) \cup modeViolations(files[n]) : n \in DOMAIN files})
  \cup (IF Len(files) > limits.maxFiles THEN {<<devNull, "files">>} ELSE {})
  \cup (IF changedLines(files) > limits.maxChangedLines THEN {<<devNull, "lines">>} ELSE {})
  \cup secretsIn(patch)

LEMMA FoundIs ==
  ASSUME NEW patch, ~throws(patch), NEW files, files = parsePatch(patch), NEW v
  PROVE  v \in checkPatch(patch, limits) <=>
           \/ \E n \in DOMAIN files : v \in pathViolations(files[n])
           \/ \E n \in DOMAIN files : v \in modeViolations(files[n])
           \/ Len(files) > limits.maxFiles /\ v = <<devNull, "files">>
           \/ changedLines(files) > limits.maxChangedLines /\ v = <<devNull, "lines">>
           \/ v \in secretsIn(patch)
<1> DEFINE A == UNION {pathViolations(files[n]) \cup modeViolations(files[n]) : n \in DOMAIN files}
           B == IF Len(files) > limits.maxFiles THEN {<<devNull, "files">>} ELSE {}
           C == IF changedLines(files) > limits.maxChangedLines THEN {<<devNull, "lines">>} ELSE {}
           D == secretsIn(patch)
<1>0. checkPatch(patch, limits) = foundIn(parsePatch(patch), patch)
  BY Zenon DEF checkPatch, foundIn
<1>1. checkPatch(patch, limits) = A \cup B \cup C \cup D
  <2>1. foundIn(files, patch) = A \cup B \cup C \cup D
    BY Zenon DEF foundIn
  <2> HIDE DEF A, B, C, D
  <2> QED
    BY <1>0, <2>1, Zenon
<1>2. v \in A <=> \/ \E n \in DOMAIN files : v \in pathViolations(files[n])
                  \/ \E n \in DOMAIN files : v \in modeViolations(files[n])
  OBVIOUS
<1>3. v \in B <=> Len(files) > limits.maxFiles /\ v = <<devNull, "files">>
  OBVIOUS
<1>4. v \in C <=> changedLines(files) > limits.maxChangedLines /\ v = <<devNull, "lines">>
  OBVIOUS
<1> HIDE DEF A, B, C
<1>5. v \in checkPatch(patch, limits) <=> v \in A \/ v \in B \/ v \in C \/ v \in D
  BY <1>1
<1> QED
  BY <1>2, <1>3, <1>4, <1>5, Zenon

(* Who tells of what. *)
LEMMA FoundWords ==
  ASSUME NEW f, NEW v
  PROVE  /\ v \in pathViolations(f) => v[2] \in Reasons
         /\ v \in modeViolations(f) => v[2] \in {"symbolic link", "submodule"}
<1>1. ASSUME v \in pathViolations(f) PROVE v[2] \in Reasons
  <2>1. PICK path : stoppedFor(f, path) /\ v = <<path, forbiddenPathReason(path)>>
    BY <1>1, PathsAre
  <2>2. forbiddenPathReason(path) \in Reasons
    BY <2>1, ReasonsAre DEF stoppedFor
  <2> QED
    BY <2>1, <2>2
<1>2. ASSUME v \in modeViolations(f) PROVE v[2] \in {"symbolic link", "submodule"}
  <2>1. CASE v = <<f.path, "symbolic link">>
    BY <2>1
  <2>2. CASE v = <<f.path, "submodule">>
    BY <2>2
  <2> QED
    BY <1>2, <2>1, <2>2, ModesAre, Zenon
<1> QED
  BY <1>1, <1>2

-----------------------------------------------------------------------------
(* The paths of a file that are judged are those of the change. *)
LEMMA PathsJudged ==
  ASSUME NEW c, ChangeOK(c), NEW v
  PROVE  /\ v \in pathViolations(statsOf(c)) <=>
              \E path \in pathsOf(c) :
                forbiddenPathReason(path) # "none" /\ v = <<path, forbiddenPathReason(path)>>
         /\ v \in modeViolations(statsOf(c)) <=>
              \/ modeOf(c) = "120000" /\ v = <<named(c), "symbolic link">>
              \/ modeOf(c) = "160000" /\ v = <<named(c), "submodule">>
         /\ named(c) \in pathsOf(c)
<1> DEFINE f == statsOf(c)
<1>1. /\ f.path = named(c) /\ f.newMode = modeOf(c)
      /\ f.oldPath = IF c.old = c.new \/ c.new = devNull THEN devNull ELSE c.old
  BY StatsAre
<1> HIDE DEF f
<1>2. \A path : path \in {f.path, f.oldPath} /\ path # devNull <=> path \in pathsOf(c)
  <2>1. ~(c.old = devNull /\ c.new = devNull)
    BY DEF ChangeOK
  <2> QED
    BY <1>1, <2>1 DEF pathsOf, named
<1>3. v \in pathViolations(f) <=>
        \E path : stoppedFor(f, path) /\ v = <<path, forbiddenPathReason(path)>>
  BY PathsAre
<1>4. \A path : stoppedFor(f, path) <=> path \in pathsOf(c) /\ forbiddenPathReason(path) # "none"
  BY <1>2, Zenon DEF stoppedFor
<1>5. v \in pathViolations(f) <=>
        \E path \in pathsOf(c) :
          forbiddenPathReason(path) # "none" /\ v = <<path, forbiddenPathReason(path)>>
  BY <1>3, <1>4, Zenon
<1>6. v \in modeViolations(f) <=>
        \/ f.newMode = "120000" /\ v = <<f.path, "symbolic link">>
        \/ f.newMode = "160000" /\ v = <<f.path, "submodule">>
  BY ModesAre
<1>7. v \in modeViolations(f) <=>
        \/ modeOf(c) = "120000" /\ v = <<named(c), "symbolic link">>
        \/ modeOf(c) = "160000" /\ v = <<named(c), "submodule">>
  BY <1>1, <1>6, Zenon
<1>8. named(c) \in pathsOf(c)
  BY NamesOf DEF pathsOf
<1> QED
  BY <1>5, <1>7, <1>8 DEF f

(* The header is read whole. *)
LEMMA HeadIsNamed ==
  ASSUME NEW c, ChangeOK(c), Verbatim(c)
  PROVE  headed(headLine(c)) = named(c)
<1>1. headLine(c).path = fromOf(c) /\ headLine(c).to = named(c)
  BY NamesOf
<1>2. ~spaced(fromOf(c)) /\ ~escaped(named(c))
  BY VerbatimNames
<1> QED
  BY <1>1, <1>2 DEF headed

(* What is found in some changes, in their own words. *)
pathFound(cs, v) ==
  \E n \in DOMAIN cs : \E path \in pathsOf(cs[n]) :
    forbiddenPathReason(path) # "none" /\ v = <<path, forbiddenPathReason(path)>>
modeFound(cs, v) ==
  \E n \in DOMAIN cs :
    \/ modeOf(cs[n]) = "120000" /\ v = <<named(cs[n]), "symbolic link">>
    \/ modeOf(cs[n]) = "160000" /\ v = <<named(cs[n]), "submodule">>
secretFound(cs, v) ==
  \E n \in DOMAIN cs : hasSecret(cs[n]) /\ v = <<named(cs[n]), "secret">>

LEMMA FoundInChanges ==
  ASSUME NEW cs \in Seq(Changes), verbatim(cs), NEW v
  PROVE  v \in checkPatch(patchOf(cs), limits) <=>
           \/ pathFound(cs, v)
           \/ modeFound(cs, v)
           \/ Len(cs) > limits.maxFiles /\ v = <<devNull, "files">>
           \/ bodyLength(cs) > limits.maxChangedLines /\ v = <<devNull, "lines">>
           \/ secretFound(cs, v)
<1> DEFINE files == parsePatch(patchOf(cs))
           N == Len(cs)
<1>0. N \in Nat /\ DOMAIN cs = 1 .. N /\ \A n \in DOMAIN cs : ChangeOK(cs[n])
  BY Elements, ChangeFields
<1>1. files = [n \in DOMAIN cs |-> statsOf(cs[n])]
  BY ParsedFiles
<1>2. changedLines(files) = bodyLength(cs)
  BY <1>1, SameLength
<1>3. Len(files) = N /\ DOMAIN files = DOMAIN cs /\ \A n \in DOMAIN cs : files[n] = statsOf(cs[n])
  <2>1. files \in Seq(PatchFile)
    BY <1>1, SameLength
  <2> DEFINE g == [n \in DOMAIN cs |-> statsOf(cs[n])]
  <2>2. DOMAIN g = DOMAIN cs /\ \A n \in DOMAIN cs : g[n] = statsOf(cs[n])
    OBVIOUS
  <2>3. files = g
    BY <1>1
  <2> HIDE DEF g, files
  <2>4. DOMAIN files = 1 .. N
    BY <1>0, <2>2, <2>3
  <2>5. Len(files) = N
    BY <1>0, <2>1, <2>4
  <2> QED
    BY <2>2, <2>3, <2>5
<1>4. files = parsePatch(patchOf(cs))
  OBVIOUS
<1> HIDE DEF files, N
<1>5. v \in checkPatch(patchOf(cs), limits) <=>
        \/ \E n \in DOMAIN files : v \in pathViolations(files[n])
        \/ \E n \in DOMAIN files : v \in modeViolations(files[n])
        \/ Len(files) > limits.maxFiles /\ v = <<devNull, "files">>
        \/ changedLines(files) > limits.maxChangedLines /\ v = <<devNull, "lines">>
        \/ v \in secretsIn(patchOf(cs))
  <2>1. ~throws(patchOf(cs))
    BY PatchComesTo, ReadableAll
  <2> QED
    BY <1>4, <2>1, FoundIs
<1>6. (\E n \in DOMAIN files : v \in pathViolations(files[n])) <=> pathFound(cs, v)
  <2>1. \A n \in DOMAIN cs :
          v \in pathViolations(statsOf(cs[n])) <=>
            \E path \in pathsOf(cs[n]) :
              forbiddenPathReason(path) # "none" /\ v = <<path, forbiddenPathReason(path)>>
    BY <1>0, PathsJudged
  <2> QED
    BY <1>3, <2>1, Zenon DEF pathFound
<1>7. (\E n \in DOMAIN files : v \in modeViolations(files[n])) <=> modeFound(cs, v)
  <2>1. \A n \in DOMAIN cs :
          v \in modeViolations(statsOf(cs[n])) <=>
            \/ modeOf(cs[n]) = "120000" /\ v = <<named(cs[n]), "symbolic link">>
            \/ modeOf(cs[n]) = "160000" /\ v = <<named(cs[n]), "submodule">>
    BY <1>0, PathsJudged
  <2> QED
    BY <1>3, <2>1, Zenon DEF modeFound
<1>8. v \in secretsIn(patchOf(cs)) <=> secretFound(cs, v)
  <2>1. \A n \in DOMAIN cs : headed(headLine(cs[n])) = named(cs[n])
    BY <1>0, HeadIsNamed DEF verbatim
  <2>2. v \in secretsIn(patchOf(cs)) <=>
          \E n \in DOMAIN cs : hasSecret(cs[n]) /\ v = <<headed(headLine(cs[n])), "secret">>
    BY SecretsAre
  <2> QED
    BY <2>1, <2>2, Zenon DEF secretFound
<1> QED
  BY <1>2, <1>3, <1>5, <1>6, <1>7, <1>8, Zenon DEF N

(* A path of the examples is judged as it should be. *)
LEMMA ExamplesJudged ==
  /\ \A path \in forbiddenExamples : forbiddenPathReason(path) # "none"
  /\ \A path \in allowedExamples : forbiddenPathReason(path) = "none"
<1>1. forbiddenPathReason(<<".env">>) # "none"
  <2> DEFINE path == <<".env">>
  <2>1. path # devNull /\ Last(path) \in envNames \ sampleNames
    BY DEF devNull, Last, envNames, sampleNames
  <2> HIDE DEF path
  <2> QED
    BY <2>1 DEF forbiddenPathReason, path
<1>2. forbiddenPathReason(<<".agent.yml">>) # "none"
  BY DEF forbiddenPathReason
<1>3. forbiddenPathReason(<<".github", "workflows", "ci">>) # "none"
  <2> DEFINE path == <<".github", "workflows", "ci">>
  <2>1. Len(path) > 2 /\ IsPrefix(<<".github", "workflows">>, path)
    BY DEF IsPrefix
  <2> HIDE DEF path
  <2> QED
    BY <2>1 DEF forbiddenPathReason, path
<1>4. forbiddenPathReason(<<"src", "a">>) = "none"
  <2> DEFINE path == <<"src", "a">>
  <2>1. ~Contains(path, "..") /\ ~Contains(path, ".git")
    BY DEF Contains
  <2>2. ~IsPrefix(<<"">>, path)
    BY DEF IsPrefix
  <2>3. ~(Len(path) > 2) /\ path # <<".agent.yml">> /\ Last(path) \notin envNames
    BY DEF Last, envNames
  <2> HIDE DEF path
  <2> QED
    BY <2>1, <2>2, <2>3 DEF forbiddenPathReason, path
<1>5. forbiddenPathReason(<<".env.example">>) = "none"
  <2> DEFINE path == <<".env.example">>
  <2>1. ~Contains(path, "..") /\ ~Contains(path, ".git")
    BY DEF Contains
  <2>2. ~IsPrefix(<<"">>, path)
    BY DEF IsPrefix
  <2>3. ~(Len(path) > 2) /\ path # <<".agent.yml">> /\ Last(path) \notin envNames \ sampleNames
    BY DEF Last, envNames, sampleNames
  <2> HIDE DEF path
  <2> QED
    BY <2>1, <2>2, <2>3 DEF forbiddenPathReason, path
<1>6. forbiddenPathReason(<<".github", "workflows", "accent">>) # "none"
  <2> DEFINE path == <<".github", "workflows", "accent">>
  <2>1. Len(path) > 2 /\ IsPrefix(<<".github", "workflows">>, path)
    BY DEF IsPrefix
  <2> HIDE DEF path
  <2> QED
    BY <2>1 DEF forbiddenPathReason, path
<1> QED
  BY <1>1, <1>2, <1>3, <1>4, <1>5, <1>6 DEF forbiddenExamples, allowedExamples

-----------------------------------------------------------------------------
-----------------------------------------------------------------------------
(* What checkPatch tells of the changes is true of them, one part after the other. *)
LEMMA PairParts ==
  ASSUME NEW v, NEW a, NEW b, v = <<a, b>>
  PROVE  v[1] = a /\ v[2] = b
OBVIOUS

(* A secret is told of if there is one, whatever the names of the files, as long as
   they can be read. *)
LEMMA SecretTold ==
  ASSUME NEW cs \in Seq(Changes), ~throws(patchOf(cs))
  PROVE  (\E n \in DOMAIN cs : hasSecret(cs[n])) <=>
           \E v \in checkPatch(patchOf(cs), limits) : v[2] = "secret"
<1> DEFINE patch == patchOf(cs)
           files == parsePatch(patch)
<1>1. \A v : v \in secretsIn(patch) <=>
               \E n \in DOMAIN cs : hasSecret(cs[n]) /\ v = <<headed(headLine(cs[n])), "secret">>
  BY SecretsAre
<1>2. \A v : v \in checkPatch(patch, limits) <=>
               \/ \E n \in DOMAIN files : v \in pathViolations(files[n])
               \/ \E n \in DOMAIN files : v \in modeViolations(files[n])
               \/ Len(files) > limits.maxFiles /\ v = <<devNull, "files">>
               \/ changedLines(files) > limits.maxChangedLines /\ v = <<devNull, "lines">>
               \/ v \in secretsIn(patch)
  BY FoundIs
<1> HIDE DEF files, patch
<1>3. ASSUME NEW n \in DOMAIN cs, hasSecret(cs[n])
      PROVE  \E v \in checkPatch(patch, limits) : v[2] = "secret"
  <2> DEFINE w == <<headed(headLine(cs[n])), "secret">>
  <2>1. w \in checkPatch(patch, limits)
    <3>1. w \in secretsIn(patch)
      BY <1>1, <1>3, Zenon
    <3> QED
      BY <1>2, <3>1, Zenon
  <2>2. w[2] = "secret"
    OBVIOUS
  <2> QED
    BY <2>1, <2>2
<1>4. ASSUME NEW v \in checkPatch(patch, limits), v[2] = "secret"
      PROVE  \E n \in DOMAIN cs : hasSecret(cs[n])
  <2>1. \A f : v \notin pathViolations(f) /\ v \notin modeViolations(f)
    <3> SUFFICES ASSUME NEW f PROVE v \notin pathViolations(f) /\ v \notin modeViolations(f)
      OBVIOUS
    <3>1. /\ v \in pathViolations(f) => v[2] \in Reasons
          /\ v \in modeViolations(f) => v[2] \in {"symbolic link", "submodule"}
      BY FoundWords
    <3> QED
      BY <1>4, <3>1 DEF Reasons
  <2>2. v # <<devNull, "files">> /\ v # <<devNull, "lines">>
    BY <1>4
  <2>3. v \in secretsIn(patch)
    BY <1>2, <2>1, <2>2, Zenon
  <2> QED
    BY <1>1, <2>3, Zenon
<1> QED
  BY <1>3, <1>4 DEF patch

(* No file is changed twice. *)
Apart(cs) == \A m, n \in DOMAIN cs : m # n => pathsOf(cs[m]) \cap pathsOf(cs[n]) = {}

LEMMA NamesApart ==
  ASSUME NEW cs \in Seq(Changes), Apart(cs)
  PROVE  \A m, n \in DOMAIN cs : named(cs[m]) = named(cs[n]) => m = n
<1>1. \A n \in DOMAIN cs : named(cs[n]) \in pathsOf(cs[n])
  BY Elements, ChangeFields, PathsJudged
<1> QED
  BY <1>1 DEF Apart

(* Of a file that is named, the secrets and the mode are found for itself. *)
LEMMA FileTold ==
  ASSUME NEW cs \in Seq(Changes), Apart(cs), verbatim(cs), NEW n \in DOMAIN cs
  PROVE  /\ hasSecret(cs[n]) <=> <<named(cs[n]), "secret">> \in checkPatch(patchOf(cs), limits)
         /\ (<<named(cs[n]), "symbolic link">> \in checkPatch(patchOf(cs), limits))
              <=> modeOf(cs[n]) = "120000"
         /\ (<<named(cs[n]), "submodule">> \in checkPatch(patchOf(cs), limits))
              <=> modeOf(cs[n]) = "160000"
<1> DEFINE found == checkPatch(patchOf(cs), limits)
<1>1. \A v : v \in found <=>
               \/ pathFound(cs, v)
               \/ modeFound(cs, v)
               \/ Len(cs) > limits.maxFiles /\ v = <<devNull, "files">>
               \/ bodyLength(cs) > limits.maxChangedLines /\ v = <<devNull, "lines">>
               \/ secretFound(cs, v)
  BY FoundInChanges
<1> HIDE DEF found
<1> DEFINE Fine(v) == v[2] \in {"secret", "symbolic link", "submodule"}
<1>2. ASSUME NEW v, Fine(v)
      PROVE  v \in found <=> modeFound(cs, v) \/ secretFound(cs, v)
  <2>1. ~pathFound(cs, v)
    <3> SUFFICES ASSUME pathFound(cs, v) PROVE FALSE
      OBVIOUS
    <3>1. PICK path : forbiddenPathReason(path) # "none" /\ v = <<path, forbiddenPathReason(path)>>
      BY DEF pathFound
    <3>2. forbiddenPathReason(path) \in Reasons
      BY <3>1, ReasonsAre
    <3> QED
      BY <1>2, <3>1, <3>2 DEF Reasons
  <2>2. v # <<devNull, "files">> /\ v # <<devNull, "lines">>
    <3>1. v[2] # "files" /\ v[2] # "lines"
      BY <1>2
    <3> QED
      BY <3>1, PairParts
  <2> QED
    BY <1>1, <2>1, <2>2, Zenon
<1> HIDE DEF Fine
<1>3. \A m \in DOMAIN cs : named(cs[m]) = named(cs[n]) => m = n
  BY NamesApart
<1>4. hasSecret(cs[n]) <=> <<named(cs[n]), "secret">> \in found
  <2> DEFINE v == <<named(cs[n]), "secret">>
  <2>0. Fine(v)
    BY DEF Fine
  <2>1. v \in found <=> modeFound(cs, v) \/ secretFound(cs, v)
    <3> HIDE DEF v
    <3> QED
      BY <1>2, <2>0, Zenon
  <2>2. ~modeFound(cs, v)
    BY DEF modeFound
  <2>3. secretFound(cs, v) <=> hasSecret(cs[n])
    BY <1>3 DEF secretFound
  <2> QED
    BY <2>1, <2>2, <2>3, Zenon
<1>5. (<<named(cs[n]), "symbolic link">> \in found) <=> modeOf(cs[n]) = "120000"
  <2> DEFINE v == <<named(cs[n]), "symbolic link">>
  <2>0. Fine(v)
    BY DEF Fine
  <2>1. v \in found <=> modeFound(cs, v) \/ secretFound(cs, v)
    <3> HIDE DEF v
    <3> QED
      BY <1>2, <2>0, Zenon
  <2>2. ~secretFound(cs, v)
    BY DEF secretFound
  <2>3. modeFound(cs, v) <=> modeOf(cs[n]) = "120000"
    BY <1>3 DEF modeFound
  <2> QED
    BY <2>1, <2>2, <2>3, Zenon
<1>6. (<<named(cs[n]), "submodule">> \in found) <=> modeOf(cs[n]) = "160000"
  <2> DEFINE v == <<named(cs[n]), "submodule">>
  <2>0. Fine(v)
    BY DEF Fine
  <2>1. v \in found <=> modeFound(cs, v) \/ secretFound(cs, v)
    <3> HIDE DEF v
    <3> QED
      BY <1>2, <2>0, Zenon
  <2>2. ~secretFound(cs, v)
    BY DEF secretFound
  <2>3. modeFound(cs, v) <=> modeOf(cs[n]) = "160000"
    BY <1>3 DEF modeFound
  <2> QED
    BY <2>1, <2>2, <2>3, Zenon
<1> QED
  BY <1>4, <1>5, <1>6 DEF found

(* A patch is stopped for a path of it that must not change, and for no other. *)
LEMMA PathTold ==
  ASSUME NEW cs \in Seq(Changes), verbatim(cs), NEW n \in DOMAIN cs, NEW path \in pathsOf(cs[n])
  PROVE  (\E v \in checkPatch(patchOf(cs), limits) :
            v[1] = path /\ v[2] \notin {"secret", "symbolic link", "submodule"})
           <=> forbiddenPathReason(path) # "none"
<1> DEFINE found == checkPatch(patchOf(cs), limits)
<1>1. \A v : v \in found <=>
               \/ pathFound(cs, v)
               \/ modeFound(cs, v)
               \/ Len(cs) > limits.maxFiles /\ v = <<devNull, "files">>
               \/ bodyLength(cs) > limits.maxChangedLines /\ v = <<devNull, "lines">>
               \/ secretFound(cs, v)
  BY FoundInChanges
<1> HIDE DEF found
<1>2. ASSUME forbiddenPathReason(path) # "none"
      PROVE  \E v \in found : v[1] = path /\ v[2] \notin {"secret", "symbolic link", "submodule"}
  <2> DEFINE v == <<path, forbiddenPathReason(path)>>
  <2>1. pathFound(cs, v)
    BY <1>2, Zenon DEF pathFound
  <2>2. v \in found
    BY <1>1, <2>1, Zenon
  <2>3. forbiddenPathReason(path) \in Reasons
    BY <1>2, ReasonsAre
  <2>4. v[1] = path /\ v[2] \notin {"secret", "symbolic link", "submodule"}
    BY <2>3 DEF Reasons
  <2> QED
    BY <2>2, <2>4
<1>3. ASSUME NEW v \in found, v[1] = path, v[2] \notin {"secret", "symbolic link", "submodule"}
      PROVE  forbiddenPathReason(path) # "none"
  <2>1. path # devNull
    BY DEF pathsOf
  <2>2. v # <<devNull, "files">> /\ v # <<devNull, "lines">>
    BY <1>3, <2>1, PairParts
  <2>3. ~modeFound(cs, v)
    <3> SUFFICES ASSUME NEW m, v = <<named(cs[m]), "symbolic link">> \/ v = <<named(cs[m]), "submodule">>
                 PROVE  FALSE
      BY DEF modeFound
    <3>1. v[2] \in {"secret", "symbolic link", "submodule"}
      BY PairParts
    <3> QED
      BY <1>3, <3>1
  <2>4. ~secretFound(cs, v)
    <3> SUFFICES ASSUME NEW m, v = <<named(cs[m]), "secret">> PROVE FALSE
      BY DEF secretFound
    <3>1. v[2] \in {"secret", "symbolic link", "submodule"}
      BY PairParts
    <3> QED
      BY <1>3, <3>1
  <2>5. pathFound(cs, v)
    BY <1>1, <2>2, <2>3, <2>4, Zenon
  <2>6. PICK p : forbiddenPathReason(p) # "none" /\ v = <<p, forbiddenPathReason(p)>>
    BY <2>5, Zenon DEF pathFound
  <2>7. p = path
    BY <1>3, <2>6
  <2> QED
    BY <2>6, <2>7
<1> QED
  BY <1>2, <1>3 DEF found

(* The limits are told of, if and only if they are passed. *)
LEMMA LimitsTold ==
  ASSUME NEW cs \in Seq(Changes), verbatim(cs)
  PROVE  /\ (<<devNull, "files">> \in checkPatch(patchOf(cs), limits)) <=> Len(cs) > limits.maxFiles
         /\ (<<devNull, "lines">> \in checkPatch(patchOf(cs), limits))
              <=> bodyLength(cs) > limits.maxChangedLines
<1> DEFINE found == checkPatch(patchOf(cs), limits)
<1>1. \A v : v \in found <=>
               \/ pathFound(cs, v)
               \/ modeFound(cs, v)
               \/ Len(cs) > limits.maxFiles /\ v = <<devNull, "files">>
               \/ bodyLength(cs) > limits.maxChangedLines /\ v = <<devNull, "lines">>
               \/ secretFound(cs, v)
  BY FoundInChanges
<1> HIDE DEF found
<1>2. ASSUME NEW v, v[2] \in {"files", "lines"}
      PROVE  ~pathFound(cs, v) /\ ~modeFound(cs, v) /\ ~secretFound(cs, v)
  <2>1. ~pathFound(cs, v)
    <3> SUFFICES ASSUME pathFound(cs, v) PROVE FALSE
      OBVIOUS
    <3>1. PICK path : forbiddenPathReason(path) # "none" /\ v = <<path, forbiddenPathReason(path)>>
      BY DEF pathFound
    <3>2. forbiddenPathReason(path) \in Reasons
      BY <3>1, ReasonsAre
    <3> QED
      BY <1>2, <3>1, <3>2 DEF Reasons
  <2>2. ~modeFound(cs, v)
    <3> SUFFICES ASSUME NEW m, v = <<named(cs[m]), "symbolic link">> \/ v = <<named(cs[m]), "submodule">>
                 PROVE  FALSE
      BY DEF modeFound
    <3>1. v[2] \in {"secret", "symbolic link", "submodule"}
      BY PairParts
    <3> QED
      BY <1>2, <3>1
  <2>3. ~secretFound(cs, v)
    <3> SUFFICES ASSUME NEW m, v = <<named(cs[m]), "secret">> PROVE FALSE
      BY DEF secretFound
    <3>1. v[2] \in {"secret", "symbolic link", "submodule"}
      BY PairParts
    <3> QED
      BY <1>2, <3>1
  <2> QED
    BY <2>1, <2>2, <2>3
<1>3. (<<devNull, "files">> \in found) <=> Len(cs) > limits.maxFiles
  <2> DEFINE v == <<devNull, "files">>
  <2>1. ~pathFound(cs, v) /\ ~modeFound(cs, v) /\ ~secretFound(cs, v)
    BY <1>2
  <2>2. v # <<devNull, "lines">>
    OBVIOUS
  <2> QED
    BY <1>1, <2>1, <2>2, Zenon
<1>4. (<<devNull, "lines">> \in found) <=> bodyLength(cs) > limits.maxChangedLines
  <2> DEFINE v == <<devNull, "lines">>
  <2>1. ~pathFound(cs, v) /\ ~modeFound(cs, v) /\ ~secretFound(cs, v)
    BY <1>2
  <2>2. v # <<devNull, "files">>
    OBVIOUS
  <2> QED
    BY <1>1, <2>1, <2>2, Zenon
<1> QED
  BY <1>3, <1>4 DEF found

-----------------------------------------------------------------------------
(* Every file is changed once. *)
ChangesInv == changes \in Seq(Changes) /\ Apart(changes)

LEMMA ChangesStep == ChangesInv /\ [Next]_vars => ChangesInv'
<1> SUFFICES ASSUME ChangesInv, [Next]_vars
             PROVE  ChangesInv'
  OBVIOUS
<1>1. CASE Edit
  <2>1. PICK c \in Changes : /\ \A n \in DOMAIN changes : pathsOf(changes[n]) \cap pathsOf(c) = {}
                             /\ changes' = Append(changes, c)
    BY <1>1 DEF Edit
  <2> DEFINE N == Len(changes)
  <2>2. N \in Nat /\ DOMAIN changes = 1 .. N
    BY DEF ChangesInv
  <2>3. /\ changes' \in Seq(Changes) /\ DOMAIN changes' = 1 .. N + 1
        /\ \A n \in 1 .. N : changes'[n] = changes[n]
        /\ changes'[N + 1] = c
    BY <2>1 DEF ChangesInv
  <2> HIDE DEF N
  <2>4. \A m, n \in 1 .. N + 1 : m # n => pathsOf(changes'[m]) \cap pathsOf(changes'[n]) = {}
    <3> SUFFICES ASSUME NEW m \in 1 .. N + 1, NEW n \in 1 .. N + 1, m # n
                 PROVE  pathsOf(changes'[m]) \cap pathsOf(changes'[n]) = {}
      OBVIOUS
    <3>1. CASE m \in 1 .. N /\ n \in 1 .. N
      BY <2>2, <2>3, <3>1 DEF ChangesInv, Apart
    <3>2. CASE m \in 1 .. N /\ n = N + 1
      BY <2>1, <2>2, <2>3, <3>2
    <3>3. CASE m = N + 1 /\ n \in 1 .. N
      BY <2>1, <2>2, <2>3, <3>3
    <3> QED
      BY <2>2, <3>1, <3>2, <3>3
  <2> QED
    BY <2>3, <2>4 DEF ChangesInv, Apart
<1>2. ASSUME UNCHANGED changes PROVE ChangesInv'
  BY <1>2 DEF ChangesInv, Apart
<1>3. CASE ~Edit
  <2>1. UNCHANGED changes
    BY <1>3 DEF Next, vars, MakePlan, Prints, Install, InstallEnds, Prepare, TestsExit,
                TestsKilled, Judge
  <2> QED
    BY <1>2, <2>1
<1> QED
  BY <1>1, <1>3

(* Plain names on both sides of each change. *)
LEMMA PlainChanges ==
  ASSUME NEW cs \in Seq(Changes),
         \A n \in DOMAIN cs : \A path \in pathsOf(cs[n]) : plain(path)
  PROVE  verbatim(cs)
<1>1. plain(devNull)
  BY NothingInNull DEF plain, spaced, escaped
<1>2. \A n \in DOMAIN cs : plain(cs[n].old) /\ plain(cs[n].new)
  BY <1>1 DEF pathsOf
<1> QED
  BY <1>2 DEF verbatim, Verbatim

(* All parts of PatchIsRead. *)
LEMMA PatchTold == ChangesInv => PatchIsRead
<1> SUFFICES ASSUME ChangesInv PROVE PatchIsRead
  OBVIOUS
<1> DEFINE files == parsePatch(patchOf(changes))
           found == checkPatch(patchOf(changes), limits)
           Plain == \A n \in DOMAIN changes : \A path \in pathsOf(changes[n]) : plain(path)
           Sensed == throws(patchOf(changes)) \/
                       ((\E n \in DOMAIN changes : hasSecret(changes[n]))
                          <=> \E v \in found : v[2] = "secret")
           Secrets == \A n \in DOMAIN changes :
                        hasSecret(changes[n]) <=> <<named(changes[n]), "secret">> \in found
           AsChanged == files = [n \in DOMAIN changes |-> statsOf(changes[n])]
           Paths == \A path \in UNION {pathsOf(changes[n]) : n \in DOMAIN changes} :
                      LET stopped == \E v \in found : v[1] = path /\ v[2] \notin {"secret", "symbolic link",
                                                                                    "submodule"}
                      IN (path \in forbiddenExamples => stopped) /\ (path \in allowedExamples => ~stopped)
           Modes == \A n \in DOMAIN changes :
                      changes[n].new # devNull =>
                        /\ <<changes[n].new, "symbolic link">> \in found <=> changes[n].mode = "120000"
                        /\ <<changes[n].new, "submodule">> \in found <=> changes[n].mode = "160000"
           Limits == /\ <<devNull, "files">> \in found <=> Len(changes) > limits.maxFiles
                     /\ <<devNull, "lines">> \in found <=> bodyLength(changes) > limits.maxChangedLines
<1>1. changes \in Seq(Changes) /\ Apart(changes)
  BY DEF ChangesInv
<1>2. Sensed
  BY <1>1, SecretTold
<1>3. ASSUME Plain PROVE Secrets /\ AsChanged /\ Paths /\ Modes /\ Limits
  <2>1. verbatim(changes)
    BY <1>1, <1>3, PlainChanges
  <2>2. Secrets
    BY <1>1, <2>1, FileTold
  <2>3. AsChanged
    BY <1>1, <2>1, ParsedFiles
  <2>4. Paths
    <3> SUFFICES ASSUME NEW n \in DOMAIN changes, NEW path \in pathsOf(changes[n])
                 PROVE  LET stopped == \E v \in found : v[1] = path /\ v[2] \notin {"secret", "symbolic link",
                                                                                     "submodule"}
                        IN (path \in forbiddenExamples => stopped) /\ (path \in allowedExamples => ~stopped)
      OBVIOUS
    <3> DEFINE stopped == \E v \in found : v[1] = path /\ v[2] \notin {"secret", "symbolic link", "submodule"}
    <3>1. stopped <=> forbiddenPathReason(path) # "none"
      BY <1>1, <2>1, PathTold
    <3> HIDE DEF stopped
    <3>2. (path \in forbiddenExamples => stopped) /\ (path \in allowedExamples => ~stopped)
      BY <3>1, ExamplesJudged
    <3> QED
      BY <3>2, Zenon DEF stopped
  <2>5. Modes
    <3> SUFFICES ASSUME NEW n \in DOMAIN changes, changes[n].new # devNull
                 PROVE  /\ <<changes[n].new, "symbolic link">> \in found <=> changes[n].mode = "120000"
                        /\ <<changes[n].new, "submodule">> \in found <=> changes[n].mode = "160000"
      OBVIOUS
    <3>1. named(changes[n]) = changes[n].new /\ modeOf(changes[n]) = changes[n].mode
      BY DEF named, modeOf
    <3>2. /\ (<<named(changes[n]), "symbolic link">> \in found) <=> modeOf(changes[n]) = "120000"
          /\ (<<named(changes[n]), "submodule">> \in found) <=> modeOf(changes[n]) = "160000"
      BY <1>1, <2>1, FileTold
    <3> HIDE DEF found
    <3> QED
      BY <3>1, <3>2, Zenon
  <2>6. Limits
    BY <1>1, <2>1, LimitsTold
  <2> QED
    BY <2>2, <2>3, <2>4, <2>5, <2>6
<1>4. PatchIsRead <=>
        /\ Sensed
        /\ Plain => Secrets /\ AsChanged /\ Paths /\ Modes /\ Limits
  BY Zenon DEF PatchIsRead
<1> HIDE DEF Sensed, Plain, Secrets, AsChanged, Paths, Modes, Limits, found
<1> QED
  BY <1>2, <1>3, <1>4, Zenon

(* What parsePatch reads and checkPatch finds in the patch of a sandbox is what the
   agent changed, however many files and lines that are, if git writes their names
   as they are; and secrets are found under any names that can be read. *)
THEOREM PatchRead == Spec => []PatchIsRead
<1>1. Init => ChangesInv
  BY DEF Init, ChangesInv, Apart
<1>2. ChangesInv => PatchIsRead
  BY PatchTold
<1> QED
  BY <1>1, <1>2, ChangesStep, PTL DEF Spec
=============================================================================
