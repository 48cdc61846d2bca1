-------------------------- MODULE PushMemoryProofs --------------------------
(***************************************************************************)
(* A push whose options were accepted has a worker and pins no more in its *)
(* two pools than the budget allows, for every set of options and every    *)
(* value of the constants of the code.                                     *)
(*                                                                         *)
(* Sum is a fold, hence a recursion over the subsets of a domain: that it  *)
(* has a solution, and what it adds up to, is shown by induction on their  *)
(* size.  The bound then is a count: no buffer is larger than a chunk (or  *)
(* a frame), and each one is in its pool, with the reader or with a worker.*)
(***************************************************************************)
EXTENDS PushMemory, TLAPS, FiniteSetTheorems, WellFoundedInduction

-----------------------------------------------------------------------------
(* The arithmetic that sizes a push.                                       *)

\* Floor division, as the provers need it.
LEMMA Division ==
    ASSUME NEW a \in Int, NEW b \in Nat \ {0}
    PROVE  /\ a \div b \in Int
           /\ b * (a \div b) <= a /\ a < b * (a \div b) + b
<1>1. a \div b \in Int
      OBVIOUS
<1>2. b * (a \div b) <= a
      OBVIOUS
<1>3. a < b * (a \div b) + b
      OBVIOUS
<1> QED BY <1>1, <1>2, <1>3

\* A product grows with either factor.
LEMMA Monotone ==
    ASSUME NEW a \in Int, NEW b \in Int, NEW c \in Nat, a <= b
    PROVE  c * a \in Int /\ c * b \in Int /\ c * a <= c * b
OBVIOUS

\* int64 leaves a number within the word alone.
LEMMA NoWrap ==
    ASSUME NEW x \in Nat, x < IntMax
    PROVE  int64(x) = x
<1>1. IntMax \in Nat \ {0} /\ x + IntMax \in Nat /\ x + IntMax < 2 * IntMax
      BY SizesAssumption
<1>2. (x + IntMax) % (2 * IntMax) = x + IntMax
      BY <1>1
<1> QED BY <1>1, <1>2 DEF int64

\* int64 returns an integer.
LEMMA int64Type ==
    ASSUME NEW x \in Int PROVE int64(x) \in Int
<1>1. x + IntMax \in Int /\ 2 * IntMax \in Nat \ {0}
      BY SizesAssumption
<1>2. (x + IntMax) % (2 * IntMax) \in Int
      BY <1>1
<1> QED BY <1>2, SizesAssumption DEF int64

\* The worker count before the budget is considered is positive.
LEMMA ConcurrencyType ==
    ASSUME NEW c \in Int PROVE Concurrency(c) \in Nat \ {0}
BY SizesAssumption DEF Concurrency

\* An effective budget is positive.
LEMMA BudgetType ==
    ASSUME NEW mib \in Int, NEW default \in Nat \ {0}
    PROVE  Budget(mib, default) \in Nat \ {0}
<1>1. mib * MiB \in Int
      BY SizesAssumption
<1>2. int64(mib * MiB) \in Int
      BY <1>1, int64Type
<1> QED BY <1>2 DEF Budget

\* A chunk size within the cap keeps its byte count, and four of them still
\* fit an int64: neither shift nor floor check of pipelineParams can overflow.
LEMMA ChunkSizeExact ==
    ASSUME NEW o \in PushOptions, o.chunkSizeMiB <= maxChunkSizeMiB
    PROVE  /\ ChunkSize(o) \in Nat
           /\ int64(4 * ChunkSize(o)) = 4 * ChunkSize(o)
<1> DEFINE mib == IF o.chunkSizeMiB > 0 THEN o.chunkSizeMiB ELSE 0
<1>1. mib \in Nat /\ mib <= maxChunkSizeMiB
      BY SizesAssumption DEF PushOptions
<1>2. /\ MiB * mib \in Int /\ MiB * maxChunkSizeMiB \in Int
      /\ MiB * mib <= MiB * maxChunkSizeMiB
      BY <1>1, Monotone, SizesAssumption
<1>3. mib * MiB \in Nat /\ mib * MiB <= maxChunkSizeMiB * MiB
      BY <1>1, <1>2, SizesAssumption
<1>4. 4 * (mib * MiB) \in Nat /\ 4 * (mib * MiB) < IntMax /\ mib * MiB < IntMax
      BY <1>3, SizesAssumption
<1>5. int64(mib * MiB) = mib * MiB /\ int64(4 * (mib * MiB)) = 4 * (mib * MiB)
      BY <1>3, <1>4, NoWrap
<1>6. ChunkSize(o) = mib * MiB
      BY <1>5 DEF ChunkSize
<1> QED BY <1>3, <1>5, <1>6

\* Accepted options fit: both pools, with one buffer more than workers each,
\* stay within the effective budget, and there is at least one worker
\* (pipelineParams, pushpipeline.go:291-315).
THEOREM PushPoolsFit ==
    ASSUME NEW o \in PushOptions,
           pipelineParams(o).ok, pipelineParams(o).chunkSize # 0
    PROVE  LET p == pipelineParams(o)
           IN  /\ p.workers \in Nat \ {0} /\ p.workers <= Concurrency(o.concurrency)
               /\ p.chunkSize \in Nat \ {0}
               /\ 2 * p.chunkSize * (p.workers + 1) <= PushBudget(o)
<1> DEFINE c == ChunkSize(o)
           b == PushBudget(o)
           q == b \div (2 * c)
           p == pipelineParams(o)
<1>1. /\ ~(o.chunkSizeMiB > maxChunkSizeMiB) /\ c # 0
      /\ ~(int64(4 * c) > b)
      /\ p.workers = Workers(o) /\ p.chunkSize = c
      BY DEF pipelineParams, Rejected
<1>2. o.chunkSizeMiB <= maxChunkSizeMiB
      BY <1>1, SizesAssumption DEF PushOptions
<1>3. c \in Nat \ {0} /\ int64(4 * c) = 4 * c
      BY <1>1, <1>2, ChunkSizeExact
<1>4. defaultPushMemoryBudgetMiB * MiB \in Nat \ {0}
      BY SizesAssumption
<1>5. b \in Nat \ {0}
      BY <1>4, BudgetType DEF PushBudget, PushOptions
<1>6. 4 * c <= b
      BY <1>1, <1>3, <1>5
<1>7. 2 * c \in Nat \ {0}
      BY <1>3
<1>8. q \in Int /\ (2 * c) * q <= b /\ b < (2 * c) * q + 2 * c
      BY <1>5, <1>7, Division
<1>9. q >= 2
  <2>1. SUFFICES ASSUME q <= 1 PROVE FALSE
        BY <1>8
  <2>2. (2 * c) * q <= (2 * c) * 1
        BY <2>1, <1>7, <1>8, Monotone
  <2>3. (2 * c) * 1 = 2 * c /\ 2 * c + 2 * c = 4 * c /\ (2 * c) * q \in Int
        BY <1>3, <1>8
  <2> HIDE DEF c, b, q
  <2> QED BY <2>2, <2>3, <1>3, <1>5, <1>6, <1>8
<1>10. Concurrency(o.concurrency) \in Nat \ {0}
      BY ConcurrencyType DEF PushOptions
<1>11. /\ p.workers \in Nat \ {0} /\ p.workers <= Concurrency(o.concurrency)
       /\ p.workers + 1 <= q
      BY <1>1, <1>8, <1>9, <1>10 DEF Workers, AtMost
<1>12. (2 * c) * (p.workers + 1) <= (2 * c) * q
      BY <1>7, <1>8, <1>11, Monotone
<1>13. 2 * p.chunkSize * (p.workers + 1) = (2 * c) * (p.workers + 1)
      BY <1>1
<1>14. 2 * p.chunkSize * (p.workers + 1) <= b
  <2> HIDE DEF c, b, q, p
  <2> QED BY <1>5, <1>7, <1>8, <1>11, <1>12, <1>13, <1>3
<1>15. p.chunkSize \in Nat \ {0}
      BY <1>1, <1>3
<1> QED BY <1>11, <1>14, <1>15

\* A budget never exceeds what was asked for: one whose byte count overflows
\* is cut, or replaced by the default.
THEOREM BudgetNeverExceedsRequest ==
    ASSUME NEW mib \in Nat \ {0}, NEW default \in Nat \ {0}, default < IntMax
    PROVE  Budget(mib, default) <= mib * MiB
<1> DEFINE x == mib * MiB
<1>1. x \in Nat \ {0} /\ int64(x) \in Int
      BY int64Type, SizesAssumption
<1>2. CASE x < IntMax
      BY <1>1, <1>2, NoWrap DEF Budget
<1>3. CASE x >= IntMax
  <2>1. x + IntMax \in Nat /\ 2 * IntMax \in Nat \ {0} /\ IntMax \in Nat
        BY <1>1, SizesAssumption
  <2>2. (x + IntMax) % (2 * IntMax) < 2 * IntMax /\ (x + IntMax) % (2 * IntMax) \in Int
        BY <2>1
  <2>3. int64(x) < IntMax
        BY <2>1, <2>2 DEF int64
  <2> QED BY <1>1, <1>3, <2>1, <2>3 DEF Budget
<1> QED BY <1>1, <1>2, <1>3, SizesAssumption

-----------------------------------------------------------------------------
(* The memory of a push.                                                   *)

\* The parameters in use are the ones pipelineParams computed.
ParamsInv == /\ opts \in PushOptions
             /\ pc # "params" => params = pipelineParams(opts)
             /\ pc \in {"running", "unchunked"} => params.ok

\* Accepted options always leave a worker, chunked or not.
LEMMA AcceptedHasWorker ==
    ASSUME NEW o \in PushOptions, pipelineParams(o).ok
    PROVE  pipelineParams(o).workers \in 1..Concurrency(o.concurrency)
<1>1. Concurrency(o.concurrency) \in Nat \ {0}
      BY ConcurrencyType DEF PushOptions
<1>2. CASE pipelineParams(o).chunkSize # 0
      BY <1>1, <1>2, PushPoolsFit
<1>3. CASE pipelineParams(o).chunkSize = 0
  <2>1. pipelineParams(o).workers = Concurrency(o.concurrency)
        BY <1>3 DEF pipelineParams, Rejected
  <2> QED BY <1>1, <2>1
<1> QED BY <1>2, <1>3

\* Only Params sets the parameters, and no step changes the options.
LEMMA ParamsInvariant == Spec => []ParamsInv
<1>1. Init => ParamsInv
      BY OptionsAssumption DEF Init, ParamsInv
<1>2. ParamsInv /\ [Next]_vars => ParamsInv'
  <2> SUFFICES ASSUME ParamsInv, [Next]_vars PROVE ParamsInv'
      OBVIOUS
  <2>1. CASE Params
        BY <2>1 DEF ParamsInv, Params
  <2>2. CASE UNCHANGED <<opts, pc, params>>
        BY <2>2 DEF ParamsInv
  <2>3. [Next]_vars => Params \/ UNCHANGED <<opts, pc, params>>
        BY DEF Next, vars, Stopped, Fill, Go, TakeOut, Encode, PutOut, PutRaw
  <2> QED BY <2>1, <2>2, <2>3
<1> QED BY <1>1, <1>2, PTL DEF Spec

\* No accepted combination of concurrency, chunk size and memory budget leaves
\* the errgroup of a push with a limit of zero or less (pushpipeline.go:143,
\* 292-316).
THEOREM WorkerGuaranteed == Spec => []AlwaysAWorker
<1>1. ParamsInv => AlwaysAWorker
      BY AcceptedHasWorker DEF ParamsInv, AlwaysAWorker
<1> QED BY <1>1, ParamsInvariant, PTL

-----------------------------------------------------------------------------
(* Sums.                                                                   *)

\* Induction over the naturals, for a set instead of a predicate.
LEMMA Induction ==
    ASSUME NEW S, 0 \in S, \A n \in Nat : n \in S => n + 1 \in S
    PROVE  Nat \subseteq S
<1> DEFINE T == Nat \ S
           R == OpToRel(<, Nat)
<1> SUFFICES ASSUME T # {} PROVE FALSE
  OBVIOUS
<1>1. IsWellFoundedOn(R, Nat)
  BY NatLessThanWellFounded
<1>2. PICK x \in T : \A y \in T : ~(<<y, x>> \in R)
  <2> HIDE DEF R
  <2> QED
    BY <1>1, WFMin
<1>3. x \in Nat /\ x # 0
  OBVIOUS
<1>4. x - 1 \in Nat /\ <<x - 1, x>> \in R
  <2>1. x - 1 \in Nat /\ x - 1 < x
    BY <1>3
  <2> QED
    BY <1>3, <2>1 DEF OpToRel
<1>5. x - 1 \in S
  BY <1>2, <1>4
<1>6. (x - 1) + 1 \in S
  BY <1>4, <1>5, Zenon
<1>7. (x - 1) + 1 = x
  BY <1>3
<1> QED
  BY <1>6, <1>7, Zenon

\* The set Sum takes apart, and what it does with a set once smaller ones are
\* summed up in g.
First(s) == CHOOSE x \in s : TRUE
Body(f, s, g) == IF s = {} THEN 0 ELSE f[First(s)] + g[s \ {First(s)}]

Solution(f, S, g) == g = [s \in SUBSET S |-> Body(f, s, g)]

Small(S, n) == {s \in SUBSET S : Cardinality(s) <= n}

\* Taking one element away.
LEMMA Smaller ==
    ASSUME NEW S, IsFiniteSet(S), NEW n \in Nat, NEW s \in Small(S, n + 1), s # {}
    PROVE  First(s) \in s /\ s \ {First(s)} \in Small(S, n) /\ IsFiniteSet(s)
<1>1. First(s) \in s
      BY DEF First
<1>2. IsFiniteSet(s)
      BY FS_Subset DEF Small
<1>3. /\ Cardinality(s) \in Nat /\ Cardinality(s) <= n + 1
      /\ Cardinality(s \ {First(s)}) = Cardinality(s) - 1
      BY <1>1, <1>2, FS_RemoveElement, FS_CardinalityType DEF Small
<1> QED BY <1>1, <1>2, <1>3 DEF Small

\* The recursion behind Sum has a solution on every finite set.
LEMMA SumExists ==
    ASSUME NEW S, IsFiniteSet(S), NEW f, \A x \in S : f[x] \in Nat
    PROVE  \E g : Solution(f, S, g)
<1> DEFINE Solves(n, g) == g \in [Small(S, n) -> Nat]
                           /\ \A s \in Small(S, n) : g[s] = Body(f, s, g)
           Good == {n \in Nat : \E g : Solves(n, g)}
<1>1. 0 \in Good
  <2> DEFINE g == [s \in Small(S, 0) |-> 0]
  <2>1. \A s \in Small(S, 0) : s = {}
    <3> TAKE s \in Small(S, 0)
    <3>1. IsFiniteSet(s)
          BY FS_Subset DEF Small
    <3>2. Cardinality(s) = 0
          BY <3>1, FS_CardinalityType DEF Small
    <3> QED BY <3>1, <3>2, FS_EmptySet
  <2>2. Solves(0, g)
        BY <2>1 DEF Body
  <2> QED BY <2>2
<1>2. ASSUME NEW n \in Nat, n \in Good PROVE n + 1 \in Good
  <2>1. PICK g : Solves(n, g)
        BY <1>2
  <2> DEFINE h == [s \in Small(S, n + 1) |-> Body(f, s, g)]
  <2>2. ASSUME NEW s \in Small(S, n + 1)
        PROVE  h[s] \in Nat /\ h[s] = Body(f, s, h)
    <3>1. CASE s = {}
          BY <3>1 DEF Body
    <3>2. CASE s # {}
      <4> DEFINE t == s \ {First(s)}
      <4>1. First(s) \in S /\ t \in Small(S, n)
            BY <3>2, Smaller DEF Small
      <4>2. Small(S, n) \subseteq Small(S, n + 1)
        <5>1. ASSUME NEW u \in Small(S, n) PROVE Cardinality(u) <= n + 1
          <6>1. IsFiniteSet(u)
                BY FS_Subset DEF Small
          <6>2. Cardinality(u) \in Nat /\ Cardinality(u) <= n
                BY <6>1, FS_CardinalityType DEF Small
          <6> QED BY <6>2
        <5> QED BY <5>1 DEF Small
      <4>3. h[t] = Body(f, t, g) /\ Body(f, t, g) = g[t] /\ g[t] \in Nat
            BY <2>1, <4>1, <4>2
      <4>4. Body(f, s, g) = f[First(s)] + g[t] /\ Body(f, s, h) = f[First(s)] + h[t]
            BY <3>2 DEF Body
      <4>5. h[s] = Body(f, s, g)
            OBVIOUS
      <4> HIDE DEF h, t
      <4> QED BY <4>1, <4>3, <4>4, <4>5
    <3> QED BY <3>1, <3>2
  <2>3. Solves(n + 1, h)
        BY <2>2
  <2> HIDE DEF Solves, h
  <2>4. \E k : Solves(n + 1, k)
        BY <2>3
  <2> QED BY <2>4
<1> HIDE DEF Good
<1>3. Nat \subseteq Good
      BY <1>1, <1>2, Induction
<1>4. Cardinality(S) \in Nat /\ Small(S, Cardinality(S)) = SUBSET S
  <2>1. Cardinality(S) \in Nat
        BY FS_CardinalityType
  <2>2. \A s \in SUBSET S : Cardinality(s) <= Cardinality(S)
        BY FS_Subset
  <2> QED BY <2>1, <2>2 DEF Small
<1>5. PICK g : Solves(Cardinality(S), g)
      BY <1>3, <1>4 DEF Good
<1>6. Solution(f, S, g)
      BY <1>4, <1>5 DEF Solution
<1> QED BY <1>6

\* Sum is computed by that recursion.
LEMMA SumUnfolds ==
    ASSUME NEW f, IsFiniteSet(DOMAIN f), \A x \in DOMAIN f : f[x] \in Nat
    PROVE  \E it : Solution(f, DOMAIN f, it) /\ Sum(f) = it[DOMAIN f]
<1> DEFINE it == CHOOSE g : Solution(f, DOMAIN f, g)
<1>1. Solution(f, DOMAIN f, it)
  <2>1. \E g : Solution(f, DOMAIN f, g)
        BY SumExists
  <2> QED BY <2>1
<1>2. Sum(f) = it[DOMAIN f]
      BY DEF Sum, FoldFunction, FoldFunctionOnSet, MapThenFoldSet, Solution, Body, First
<1> QED BY <1>1, <1>2

\* The places where f is not zero.
Support(f, s) == {x \in s : f[x] # 0}

\* A sum of numbers up to c is at most c for each that is not zero.
LEMMA SumBound ==
    ASSUME NEW f, IsFiniteSet(DOMAIN f), NEW c \in Nat,
           \A x \in DOMAIN f : f[x] \in Nat /\ f[x] <= c
    PROVE  Sum(f) \in Nat /\ Sum(f) <= c * Cardinality(Support(f, DOMAIN f))
<1> DEFINE S == DOMAIN f
           Bounded(it, s) == it[s] \in Nat /\ it[s] <= c * Cardinality(Support(f, s))
<1>1. PICK it : Solution(f, S, it) /\ Sum(f) = it[S]
      BY SumUnfolds
<1> DEFINE Good == {n \in Nat : \A s \in Small(S, n) : Bounded(it, s)}
<1>2. \A s \in SUBSET S : it[s] = Body(f, s, it)
      BY <1>1 DEF Solution
<1>3. Bounded(it, {})
  <2>1. Support(f, {}) = {}
        BY DEF Support
  <2>2. c * 0 = 0
        OBVIOUS
  <2>3. it[{}] = 0
        BY <1>2 DEF Body
  <2> QED BY <2>1, <2>2, <2>3, FS_EmptySet
<1>4. 0 \in Good
  <2>1. \A s \in Small(S, 0) : s = {}
    <3> TAKE s \in Small(S, 0)
    <3>1. IsFiniteSet(s)
          BY FS_Subset DEF Small
    <3>2. Cardinality(s) = 0
          BY <3>1, FS_CardinalityType DEF Small
    <3> QED BY <3>1, <3>2, FS_EmptySet
  <2> HIDE DEF Bounded
  <2> QED BY <1>3, <2>1
<1>5. ASSUME NEW n \in Nat, n \in Good PROVE n + 1 \in Good
  <2>1. ASSUME NEW s \in Small(S, n + 1) PROVE Bounded(it, s)
    <3>1. CASE s = {}
          BY <1>3, <3>1
    <3>2. CASE s # {}
      <4> DEFINE x == First(s)
                 t == s \ {x}
                 k == Cardinality(Support(f, t))
      <4>1. x \in s /\ x \in S /\ s \in SUBSET S /\ t \in Small(S, n) /\ t \in SUBSET S
            BY <3>2, Smaller DEF Small
      <4>2. it[t] \in Nat /\ it[t] <= c * k
            BY <1>5, <4>1
      <4>3. it[s] = f[x] + it[t]
            BY <1>2, <3>2, <4>1 DEF Body
      <4>4. IsFiniteSet(Support(f, t))
            BY <4>1, FS_Subset DEF Support
      <4>5. k \in Nat
            BY <4>4, FS_CardinalityType
      <4>6. CASE f[x] = 0
        <5>1. Support(f, s) = Support(f, t)
              BY <4>1, <4>6 DEF Support
        <5>2. it[s] = it[t]
              BY <4>2, <4>3, <4>6
        <5> QED BY <4>2, <5>1, <5>2
      <4>7. CASE f[x] # 0
        <5>1. Support(f, s) = Support(f, t) \cup {x} /\ x \notin Support(f, t)
              BY <4>1, <4>7 DEF Support
        <5>2. Cardinality(Support(f, s)) = k + 1
              BY <4>4, <5>1, FS_AddElement
        <5>3. c * (k + 1) = c * k + c /\ c * k \in Nat
              BY <4>5
        <5>4. f[x] \in Nat /\ f[x] <= c
              BY <4>1
        <5> HIDE DEF x, t, k
        <5>5. it[s] \in Nat /\ it[s] <= c * k + c
              BY <4>2, <4>3, <5>3, <5>4
        <5> QED BY <5>2, <5>3, <5>5
      <4> QED BY <4>6, <4>7
    <3> QED BY <3>1, <3>2
  <2> HIDE DEF Bounded
  <2> QED BY <2>1
<1> HIDE DEF Good, Bounded
<1>6. Nat \subseteq Good
      BY <1>4, <1>5, Induction
<1>7. Cardinality(S) \in Nat /\ S \in Small(S, Cardinality(S))
      BY FS_CardinalityType DEF Small
<1>8. Bounded(it, S)
      BY <1>6, <1>7 DEF Good
<1> QED BY <1>1, <1>8 DEF Bounded

-----------------------------------------------------------------------------
(* The pools.                                                              *)

RawTasks(ts) == {w \in DOMAIN ts : ts[w].raw # 0}
OutTasks(ts) == {w \in DOMAIN ts : ts[w].out # 0}
Flag(capacity) == IF capacity = 0 THEN 0 ELSE 1

\* How large an output buffer gets, for chunks of c bytes: append grows it for a
\* frame that is larger than its chunk, and for no other.
OutMax(c) == IF MaxOverhead = 0 THEN c ELSE AppendMax(c + MaxOverhead)

\* What a worker may hold: an output buffer has room for the chunk.
Holdings(c) ==
    {h \in [len : 0..c, raw : 0..c, out : 0..OutMax(c)] : h.out # 0 => h.len <= h.out}

\* No buffer is larger than a chunk, or a grown frame, and a buffer that a worker or the
\* reader holds has left its pool.
PoolInv(c, n) ==
    /\ c \in Nat \ {0} /\ n \in Nat \ {0}
    /\ rawBufs \in Seq(0..c) /\ outBufs \in Seq(0..OutMax(c))
    /\ filled \in [cap : 0..c, len : 0..c] /\ (filled.cap = 0 => filled = Nothing)
    /\ tasks \in [1..n -> Holdings(c)]
    /\ Len(rawBufs) + Flag(filled.cap) + Cardinality(RawTasks(tasks)) <= n + 1
    /\ Len(outBufs) + Cardinality(OutTasks(tasks)) <= n + 1

MemInv == /\ ParamsInv
          /\ pc # "running" => DOMAIN tasks = {} /\ filled = Nothing
          /\ pc = "running" => \E c, n : /\ params.chunkSize = c /\ params.workers = n
                                         /\ PoolInv(c, n)

\* A quarter, rounded down, grows with what it is taken of.
LEMMA Quarter ==
    ASSUME NEW a \in Nat, NEW b \in Nat, a <= b
    PROVE  a \div 4 \in Nat /\ a \div 4 <= b \div 4
OBVIOUS

LEMMA OutMaxType ==
    ASSUME NEW c \in Nat
    PROVE  OutMax(c) \in Nat /\ c <= OutMax(c)
<1>1. (c + MaxOverhead) \div 4 \in Nat /\ MaxOverhead \in Nat /\ AppendSlack \in Nat
      BY OptionsAssumption, Quarter
<1> QED BY <1>1 DEF OutMax, AppendMax

\* A worker w leaves or enters a set of workers, as what it holds changes.
Moves(n, w, S, T, old, new) ==
    /\ S \in SUBSET (1..n)
    /\ w \in S <=> old # 0
    /\ T = IF new = 0 THEN S \ {w} ELSE S \cup {w}

\* The set gains one or loses one.
LEMMA Count ==
    ASSUME NEW n \in Nat, NEW w, NEW S, NEW T, NEW old, NEW new, Moves(n, w, S, T, old, new)
    PROVE  /\ Cardinality(S) \in Nat
           /\ Cardinality(T) = Cardinality(S) + Flag(new) - Flag(old)
<1> USE DEF Moves
<1>1. IsFiniteSet(1..n)
  <2>1. 1 \in Int /\ n \in Int
        OBVIOUS
  <2> QED BY <2>1, FS_Interval
<1>2. IsFiniteSet(S)
      BY <1>1, FS_Subset
<1>3. Cardinality(S) \in Nat
      BY <1>2, FS_CardinalityType
<1>4. CASE new = 0 /\ w \in S
  <2>1. Cardinality(T) = Cardinality(S) - 1
        BY <1>2, <1>4, FS_RemoveElement
  <2> QED BY <1>3, <1>4, <2>1 DEF Flag
<1>5. CASE (new = 0 /\ w \notin S) \/ (new # 0 /\ w \in S)
  <2>1. T = S
        BY <1>5
  <2> QED BY <1>3, <1>5, <2>1 DEF Flag
<1>6. CASE new # 0 /\ w \notin S
  <2>1. Cardinality(T) = Cardinality(S) + 1
        BY <1>2, <1>6, FS_AddElement
  <2> QED BY <1>3, <1>6, <2>1 DEF Flag
<1> QED BY <1>4, <1>5, <1>6

\* Worker w goes on to hold r.
Changes(c, n, w, r, ts, us) ==
    /\ ts \in [1..n -> Holdings(c)] /\ w \in 1..n /\ r \in Holdings(c)
    /\ us = [ts EXCEPT ![w] = r]

\* What such a step does to the two counts.
LEMMA Recount ==
    ASSUME NEW c \in Nat, NEW n \in Nat, NEW w, NEW r, NEW ts, NEW us,
           Changes(c, n, w, r, ts, us)
    PROVE  /\ us \in [1..n -> Holdings(c)]
           /\ Cardinality(RawTasks(ts)) \in Nat /\ Cardinality(OutTasks(ts)) \in Nat
           /\ Cardinality(RawTasks(us)) =
                Cardinality(RawTasks(ts)) + Flag(r.raw) - Flag(ts[w].raw)
           /\ Cardinality(OutTasks(us)) =
                Cardinality(OutTasks(ts)) + Flag(r.out) - Flag(ts[w].out)
<1> USE DEF Changes
<1>1. /\ DOMAIN us = 1..n /\ DOMAIN ts = 1..n /\ us[w] = r
      /\ \A v \in 1..n : v # w => us[v] = ts[v]
      OBVIOUS
<1>2. /\ Cardinality(RawTasks(ts)) \in Nat
      /\ Cardinality(RawTasks(us)) =
           Cardinality(RawTasks(ts)) + Flag(r.raw) - Flag(ts[w].raw)
  <2>1. Moves(n, w, RawTasks(ts), RawTasks(us), ts[w].raw, r.raw)
    <3>1. CASE r.raw = 0
          BY <1>1, <3>1 DEF RawTasks, Moves
    <3>2. CASE r.raw # 0
          BY <1>1, <3>2 DEF RawTasks, Moves
    <3> QED BY <3>1, <3>2
  <2> QED BY <2>1, Count
<1>3. /\ Cardinality(OutTasks(ts)) \in Nat
      /\ Cardinality(OutTasks(us)) =
           Cardinality(OutTasks(ts)) + Flag(r.out) - Flag(ts[w].out)
  <2>1. Moves(n, w, OutTasks(ts), OutTasks(us), ts[w].out, r.out)
    <3>1. CASE r.out = 0
          BY <1>1, <3>1 DEF OutTasks, Moves
    <3>2. CASE r.out # 0
          BY <1>1, <3>2 DEF OutTasks, Moves
    <3> QED BY <3>1, <3>2
  <2> QED BY <2>1, Count
<1>4. us \in [1..n -> Holdings(c)]
      OBVIOUS
<1> QED BY <1>2, <1>3, <1>4

\* The pools start with one buffer more than there are workers.
LEMMA ParamsStep == ASSUME MemInv, Params PROVE MemInv'
<1>1. ParamsInv'
      BY DEF MemInv, ParamsInv, Params
<1>2. filled = Nothing /\ DOMAIN tasks = {} /\ opts \in PushOptions
      BY DEF MemInv, ParamsInv, Params
<1>3. CASE pc' # "running"
  <2>1. tasks' = tasks /\ filled' = filled
        BY <1>3 DEF Params
  <2> QED BY <1>1, <1>2, <1>3, <2>1 DEF MemInv
<1>4. CASE pc' = "running"
  <2>0. PICK c, n : c = params'.chunkSize /\ n = params'.workers
        OBVIOUS
  <2>1. /\ params' = pipelineParams(opts) /\ params'.ok /\ params'.chunkSize > 0
        /\ rawBufs' = newBufPool(n + 1) /\ outBufs' = newBufPool(n + 1)
        /\ tasks' = [w \in 1..n |-> Idle] /\ filled' = Nothing
        BY <1>2, <1>4, <2>0 DEF Params
  <2>2. c \in Nat \ {0} /\ n \in Nat \ {0}
    <3>1. pipelineParams(opts).ok /\ pipelineParams(opts).chunkSize # 0
          BY <2>1
    <3> QED BY <1>2, <2>0, <2>1, <3>1, PushPoolsFit
  <2>3. /\ rawBufs' \in Seq(0..c) /\ Len(rawBufs') = n + 1
        /\ outBufs' \in Seq(0..OutMax(c)) /\ Len(outBufs') = n + 1
        BY <2>1, <2>2, OutMaxType DEF newBufPool
  <2>4. /\ tasks' \in [1..n -> Holdings(c)]
        /\ RawTasks(tasks') = {} /\ OutTasks(tasks') = {}
        BY <2>1, <2>2, OutMaxType DEF Holdings, RawTasks, OutTasks, Idle
  <2>5. Cardinality(RawTasks(tasks')) = 0 /\ Cardinality(OutTasks(tasks')) = 0
        BY <2>4, FS_EmptySet
  <2>6. filled' \in [cap : 0..c, len : 0..c] /\ Flag(filled'.cap) = 0
        BY <2>1, <2>2 DEF Nothing, Flag
  <2>7. PoolInv(c, n)'
        BY <2>1, <2>2, <2>3, <2>4, <2>5, <2>6, SMTT(30) DEF PoolInv
  <2> QED BY <1>1, <1>4, <2>0, <2>7 DEF MemInv
<1> QED BY <1>3, <1>4

\* The reader fills a chunk: the buffer it takes has the size of a chunk.
LEMMA FillStep ==
    ASSUME NEW c, NEW n, PoolInv(c, n), c = params.chunkSize, NEW len \in 1..c, Fill(len)
    PROVE  PoolInv(c, n)'
<1>1. /\ rawBufs \in Seq(0..c) /\ rawBufs # <<>> /\ rawBufs' = Tail(rawBufs)
      /\ filled' = [cap |-> Taken(rawBufs, c), len |-> len] /\ filled = Nothing
      /\ UNCHANGED <<outBufs, tasks>> /\ c \in Nat \ {0}
      BY DEF Fill, PoolInv
<1>2. Head(rawBufs) \in 0..c /\ rawBufs' \in Seq(0..c) /\ Len(rawBufs') = Len(rawBufs) - 1
      BY <1>1
<1>3. Taken(rawBufs, c) = c
      BY <1>1, <1>2 DEF Taken
<1>4. filled' \in [cap : 0..c, len : 0..c] /\ filled'.cap = c
      BY <1>1, <1>3
<1>5. Flag(filled.cap) = 0 /\ Flag(filled'.cap) = 1 /\ Len(rawBufs) \in Nat
      BY <1>1, <1>4 DEF Nothing, Flag
<1>6. Len(rawBufs') + Flag(filled'.cap) = Len(rawBufs) + Flag(filled.cap)
      BY <1>2, <1>5
<1> QED BY <1>1, <1>2, <1>4, <1>6 DEF PoolInv

\* A worker starts on the chunk.
LEMMA GoStep ==
    ASSUME NEW c, NEW n, PoolInv(c, n), NEW w \in DOMAIN tasks, Go(w)
    PROVE  PoolInv(c, n)'
<1> DEFINE r == [len |-> filled.len, raw |-> filled.cap, out |-> 0]
<1>1. /\ c \in Nat \ {0} /\ n \in Nat \ {0} /\ tasks \in [1..n -> Holdings(c)] /\ w \in 1..n
      /\ filled \in [cap : 0..c, len : 0..c] /\ filled.cap # 0 /\ tasks[w] = Idle
      /\ tasks' = [tasks EXCEPT ![w] = r] /\ filled' = Nothing
      /\ UNCHANGED <<rawBufs, outBufs>> /\ Len(rawBufs) \in Nat
      BY DEF Go, PoolInv
<1>2. r \in Holdings(c)
      BY <1>1, OutMaxType DEF Holdings
<1>3. /\ Flag(r.raw) = 1 /\ Flag(r.out) = 0 /\ Flag(tasks[w].raw) = 0 /\ Flag(tasks[w].out) = 0
      /\ Flag(filled.cap) = 1 /\ Flag(filled'.cap) = 0
      BY <1>1 DEF Flag, Idle, Nothing
<1> HIDE DEF r
<1>4. /\ tasks' \in [1..n -> Holdings(c)]
      /\ Cardinality(RawTasks(tasks)) \in Nat /\ Cardinality(OutTasks(tasks)) \in Nat
      /\ Cardinality(RawTasks(tasks')) = Cardinality(RawTasks(tasks)) + 1
      /\ Cardinality(OutTasks(tasks')) = Cardinality(OutTasks(tasks))
  <2>1. Changes(c, n, w, r, tasks, tasks')
        BY <1>1, <1>2 DEF Changes
  <2> QED BY <1>1, <1>3, <2>1, Recount
<1>5. filled' \in [cap : 0..c, len : 0..c]
      BY <1>1 DEF Nothing
<1> QED BY <1>1, <1>3, <1>4, <1>5, SMTT(30) DEF PoolInv

\* A worker takes an output buffer of at least the chunk's length.
LEMMA TakeOutStep ==
    ASSUME NEW c, NEW n, PoolInv(c, n), NEW w \in DOMAIN tasks, TakeOut(w)
    PROVE  PoolInv(c, n)'
<1> DEFINE r == [tasks[w] EXCEPT !.out = Taken(outBufs, tasks[w].len)]
           m == OutMax(c)
<1>1. /\ c \in Nat \ {0} /\ n \in Nat \ {0} /\ tasks \in [1..n -> Holdings(c)] /\ w \in 1..n
      /\ outBufs \in Seq(0..m) /\ outBufs # <<>> /\ outBufs' = Tail(outBufs)
      /\ tasks[w].out = 0 /\ tasks' = [tasks EXCEPT ![w] = r]
      /\ UNCHANGED <<rawBufs, filled>> /\ m \in Nat /\ c <= m
      BY OutMaxType DEF TakeOut, PoolInv
<1>2. /\ Head(outBufs) \in 0..m /\ outBufs' \in Seq(0..m)
      /\ Len(outBufs') = Len(outBufs) - 1 /\ Len(outBufs) \in Nat
      BY <1>1
<1>3. tasks[w] \in Holdings(c)
      BY <1>1
<1>4. Taken(outBufs, tasks[w].len) \in 0..m /\ tasks[w].len <= Taken(outBufs, tasks[w].len)
      BY <1>1, <1>2, <1>3 DEF Taken, Holdings
<1>5. r \in Holdings(c) /\ r.raw = tasks[w].raw
      BY <1>3, <1>4 DEF Holdings
<1>6. Flag(r.out) \in 0..1 /\ Flag(tasks[w].out) = 0 /\ Flag(r.raw) = Flag(tasks[w].raw)
      /\ Flag(r.raw) \in 0..1
      BY <1>1, <1>5 DEF Flag
<1> HIDE DEF r
<1>7. /\ tasks' \in [1..n -> Holdings(c)]
      /\ Cardinality(RawTasks(tasks)) \in Nat /\ Cardinality(OutTasks(tasks)) \in Nat
      /\ Cardinality(RawTasks(tasks')) = Cardinality(RawTasks(tasks)) + Flag(r.raw) - Flag(tasks[w].raw)
      /\ Cardinality(OutTasks(tasks')) = Cardinality(OutTasks(tasks)) + Flag(r.out) - Flag(tasks[w].out)
  <2>1. Changes(c, n, w, r, tasks, tasks')
        BY <1>1, <1>5 DEF Changes
  <2>2. c \in Nat /\ n \in Nat
        BY <1>1
  <2> QED BY <2>1, <2>2, Recount
<1>8. /\ Cardinality(RawTasks(tasks')) = Cardinality(RawTasks(tasks))
      /\ Len(outBufs') + Cardinality(OutTasks(tasks')) <= Len(outBufs) + Cardinality(OutTasks(tasks))
      /\ Cardinality(OutTasks(tasks')) \in Nat
      BY <1>2, <1>6, <1>7
<1> QED BY <1>1, <1>2, <1>7, <1>8, SMTT(30) DEF PoolInv

\* The frame is appended to the output buffer, and the raw buffer goes back.
LEMMA EncodeStep ==
    ASSUME NEW c, NEW n, PoolInv(c, n), NEW w \in DOMAIN tasks, NEW frame \in Nat, Encode(w, frame)
    PROVE  PoolInv(c, n)'
<1>0. PICK cap \in Grown(tasks[w].out, frame) :
        tasks' = [tasks EXCEPT ![w] = [len |-> tasks[w].len, raw |-> 0, out |-> cap]]
      BY DEF Encode
<1> DEFINE r == [len |-> tasks[w].len, raw |-> 0, out |-> cap]
           m == OutMax(c)
<1>1. /\ c \in Nat \ {0} /\ n \in Nat \ {0} /\ tasks \in [1..n -> Holdings(c)] /\ w \in 1..n
      /\ rawBufs \in Seq(0..c) /\ rawBufs' = Append(rawBufs, tasks[w].raw)
      /\ tasks[w].raw > 0 /\ tasks[w].out > 0 /\ frame <= tasks[w].len + MaxOverhead
      /\ UNCHANGED <<outBufs, filled>> /\ m \in Nat /\ MaxOverhead \in Nat
      /\ AppendSlack \in Nat
      BY OptionsAssumption, OutMaxType DEF Encode, PoolInv
<1>2. tasks[w] \in Holdings(c)
      BY <1>1
<1>3. /\ tasks[w].raw \in 0..c /\ tasks[w].out \in 0..m /\ tasks[w].len \in 0..c
      /\ tasks[w].len <= tasks[w].out
      BY <1>1, <1>2 DEF Holdings
<1>4. rawBufs' \in Seq(0..c) /\ Len(rawBufs') = Len(rawBufs) + 1 /\ Len(rawBufs) \in Nat
      BY <1>1, <1>3
<1>5. r \in Holdings(c) /\ r.raw = 0 /\ r.out # 0 /\ tasks' = [tasks EXCEPT ![w] = r]
  <2>1. cap \in 1..m /\ tasks[w].len <= cap
    <3>1. CASE tasks[w].out < frame
      <4>1. MaxOverhead # 0 /\ frame <= c + MaxOverhead
            BY <1>1, <1>3, <3>1
      <4>2. frame \div 4 \in Nat /\ frame \div 4 <= (c + MaxOverhead) \div 4
            BY <1>1, <4>1, Quarter
      <4>3. (c + MaxOverhead) \div 4 \in Nat
            BY <1>1, Quarter
      <4>4. cap \in frame..(frame + frame \div 4 + AppendSlack)
            BY <3>1 DEF Grown, AppendMax
      <4>5. m = c + MaxOverhead + (c + MaxOverhead) \div 4 + AppendSlack
            BY <4>1 DEF OutMax, AppendMax
      <4> HIDE DEF m
      <4> QED BY <1>1, <1>3, <3>1, <4>1, <4>2, <4>3, <4>4, <4>5
    <3>2. CASE ~(tasks[w].out < frame)
          BY <1>1, <1>3, <3>2 DEF Grown
    <3> QED BY <3>1, <3>2
  <2>2. r \in Holdings(c)
        BY <1>1, <1>3, <2>1 DEF Holdings
  <2> QED BY <1>0, <2>1, <2>2
<1>6. /\ Flag(r.raw) = 0 /\ Flag(tasks[w].raw) = 1 /\ Flag(r.out) = 1 /\ Flag(tasks[w].out) = 1
      /\ Flag(filled.cap) \in 0..1
      BY <1>1, <1>3, <1>5 DEF Flag
<1> HIDE DEF r, m
<1>7. /\ tasks' \in [1..n -> Holdings(c)]
      /\ Cardinality(RawTasks(tasks)) \in Nat /\ Cardinality(OutTasks(tasks)) \in Nat
      /\ Cardinality(RawTasks(tasks')) = Cardinality(RawTasks(tasks)) - 1
      /\ Cardinality(OutTasks(tasks')) = Cardinality(OutTasks(tasks))
  <2>1. Changes(c, n, w, r, tasks, tasks')
        BY <1>1, <1>5 DEF Changes
  <2>2. c \in Nat /\ n \in Nat
        BY <1>1
  <2>3. /\ tasks' \in [1..n -> Holdings(c)]
        /\ Cardinality(RawTasks(tasks)) \in Nat /\ Cardinality(OutTasks(tasks)) \in Nat
        /\ Cardinality(RawTasks(tasks')) =
             Cardinality(RawTasks(tasks)) + Flag(r.raw) - Flag(tasks[w].raw)
        /\ Cardinality(OutTasks(tasks')) =
             Cardinality(OutTasks(tasks)) + Flag(r.out) - Flag(tasks[w].out)
        BY <2>1, <2>2, Recount
  <2> QED BY <1>6, <2>3
<1>8. Len(rawBufs') + Flag(filled.cap) + Cardinality(RawTasks(tasks'))
        = Len(rawBufs) + Flag(filled.cap) + Cardinality(RawTasks(tasks))
      BY <1>4, <1>6, <1>7
<1> QED BY <1>1, <1>4, <1>7, <1>8 DEF PoolInv

\* The output buffer goes back, grown or not.
LEMMA PutOutStep ==
    ASSUME NEW c, NEW n, PoolInv(c, n), NEW w \in DOMAIN tasks, PutOut(w)
    PROVE  PoolInv(c, n)'
<1> DEFINE m == OutMax(c)
<1>1. /\ c \in Nat \ {0} /\ n \in Nat \ {0} /\ tasks \in [1..n -> Holdings(c)] /\ w \in 1..n
      /\ outBufs \in Seq(0..m) /\ outBufs' = Append(outBufs, tasks[w].out)
      /\ tasks[w].raw = 0 /\ tasks[w].out > 0 /\ tasks' = [tasks EXCEPT ![w] = Idle]
      /\ UNCHANGED <<rawBufs, filled>> /\ m \in Nat
      BY OutMaxType DEF PutOut, PoolInv
<1>2. tasks[w] \in Holdings(c)
      BY <1>1
<1>3. tasks[w].out \in 0..m
      BY <1>2 DEF Holdings
<1>4. outBufs' \in Seq(0..m) /\ Len(outBufs') = Len(outBufs) + 1 /\ Len(outBufs) \in Nat
      BY <1>1, <1>3
<1>5. Idle \in Holdings(c)
      BY <1>1, OutMaxType DEF Holdings, Idle
<1>6. /\ Flag(Idle.raw) = 0 /\ Flag(tasks[w].raw) = 0 /\ Flag(Idle.out) = 0 /\ Flag(tasks[w].out) = 1
      BY <1>1, <1>3 DEF Flag, Idle
<1>7. /\ tasks' \in [1..n -> Holdings(c)]
      /\ Cardinality(RawTasks(tasks)) \in Nat /\ Cardinality(OutTasks(tasks)) \in Nat
      /\ Cardinality(RawTasks(tasks')) = Cardinality(RawTasks(tasks))
      /\ Cardinality(OutTasks(tasks')) = Cardinality(OutTasks(tasks)) - 1
  <2>1. Changes(c, n, w, Idle, tasks, tasks')
        BY <1>1, <1>5 DEF Changes
  <2>2. c \in Nat /\ n \in Nat
        BY <1>1
  <2> QED BY <1>6, <2>1, <2>2, Recount
<1>8. Len(outBufs') + Cardinality(OutTasks(tasks')) = Len(outBufs) + Cardinality(OutTasks(tasks))
      BY <1>4, <1>7
<1> QED BY <1>1, <1>4, <1>7, <1>8 DEF PoolInv

\* Without compression the raw buffer goes back after the upload.
LEMMA PutRawStep ==
    ASSUME NEW c, NEW n, PoolInv(c, n), NEW w \in DOMAIN tasks, PutRaw(w)
    PROVE  PoolInv(c, n)'
<1>1. /\ c \in Nat \ {0} /\ n \in Nat \ {0} /\ tasks \in [1..n -> Holdings(c)] /\ w \in 1..n
      /\ rawBufs \in Seq(0..c) /\ rawBufs' = Append(rawBufs, tasks[w].raw)
      /\ tasks[w].raw > 0 /\ tasks' = [tasks EXCEPT ![w] = Idle]
      /\ UNCHANGED <<outBufs, filled>> /\ Len(outBufs) \in Nat
      BY DEF PutRaw, PoolInv
<1>2. tasks[w] \in Holdings(c)
      BY <1>1
<1>3. tasks[w].raw \in 0..c
      BY <1>2 DEF Holdings
<1>4. rawBufs' \in Seq(0..c) /\ Len(rawBufs') = Len(rawBufs) + 1 /\ Len(rawBufs) \in Nat
      BY <1>1, <1>3
<1>5. Idle \in Holdings(c)
      BY <1>1, OutMaxType DEF Holdings, Idle
<1>6. /\ Flag(Idle.raw) = 0 /\ Flag(tasks[w].raw) = 1 /\ Flag(Idle.out) = 0
      /\ Flag(tasks[w].out) \in 0..1 /\ Flag(filled.cap) \in 0..1
      BY <1>1, <1>3 DEF Flag, Idle
<1>7. /\ tasks' \in [1..n -> Holdings(c)]
      /\ Cardinality(RawTasks(tasks)) \in Nat /\ Cardinality(OutTasks(tasks)) \in Nat
      /\ Cardinality(RawTasks(tasks')) = Cardinality(RawTasks(tasks)) - 1
      /\ Cardinality(OutTasks(tasks')) = Cardinality(OutTasks(tasks)) - Flag(tasks[w].out)
  <2>1. Changes(c, n, w, Idle, tasks, tasks')
        BY <1>1, <1>5 DEF Changes
  <2>2. c \in Nat /\ n \in Nat
        BY <1>1
  <2> QED BY <1>6, <2>1, <2>2, Recount
<1>8. Len(rawBufs') + Flag(filled.cap) + Cardinality(RawTasks(tasks'))
        = Len(rawBufs) + Flag(filled.cap) + Cardinality(RawTasks(tasks))
      BY <1>4, <1>6, <1>7, SMTT(30)
<1>9. /\ Cardinality(OutTasks(tasks')) \in Int
      /\ Cardinality(OutTasks(tasks')) <= Cardinality(OutTasks(tasks))
      BY <1>6, <1>7
<1>10. Len(outBufs) + Cardinality(OutTasks(tasks')) <= n + 1
      BY <1>1, <1>7, <1>9 DEF PoolInv
<1> QED BY <1>1, <1>4, <1>7, <1>8, <1>10 DEF PoolInv

\* MemInv holds throughout a push.
LEMMA MemInvariant == Spec => []MemInv
<1>1. Init => MemInv
      BY OptionsAssumption DEF Init, MemInv, ParamsInv
<1>2. MemInv /\ [Next]_vars => MemInv'
  <2> SUFFICES ASSUME MemInv, [Next]_vars PROVE MemInv'
      OBVIOUS
  <2>1. CASE Params
        BY <2>1, ParamsStep
  <2>2. CASE UNCHANGED vars
        BY <2>2 DEF vars, MemInv, ParamsInv, PoolInv, RawTasks, OutTasks
  <2>3. CASE Stopped
        BY <2>2, <2>3 DEF Stopped
  <2>4. ASSUME pc = "running", UNCHANGED <<opts, pc, params>>,
               \A c, n : params.chunkSize = c /\ params.workers = n /\ PoolInv(c, n)
                            => PoolInv(c, n)'
        PROVE  MemInv'
    <3>1. PICK c, n : params.chunkSize = c /\ params.workers = n /\ PoolInv(c, n)
          BY <2>4 DEF MemInv
    <3>2. PoolInv(c, n)'
          BY <2>4, <3>1
    <3>3. ParamsInv'
          BY <2>4 DEF MemInv, ParamsInv
    <3> QED BY <2>4, <3>1, <3>2, <3>3 DEF MemInv
  <2>5. ASSUME NEW len \in 1..params.chunkSize, Fill(len) PROVE MemInv'
    <3>1. pc = "running" /\ UNCHANGED <<opts, pc, params>>
          BY <2>5 DEF Fill
    <3>2. ASSUME NEW c, NEW n, params.chunkSize = c, params.workers = n, PoolInv(c, n)
          PROVE  PoolInv(c, n)'
          BY <2>5, <3>2, FillStep
    <3> QED BY <2>4, <3>1, <3>2
  <2>6. ASSUME NEW w \in DOMAIN tasks,
               \/ Go(w) \/ TakeOut(w) \/ PutOut(w) \/ PutRaw(w)
               \/ \E frame \in 1..(params.chunkSize + MaxOverhead) : Encode(w, frame)
        PROVE  MemInv'
    <3>1. pc = "running"
          BY DEF MemInv
    <3>2. UNCHANGED <<opts, pc, params>>
          BY <2>6 DEF Go, TakeOut, PutOut, PutRaw, Encode
    <3>3. ASSUME NEW c, NEW n, params.chunkSize = c, params.workers = n, PoolInv(c, n)
          PROVE  PoolInv(c, n)'
      <4>1. CASE Go(w)
            BY <3>3, <4>1, GoStep
      <4>2. CASE TakeOut(w)
            BY <3>3, <4>2, TakeOutStep
      <4>3. CASE PutOut(w)
            BY <3>3, <4>3, PutOutStep
      <4>4. CASE PutRaw(w)
            BY <3>3, <4>4, PutRawStep
      <4>5. ASSUME NEW frame \in 1..(params.chunkSize + MaxOverhead), Encode(w, frame)
            PROVE  PoolInv(c, n)'
        <5>1. frame \in Nat
              BY <3>3, OptionsAssumption DEF PoolInv
        <5> QED BY <3>3, <4>5, <5>1, EncodeStep
      <4> QED BY <2>6, <4>1, <4>2, <4>3, <4>4, <4>5
    <3> QED BY <2>4, <3>1, <3>2, <3>3
  <2> QED BY <2>1, <2>2, <2>3, <2>5, <2>6 DEF Next
<1> QED BY <1>1, <1>2, PTL DEF Spec

\* The options are the ones the caller gave.
LEMMA OptionsKept == Spec => [](opts \in Options)
<1>1. Init => opts \in Options
      BY DEF Init
<1>2. opts \in Options /\ [Next]_vars => (opts \in Options)'
      BY DEF Next, vars, Params, Stopped, Fill, Go, TakeOut, Encode, PutOut, PutRaw
<1> QED BY <1>1, <1>2, PTL DEF Spec

\* More buffers, a larger bound.
LEMMA LargerBound ==
    ASSUME NEW c \in Nat, NEW k \in Nat, NEW l \in Nat, NEW s \in Nat, k <= l, s <= c * k
    PROVE  s <= c * l
<1>1. c * k \in Int /\ c * l \in Int /\ c * k <= c * l
      BY Monotone
<1> QED BY <1>1

\* A pool of buffers of at most c bytes each.
LEMMA PoolBound ==
    ASSUME NEW c \in Nat, NEW q \in Seq(0..c)
    PROVE  Sum(q) \in Nat /\ Sum(q) <= c * Len(q)
<1>1. DOMAIN q = 1..Len(q) /\ Len(q) \in Nat /\ \A i \in DOMAIN q : q[i] \in Nat /\ q[i] <= c
      OBVIOUS
<1>2. IsFiniteSet(1..Len(q)) /\ Cardinality(1..Len(q)) = Len(q)
  <2>1. 1 \in Int /\ Len(q) \in Int /\ (1 > Len(q) => Len(q) = 0) /\ Len(q) - 1 + 1 = Len(q)
        BY <1>1
  <2> QED BY <2>1, FS_Interval
<1>3. Sum(q) \in Nat /\ Sum(q) <= c * Cardinality(Support(q, DOMAIN q))
      BY <1>1, <1>2, SumBound
<1>4. Cardinality(Support(q, DOMAIN q)) \in Nat /\ Cardinality(Support(q, DOMAIN q)) <= Len(q)
  <2>1. Support(q, DOMAIN q) \subseteq 1..Len(q)
        BY <1>1 DEF Support
  <2>2. IsFiniteSet(Support(q, DOMAIN q))
        BY <1>2, <2>1, FS_Subset
  <2> QED BY <1>2, <2>1, <2>2, FS_Subset, FS_CardinalityType
<1> QED BY <1>1, <1>3, <1>4, LargerBound

\* What the workers hold.
LEMMA TasksBound ==
    ASSUME NEW n \in Nat, NEW c \in Nat, NEW f \in [1..n -> 0..c]
    PROVE  /\ Cardinality(Support(f, DOMAIN f)) \in Nat
           /\ Sum(f) \in Nat /\ Sum(f) <= c * Cardinality(Support(f, DOMAIN f))
<1>1. DOMAIN f = 1..n /\ \A w \in DOMAIN f : f[w] \in Nat /\ f[w] <= c
      OBVIOUS
<1>2. IsFiniteSet(1..n)
  <2>1. 1 \in Int /\ n \in Int
        OBVIOUS
  <2> QED BY <2>1, FS_Interval
<1>3. IsFiniteSet(Support(f, DOMAIN f))
      BY <1>1, <1>2, FS_Subset DEF Support
<1>4. Sum(f) \in Nat /\ Sum(f) <= c * Cardinality(Support(f, DOMAIN f))
      BY <1>1, <1>2, SumBound
<1> QED BY <1>3, <1>4, FS_CardinalityType

\* The three places of a pool's buffers add up.
LEMMA Together ==
    ASSUME NEW c \in Nat, NEW i \in Nat, NEW j \in Nat, NEW k \in Nat, NEW n \in Nat,
           i + j + k <= n,
           NEW x \in Nat, NEW y \in Nat, NEW z \in Nat,
           x <= c * i, y <= c * j, z <= c * k
    PROVE  x + y + z \in Nat /\ x + y + z <= c * n
<1>1. c * (i + j + k) = c * i + c * j + c * k
      OBVIOUS
<1>2. c * (i + j + k) <= c * n /\ c * (i + j + k) \in Int /\ c * n \in Int
      BY Monotone
<1>3. c * i \in Int /\ c * j \in Int /\ c * k \in Int
      OBVIOUS
<1> QED BY <1>1, <1>2, <1>3

\* Neither pool has more than workers + 1 buffers, in it or out of it.
LEMMA PoolsBound ==
    ASSUME NEW c, NEW n, PoolInv(c, n)
    PROVE  /\ PinnedRaw \in Nat /\ PinnedRaw <= c * (n + 1)
           /\ PinnedOut \in Nat /\ PinnedOut <= OutMax(c) * (n + 1)
<1> DEFINE m == OutMax(c)
           f == [w \in DOMAIN tasks |-> tasks[w].raw]
           g == [w \in DOMAIN tasks |-> tasks[w].out]
<1>1. /\ c \in Nat /\ n \in Nat /\ m \in Nat /\ n + 1 \in Nat
      /\ rawBufs \in Seq(0..c) /\ outBufs \in Seq(0..m) /\ tasks \in [1..n -> Holdings(c)]
      /\ filled.cap \in Nat /\ filled.cap <= c
      /\ Len(rawBufs) \in Nat /\ Len(outBufs) \in Nat
  <2>1. c \in Nat /\ n \in Nat /\ filled \in [cap : 0..c, len : 0..c]
        BY DEF PoolInv
  <2>2. m \in Nat
        BY <2>1, OutMaxType
  <2>3. rawBufs \in Seq(0..c) /\ outBufs \in Seq(0..m) /\ tasks \in [1..n -> Holdings(c)]
        BY DEF PoolInv
  <2> HIDE DEF m
  <2> QED BY <2>1, <2>2, <2>3
<1>2. f \in [1..n -> 0..c] /\ g \in [1..n -> 0..m] /\ DOMAIN f = 1..n /\ DOMAIN g = 1..n
      BY <1>1 DEF Holdings
<1>3. Support(f, DOMAIN f) = RawTasks(tasks) /\ Support(g, DOMAIN g) = OutTasks(tasks)
      BY <1>1, <1>2 DEF RawTasks, OutTasks, Support
<1>4. /\ Sum(rawBufs) \in Nat /\ Sum(rawBufs) <= c * Len(rawBufs)
      /\ Sum(outBufs) \in Nat /\ Sum(outBufs) <= m * Len(outBufs)
      BY <1>1, PoolBound
<1>5. Flag(filled.cap) \in Nat /\ filled.cap <= c * Flag(filled.cap)
  <2>1. c * 0 = 0 /\ c * 1 = c
        BY <1>1
  <2> QED BY <1>1, <2>1 DEF Flag
<1> HIDE DEF f, g, m
<1>6. /\ Cardinality(RawTasks(tasks)) \in Nat
      /\ Sum(f) \in Nat /\ Sum(f) <= c * Cardinality(RawTasks(tasks))
      BY <1>1, <1>2, <1>3, TasksBound
<1>7. /\ Cardinality(OutTasks(tasks)) \in Nat
      /\ Sum(g) \in Nat /\ Sum(g) <= m * Cardinality(OutTasks(tasks))
      BY <1>1, <1>2, <1>3, TasksBound
<1>8. PinnedRaw = Sum(rawBufs) + filled.cap + Sum(f) /\ PinnedOut = Sum(outBufs) + Sum(g)
      BY DEF PinnedRaw, PinnedOut, f, g
<1>9. PinnedRaw \in Nat /\ PinnedRaw <= c * (n + 1)
  <2>1. Len(rawBufs) + Flag(filled.cap) + Cardinality(RawTasks(tasks)) <= n + 1
        BY DEF PoolInv
  <2> QED BY <1>1, <1>4, <1>5, <1>6, <1>8, <2>1, Together
<1>10. PinnedOut \in Nat /\ PinnedOut <= m * (n + 1)
  <2>1. Len(outBufs) + 0 + Cardinality(OutTasks(tasks)) <= n + 1 /\ 0 <= m * 0
        BY <1>1, <1>7 DEF PoolInv
  <2>2. Sum(outBufs) + 0 + Sum(g) = Sum(outBufs) + Sum(g) /\ 0 \in Nat
        BY <1>4, <1>7
  <2>3. Sum(outBufs) + 0 + Sum(g) \in Nat /\ Sum(outBufs) + 0 + Sum(g) <= m * (n + 1)
        BY <1>1, <1>4, <1>7, <2>1, <2>2, Together
  <2> QED BY <1>8, <2>2, <2>3
<1> QED BY <1>9, <1>10 DEF m

\* The budget in force is at most the one asked for, unless what was asked for is
\* so negative that its byte count wraps to a positive one.
LEMMA BudgetAsRequested ==
    ASSUME opts \in PushOptions, 0 - IntMax <= opts.memoryBudgetMiB * MiB
    PROVE  /\ PushBudget(opts) \in Nat /\ RequestedBudget \in Nat
           /\ PushBudget(opts) <= RequestedBudget
<1> DEFINE mib == opts.memoryBudgetMiB
           default == defaultPushMemoryBudgetMiB * MiB
<1>1. mib \in Int /\ default \in Nat \ {0} /\ default < IntMax /\ mib * MiB \in Int
      BY SizesAssumption DEF PushOptions
<1>2. PushBudget(opts) \in Nat
      BY <1>1, BudgetType DEF PushBudget
<1>3. CASE mib > 0
  <2>1. RequestedBudget = mib * MiB /\ mib \in Nat \ {0}
        BY <1>1, <1>3 DEF RequestedBudget
  <2>2. mib * MiB \in Nat
        BY <2>1, SizesAssumption
  <2>3. PushBudget(opts) <= mib * MiB
    <3> HIDE DEF default
    <3> QED BY <1>1, <2>1, BudgetNeverExceedsRequest DEF PushBudget, default
  <2> QED BY <1>2, <2>1, <2>2, <2>3
<1>4. CASE ~(mib > 0)
  <2>1. RequestedBudget = default
        BY <1>1, <1>4 DEF RequestedBudget
  <2>2. mib * MiB <= 0
    <3>1. MiB * mib <= MiB * 0 /\ MiB * 0 = 0 /\ MiB * mib = mib * MiB
          BY <1>1, <1>4, Monotone, SizesAssumption
    <3> QED BY <3>1
  <2>3. int64(mib * MiB) = mib * MiB
    <3> DEFINE x == mib * MiB
    <3>1. x \in Int /\ x <= 0 /\ 0 - IntMax <= x
          BY <1>1, <2>2
    <3> HIDE DEF x
    <3>2. x + IntMax \in Nat /\ x + IntMax < 2 * IntMax /\ 2 * IntMax \in Nat \ {0}
          BY <3>1, SizesAssumption
    <3>3. (x + IntMax) % (2 * IntMax) = x + IntMax
          BY <3>2
    <3>4. int64(x) = x
          BY <3>1, <3>3, SizesAssumption DEF int64
    <3> QED BY <3>4 DEF x
  <2>4. PushBudget(opts) = default
        BY <2>2, <2>3 DEF PushBudget, Budget
  <2> QED BY <1>1, <2>1, <2>4
<1> QED BY <1>1, <1>3, <1>4

\* What the largest output buffer has beyond its chunk: the bytes zstd adds to
\* incompressible data, and the spare capacity append leaves behind when it grows
\* the buffer for them, a quarter of the frame and more.
Excess(c) == IF MaxOverhead = 0 THEN 0
             ELSE MaxOverhead + (c + MaxOverhead) \div 4 + AppendSlack

\* The bound that holds whatever the encoder does: each of the workers + 1 output
\* buffers may be one that append has grown.
WithinOverhead ==
    pc = "running" =>
        PinnedRaw + PinnedOut
            <= RequestedBudget + (params.workers + 1) * Excess(params.chunkSize)

\* Options whose budget, if negative, is not so far below zero that its byte count
\* wraps around to a positive one: pipelineParams takes that for a budget
\* (pushpipeline.go:304-307).
NoNegativeWrap == \A o \in Options : 0 - IntMax <= o.memoryBudgetMiB * MiB

\* The invariant bounds what is pinned.
LEMMA MemInvBounds ==
    ASSUME MemInv, opts \in Options, NoNegativeWrap
    PROVE  /\ WithinOverhead
           /\ MaxOverhead = 0 => PoolsWithinBudget
<1> SUFFICES ASSUME pc = "running"
             PROVE  /\ PinnedRaw + PinnedOut
                         <= RequestedBudget + (params.workers + 1) * Excess(params.chunkSize)
                    /\ MaxOverhead = 0 => PinnedRaw + PinnedOut <= RequestedBudget
    BY DEF WithinOverhead, PoolsWithinBudget
<1>1. PICK c, n : params.chunkSize = c /\ params.workers = n /\ PoolInv(c, n)
      BY DEF MemInv
<1>2. c \in Nat \ {0} /\ n \in Nat \ {0} /\ opts \in PushOptions
      BY <1>1, OptionsAssumption DEF PoolInv
<1>3. params = pipelineParams(opts) /\ params.ok
      BY DEF MemInv, ParamsInv
<1>4. 2 * c * (n + 1) <= PushBudget(opts)
      BY <1>1, <1>2, <1>3, PushPoolsFit
<1>5. /\ PushBudget(opts) \in Nat /\ RequestedBudget \in Nat
      /\ PushBudget(opts) <= RequestedBudget
      BY <1>2, BudgetAsRequested DEF NoNegativeWrap
<1>6. /\ PinnedRaw \in Nat /\ PinnedRaw <= c * (n + 1)
      /\ PinnedOut \in Nat /\ PinnedOut <= OutMax(c) * (n + 1)
      BY <1>1, PoolsBound
<1>7. OutMax(c) = c + Excess(c) /\ Excess(c) \in Nat /\ (MaxOverhead = 0 => Excess(c) = 0)
  <2>1. (c + MaxOverhead) \div 4 \in Nat /\ MaxOverhead \in Nat /\ AppendSlack \in Nat
        BY <1>2, OptionsAssumption, Quarter
  <2> QED BY <1>2, <2>1 DEF OutMax, AppendMax, Excess
<1>8. /\ OutMax(c) * (n + 1) = c * (n + 1) + (n + 1) * Excess(c)
      /\ 2 * c * (n + 1) = c * (n + 1) + c * (n + 1)
      /\ c * (n + 1) \in Nat /\ (n + 1) * Excess(c) \in Nat
      /\ Excess(c) = 0 => (n + 1) * Excess(c) = 0
      BY <1>2, <1>7
<1>9. PinnedRaw + PinnedOut <= RequestedBudget + (n + 1) * Excess(c)
      BY <1>4, <1>5, <1>6, <1>8
<1>10. MaxOverhead = 0 => PinnedRaw + PinnedOut <= RequestedBudget
      BY <1>5, <1>7, <1>8, <1>9
<1> QED BY <1>1, <1>9, <1>10

\* What a push pins in its two pools never exceeds the budget the caller asked for
\* by more than the spare capacity of workers + 1 grown frames, over any number of
\* chunks (takes, EncodeAll's growth and puts of pushpipeline.go:47-114, 340-358).
THEOREM PoolsStayWithinOverhead ==
    ASSUME NoNegativeWrap PROVE Spec => []WithinOverhead
<1>1. MemInv /\ opts \in Options => WithinOverhead
      BY MemInvBounds
<1> QED BY <1>1, MemInvariant, OptionsKept, PTL

\* Where no frame is larger than its chunk, the bound pipelineParams documents holds
\* as it stands (pushpipeline.go:291).
THEOREM PoolsStayWithinBudget ==
    ASSUME NoNegativeWrap, MaxOverhead = 0 PROVE Spec => []PoolsWithinBudget
<1>1. MemInv /\ opts \in Options => PoolsWithinBudget
      BY MemInvBounds
<1> QED BY <1>1, MemInvariant, OptionsKept, PTL
=============================================================================
