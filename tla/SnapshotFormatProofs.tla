------------------------ MODULE SnapshotFormatProofs ------------------------
(***************************************************************************)
(* What holds of the wire format for every export and all options: what    *)
(* this pusher published can be pulled, and its v1 artifacts are plain; no *)
(* manifest considered, whoever wrote it, is assembled wrong, and the      *)
(* buffers of a prefetching pull fit.                                      *)
(***************************************************************************)
EXTENDS SnapshotFormat, TLAPS, FiniteSetTheorems, WellFoundedInduction

-----------------------------------------------------------------------------
(* The arithmetic that sizes a pull.                                       *)

\* Floor division, as the provers need it.
LEMMA Division ==
    ASSUME NEW a \in Int, NEW b \in Nat \ {0}
    PROVE  /\ a \div b \in Int
           /\ b * (a \div b) <= a /\ a < b * (a \div b) + b
<1>1. a \div b \in Int
      OBVIOUS
<1>2. b * (a \div b) <= a
      OBVIOUS
<1>3. a < b * (a \div b) + b
      OBVIOUS
<1> QED BY <1>1, <1>2, <1>3

\* A product grows with either factor.
LEMMA Monotone ==
    ASSUME NEW a \in Int, NEW b \in Int, NEW c \in Nat, a <= b
    PROVE  c * a \in Int /\ c * b \in Int /\ c * a <= c * b
OBVIOUS

\* int64 returns an integer.
LEMMA int64Type ==
    ASSUME NEW x \in Int PROVE int64(x) \in Int
<1>1. x + IntMax \in Int /\ 2 * IntMax \in Nat \ {0}
      BY SizesAssumption
<1>2. (x + IntMax) % (2 * IntMax) \in Int
      BY <1>1
<1> QED BY <1>2, SizesAssumption DEF int64

\* The worker count before the budget is considered is positive.
LEMMA ConcurrencyType ==
    ASSUME NEW c \in Int PROVE Concurrency(c) \in Nat \ {0}
BY SizesAssumption DEF Concurrency

\* An effective budget is positive.
LEMMA BudgetType ==
    ASSUME NEW mib \in Int, NEW default \in Nat \ {0}
    PROVE  Budget(mib, default) \in Nat \ {0}
<1>1. mib * MiB \in Int
      BY SizesAssumption
<1>2. int64(mib * MiB) \in Int
      BY <1>1, int64Type
<1> QED BY <1>2 DEF Budget

\* The buffers of a prefetching pull stay within its budget: one input buffer
\* per chunk in flight and one output buffer more (newChunkPipeline,
\* pullencoded.go:75-98).
THEOREM PullPoolsFit ==
    ASSUME NEW prefetch \in Int, NEW budget \in Nat, NEW in \in Nat, NEW out \in Nat,
           PrefetchWindow(prefetch, budget, in, out) # 0
    PROVE  LET w == PrefetchWindow(prefetch, budget, in, out)
           IN  /\ w \in Nat /\ w >= 2 /\ w <= prefetch
               /\ in * w + out * (w + 1) <= budget
<1> DEFINE w == PrefetchWindow(prefetch, budget, in, out)
           q == (budget - out) \div (in + out)
<1>1. /\ ~(out <= 0) /\ ~(budget <= out)
      /\ w = AtMost(prefetch, q) /\ w >= 2
      BY DEF PrefetchWindow
<1>2. in + out \in Nat \ {0} /\ budget - out \in Nat
      BY <1>1
<1>3. q \in Int /\ (in + out) * q <= budget - out
  <2> DEFINE unit == in + out
             rest == budget - out
  <2>1. unit \in Nat \ {0} /\ rest \in Int
        BY <1>2
  <2>2. rest \div unit \in Int /\ unit * (rest \div unit) <= rest
    <3> HIDE DEF unit, rest
    <3> QED BY <2>1, Division
  <2> QED BY <2>2
<1>4. w \in Nat /\ w <= prefetch /\ w <= q
  <2> HIDE DEF w, q
  <2> QED BY <1>1, <1>3 DEF AtMost
<1>5. (in + out) * w <= (in + out) * q
      BY <1>2, <1>3, <1>4, Monotone
<1>6. (in + out) * w <= budget - out
      BY <1>2, <1>3, <1>4, <1>5
<1>7. in * w + out * (w + 1) = (in + out) * w + out
  <2> HIDE DEF w
  <2> QED BY <1>4
<1>8. in * w + out * (w + 1) <= budget
  <2> HIDE DEF w
  <2> QED BY <1>2, <1>4, <1>6, <1>7
<1> QED BY <1>1, <1>4, <1>8

\* The pull's decode buffer holds any chunk of a file the push cut: the push
\* cuts size bytes into n chunks of at most chunk bytes, and the pull, which
\* knows size and n only, allocates rawChunkStride(size, n).  A list that has
\* lost chunks makes the buffer larger, never too small.
THEOREM StrideCoversChunk ==
    ASSUME NEW size \in Nat, NEW chunk \in Nat \ {0}, NEW n \in Nat,
           n <= (size + chunk - 1) \div chunk, n >= 2
    PROVE  rawChunkStride(size, n) \in Nat /\ rawChunkStride(size, n) >= chunk
<1>1. chunk * n <= size + chunk - 1
  <2>1. PICK all : all = (size + chunk - 1) \div chunk
        OBVIOUS
  <2>2. all \in Int /\ chunk * all <= size + chunk - 1
        BY <2>1, Division
  <2>3. chunk * n <= chunk * all /\ chunk * all \in Int /\ chunk * n \in Int
        BY <2>1, <2>2, Monotone
  <2> QED BY <2>2, <2>3
<1>2. chunk * (n - 1) = chunk * n - chunk
      OBVIOUS
<1>3. chunk * (n - 1) <= size - 1
      BY <1>1, <1>2
<1> DEFINE q == (size - 1) \div (n - 1)
<1>4. n - 1 \in Nat \ {0} /\ size - 1 \in Int
      OBVIOUS
<1>5. q \in Int /\ size - 1 < (n - 1) * q + (n - 1)
      BY <1>4, Division
<1>6. q >= chunk
  <2>1. SUFFICES ASSUME q + 1 <= chunk PROVE FALSE
        BY <1>5
  <2>2. (n - 1) * (q + 1) <= (n - 1) * chunk
    <3>1. PICK k : k = n - 1
          OBVIOUS
    <3>2. k \in Nat /\ q + 1 \in Int /\ chunk \in Int
          BY <1>4, <1>5, <3>1
    <3>3. k * (q + 1) <= k * chunk
      <4> HIDE DEF q
      <4> QED BY <2>1, <3>2, Monotone
    <3> QED BY <3>1, <3>3
  <2>3. (n - 1) * (q + 1) = (n - 1) * q + (n - 1) /\ (n - 1) * chunk = chunk * (n - 1)
        BY <1>5
  <2> QED BY <2>2, <2>3, <1>3, <1>5
<1>7. size > 0
      BY <1>3, <1>4
<1>8. rawChunkStride(size, n) = q + 1
      BY <1>7, n >= 2 DEF rawChunkStride
<1> QED BY <1>5, <1>6, <1>8

-----------------------------------------------------------------------------
(* Induction and recursion.                                                *)

\* Induction over the naturals, for a set instead of a predicate.
LEMMA Induction ==
    ASSUME NEW S, 0 \in S, \A n \in Nat : n \in S => n + 1 \in S
    PROVE  Nat \subseteq S
<1> DEFINE T == Nat \ S
           R == OpToRel(<, Nat)
<1> SUFFICES ASSUME T # {} PROVE FALSE
    OBVIOUS
<1>1. PICK x \in T : \A y \in T : ~(<<y, x>> \in R)
  <2>1. IsWellFoundedOn(R, Nat)
        BY NatLessThanWellFounded
  <2> HIDE DEF R
  <2> QED BY <2>1, WFMin
<1>2. x - 1 \in Nat /\ <<x - 1, x>> \in R /\ (x - 1) + 1 = x
  <2>1. x \in Nat /\ x # 0
        OBVIOUS
  <2>2. x - 1 \in Nat /\ x - 1 < x /\ (x - 1) + 1 = x
        BY <2>1
  <2> QED BY <2>1, <2>2 DEF OpToRel
<1>3. x - 1 \in S
      BY <1>1, <1>2
<1>4. (x - 1) + 1 \in S
      BY <1>2, <1>3, Zenon
<1> QED BY <1>2, <1>4, Zenon

\* g is what n rounds of a loop compute: round i makes step[i][x] of x.
Rounds(n, X, start, step, g) ==
    /\ g \in [0..n -> X] /\ g[0] = start
    /\ \A i \in 1..n : g[i] = step[i][g[i - 1]]

\* Such a computation exists.
LEMMA RoundsExist ==
    ASSUME NEW X, NEW start \in X, NEW n \in Nat, NEW step \in [1..n -> [X -> X]]
    PROVE  \E g : Rounds(n, X, start, step, g)
<1> DEFINE Good == {k \in Nat : k <= n => \E g : Rounds(k, X, start, step, g)}
<1>1. 0 \in Good
  <2>1. Rounds(0, X, start, step, [i \in 0..0 |-> start])
        BY DEF Rounds
  <2>2. \E g : Rounds(0, X, start, step, g)
        BY <2>1
  <2> QED BY <2>2
<1>2. ASSUME NEW k \in Nat, k \in Good PROVE k + 1 \in Good
  <2> SUFFICES ASSUME k + 1 <= n PROVE \E g : Rounds(k + 1, X, start, step, g)
      OBVIOUS
  <2>1. PICK g : Rounds(k, X, start, step, g)
        BY <1>2
  <2> DEFINE h == [i \in 0..(k + 1) |-> IF i = k + 1 THEN step[k + 1][g[k]] ELSE g[i]]
  <2>2. g[k] \in X /\ g \in [0..k -> X] /\ step[k + 1][g[k]] \in X
        BY <2>1 DEF Rounds
  <2>3. h \in [0..(k + 1) -> X] /\ h[0] = start
        BY <2>1, <2>2 DEF Rounds
  <2>4. ASSUME NEW i \in 1..(k + 1) PROVE h[i] = step[i][h[i - 1]]
    <3>1. h[i - 1] = g[i - 1]
          BY <2>4
    <3>2. CASE i = k + 1
          BY <3>1, <3>2
    <3>3. CASE i # k + 1
          BY <2>1, <3>1, <3>3 DEF Rounds
    <3> QED BY <3>2, <3>3
  <2>5. Rounds(k + 1, X, start, step, h)
        BY <2>3, <2>4 DEF Rounds
  <2> QED BY <2>5
<1> HIDE DEF Good
<1>3. Nat \subseteq Good
      BY <1>1, <1>2, Induction
<1> QED BY <1>3 DEF Good

\* What FlattenSeq computes of its first i sequences.
Joined(s, f) ==
    f = [i \in 1..Len(s) |-> IF i = 1 THEN s[i] ELSE f[i - 1] \o s[i]]

\* FlattenSeq computes that: the recursion has a solution.
LEMMA FlattenUnfolds ==
    ASSUME NEW T, NEW s \in Seq(Seq(T)), Len(s) # 0
    PROVE  \E f : Joined(s, f) /\ FlattenSeq(s) = f[Len(s)]
<1>1. PICK n : n = Len(s)
      OBVIOUS
<1>2. n \in Nat \ {0} /\ \A i \in 1..n : s[i] \in Seq(T)
      BY <1>1
<1> DEFINE step == [i \in 1..n |-> [x \in Seq(T) |-> x \o s[i]]]
<1>3. step \in [1..n -> [Seq(T) -> Seq(T)]]
  <2>1. ASSUME NEW i \in 1..n, NEW x \in Seq(T) PROVE x \o s[i] \in Seq(T)
        BY <1>2
  <2> QED BY <2>1
<1>4. PICK g : Rounds(n, Seq(T), <<>>, step, g)
  <2>1. <<>> \in Seq(T) /\ n \in Nat
        BY <1>2
  <2> HIDE DEF step
  <2> QED BY <1>3, <2>1, RoundsExist
<1> DEFINE h == [i \in 1..n |-> g[i]]
<1>5. ASSUME NEW i \in 1..n
      PROVE  h[i] = IF i = 1 THEN s[i] ELSE h[i - 1] \o s[i]
  <2>1. i - 1 \in 0..n /\ g \in [0..n -> Seq(T)] /\ g[0] = <<>> /\ g[i] = step[i][g[i - 1]]
    <3> HIDE DEF step
    <3> QED BY <1>2, <1>4, SMTT(30) DEF Rounds
  <2>2. g[i - 1] \in Seq(T)
        BY <2>1
  <2>3. g[i] = g[i - 1] \o s[i] /\ h[i] = g[i]
        BY <2>1, <2>2
  <2>4. CASE i = 1
    <3>1. s[1] \in Seq(T)
          BY <1>2
    <3>2. <<>> \o s[1] = s[1] /\ 1 - 1 = 0
          BY <3>1
    <3> HIDE DEF h, step
    <3> QED BY <2>1, <2>3, <2>4, <3>2
  <2>5. CASE i # 1
    <3>1. h[i - 1] = g[i - 1]
          BY <1>2, <2>5
    <3> HIDE DEF h, step
    <3> QED BY <2>3, <2>5, <3>1
  <2> QED BY <2>4, <2>5
<1>6. Joined(s, h)
      BY <1>1, <1>5 DEF Joined
<1> DEFINE f == CHOOSE k : Joined(s, k)
<1>7. Joined(s, f)
  <2> HIDE DEF h
  <2> QED BY <1>6
<1>8. FlattenSeq(s) = f[Len(s)]
      BY DEF FlattenSeq, Joined
<1> HIDE DEF f
<1> QED BY <1>7, <1>8

\* Concatenating sequences over T gives a sequence over T.
LEMMA FlattenType ==
    ASSUME NEW T, NEW s \in Seq(Seq(T))
    PROVE  FlattenSeq(s) \in Seq(T)
<1>1. CASE Len(s) = 0
      BY <1>1 DEF FlattenSeq
<1>2. CASE Len(s) # 0
  <2>1. PICK f : Joined(s, f) /\ FlattenSeq(s) = f[Len(s)]
        BY <1>2, FlattenUnfolds
  <2>2. PICK n : n = Len(s)
        OBVIOUS
  <2>3. n \in Nat \ {0} /\ \A i \in 1..n : s[i] \in Seq(T)
        BY <1>2, <2>2
  <2>4. \A i \in 1..n : f[i] = IF i = 1 THEN s[i] ELSE f[i - 1] \o s[i]
        BY <2>1, <2>2 DEF Joined
  <2> DEFINE Good == {i \in Nat : i + 1 \in 1..n => f[i + 1] \in Seq(T)}
  <2>5. 0 \in Good
        BY <2>3, <2>4
  <2>6. ASSUME NEW i \in Nat, i \in Good PROVE i + 1 \in Good
    <3> SUFFICES ASSUME (i + 1) + 1 \in 1..n PROVE f[(i + 1) + 1] \in Seq(T)
        OBVIOUS
    <3>1. PICK j : j = (i + 1) + 1
          OBVIOUS
    <3>2. j \in 1..n /\ j # 1 /\ j - 1 = i + 1 /\ i + 1 \in 1..n
          BY <2>3, <3>1
    <3>3. f[j - 1] \in Seq(T) /\ s[j] \in Seq(T)
          BY <2>3, <2>6, <3>2
    <3>4. f[j] = f[j - 1] \o s[j]
          BY <2>4, <3>2
    <3>5. f[j] \in Seq(T)
          BY <3>3, <3>4
    <3> QED BY <3>1, <3>5
  <2> HIDE DEF Good
  <2>7. Nat \subseteq Good
        BY <2>5, <2>6, Induction
  <2>8. n - 1 \in Nat /\ (n - 1) + 1 = n /\ n \in 1..n
        BY <2>3
  <2>9. f[(n - 1) + 1] \in Seq(T)
        BY <2>7, <2>8 DEF Good
  <2> QED BY <2>1, <2>2, <2>8, <2>9
<1> QED BY <1>1, <1>2

\* off[i] is how many elements the first i sequences have.
Offsets(s, off) ==
    /\ off \in [0..Len(s) -> Nat] /\ off[0] = 0
    /\ \A i \in 1..Len(s) : off[i] = off[i - 1] + Len(s[i])

\* r is the first n sequences, one after another.
Laid(s, off, n, r) ==
    /\ Len(r) = off[n]
    /\ \A k \in 1..n, j \in Nat :
         j \in 1..Len(s[k]) => /\ off[k - 1] + j \in 1..off[n]
                               /\ r[off[k - 1] + j] = s[k][j]

\* One more sequence.
LEMMA LaidNext ==
    ASSUME NEW T, NEW s \in Seq(Seq(T)), NEW off, Offsets(s, off), NEW n \in 1..Len(s),
           NEW r \in Seq(T), n # 1 => Laid(s, off, n - 1, r), n = 1 => r = <<>>
    PROVE  Laid(s, off, n, r \o s[n])
<1>1. /\ n \in Nat /\ n - 1 \in 0..Len(s) /\ s[n] \in Seq(T) /\ off[n - 1] \in Nat
      /\ off[n] \in Nat /\ off[n] = off[n - 1] + Len(s[n]) /\ off[0] = 0
  <2>1. Len(s) \in Nat /\ s[n] \in Seq(T) /\ off \in [0..Len(s) -> Nat] /\ off[0] = 0
        BY DEF Offsets
  <2>2. n \in Nat /\ n - 1 \in 0..Len(s) /\ n \in 0..Len(s)
        BY <2>1
  <2>3. off[n] = off[n - 1] + Len(s[n])
        BY DEF Offsets
  <2> QED BY <2>1, <2>2, <2>3
<1>2. Len(r) = off[n - 1]
      BY <1>1 DEF Laid
<1>3. PICK q : q = r \o s[n]
      OBVIOUS
<1>4. /\ Len(q) = Len(r) + Len(s[n])
      /\ \A i \in 1..Len(r) : q[i] = r[i]
      /\ \A i \in Nat : i \in 1..Len(s[n]) => q[Len(r) + i] = s[n][i]
  <2>1. PICK u : u = s[n]
        OBVIOUS
  <2>2. /\ Len(r \o u) = Len(r) + Len(u)
        /\ \A i \in 1..Len(r) : (r \o u)[i] = r[i]
        /\ \A i \in 1..Len(u) : (r \o u)[Len(r) + i] = u[i]
        BY <1>1, <2>1
  <2> QED BY <1>3, <2>1, <2>2
<1>5. ASSUME NEW k \in 1..n, NEW j \in Nat, j \in 1..Len(s[k])
      PROVE  off[k - 1] + j \in 1..off[n] /\ q[off[k - 1] + j] = s[k][j]
  <2>1. CASE k = n
    <3>1. off[n - 1] + j \in 1..off[n]
          BY <1>1, <1>5, <2>1
    <3>2. q[off[n - 1] + j] = s[n][j]
          BY <1>2, <1>4, <1>5, <2>1
    <3> QED BY <2>1, <3>1, <3>2
  <2>2. CASE k # n
    <3>1. n # 1 /\ k \in 1..(n - 1)
          BY <1>1, <2>2
    <3>2. off[k - 1] + j \in 1..off[n - 1] /\ r[off[k - 1] + j] = s[k][j]
          BY <1>5, <3>1 DEF Laid
    <3>3. PICK i : i = off[k - 1] + j
          OBVIOUS
    <3>4. i \in 1..Len(r) /\ i \in 1..off[n]
      <4>1. i \in 1..off[n - 1] /\ Len(s[n]) \in Nat
            BY <1>1, <3>2, <3>3, SMTT(30)
      <4> QED BY <1>1, <1>2, <4>1
    <3> QED BY <1>4, <3>2, <3>3, <3>4
  <2> QED BY <2>1, <2>2
<1>6. Len(q) = off[n]
      BY <1>1, <1>2, <1>4
<1>7. Laid(s, off, n, q)
      BY <1>5, <1>6 DEF Laid
<1> QED BY <1>3, <1>7

\* FlattenSeq puts one sequence after another.
LEMMA FlattenLays ==
    ASSUME NEW T, NEW s \in Seq(Seq(T)), NEW off, Offsets(s, off)
    PROVE  Laid(s, off, Len(s), FlattenSeq(s))
<1>1. CASE Len(s) = 0
      BY <1>1 DEF FlattenSeq, Laid, Offsets
<1>2. CASE Len(s) # 0
  <2>1. PICK f : Joined(s, f) /\ FlattenSeq(s) = f[Len(s)]
        BY <1>2, FlattenUnfolds
  <2>2. PICK n : n = Len(s)
        OBVIOUS
  <2>3. n \in Nat \ {0} /\ \A i \in 1..n : s[i] \in Seq(T)
        BY <1>2, <2>2
  <2>4. \A i \in 1..n : f[i] = IF i = 1 THEN s[i] ELSE f[i - 1] \o s[i]
        BY <2>1, <2>2 DEF Joined
  <2> DEFINE Good == {i \in Nat : i + 1 \in 1..n => /\ f[i + 1] \in Seq(T)
                                                     /\ Laid(s, off, i + 1, f[i + 1])}
  <2>5. 0 \in Good
    <3>1. 1 \in 1..n /\ f[1] = s[1] /\ s[1] \in Seq(T)
          BY <2>3, <2>4
    <3>2. <<>> \o s[1] = s[1] /\ <<>> \in Seq(T)
          BY <3>1
    <3>3. Laid(s, off, 1, <<>> \o s[1])
          BY <2>2, <3>1, <3>2, LaidNext
    <3>4. Laid(s, off, 1, f[1]) /\ f[1] \in Seq(T)
          BY <3>1, <3>2, <3>3
    <3> QED BY <3>4
  <2>6. ASSUME NEW i \in Nat, i \in Good PROVE i + 1 \in Good
    <3> SUFFICES ASSUME (i + 1) + 1 \in 1..n
                 PROVE  f[(i + 1) + 1] \in Seq(T) /\ Laid(s, off, (i + 1) + 1, f[(i + 1) + 1])
        OBVIOUS
    <3>1. PICK j : j = (i + 1) + 1
          OBVIOUS
    <3>2. j \in 1..n /\ j # 1 /\ j - 1 = i + 1 /\ i + 1 \in 1..n
          BY <2>3, <3>1
    <3>3. f[j - 1] \in Seq(T) /\ Laid(s, off, j - 1, f[j - 1]) /\ s[j] \in Seq(T)
          BY <2>3, <2>6, <3>2
    <3>4. f[j] = f[j - 1] \o s[j]
          BY <2>4, <3>2
    <3>5. f[j] \in Seq(T)
          BY <3>3, <3>4
    <3>6. Laid(s, off, j, f[j])
          BY <2>2, <3>2, <3>3, <3>4, LaidNext
    <3> QED BY <3>1, <3>5, <3>6
  <2> HIDE DEF Good
  <2>7. Nat \subseteq Good
        BY <2>5, <2>6, Induction
  <2>8. n - 1 \in Nat /\ (n - 1) + 1 = n /\ n \in 1..n
        BY <2>3
  <2>9. Laid(s, off, (n - 1) + 1, f[(n - 1) + 1])
        BY <2>7, <2>8 DEF Good
  <2> QED BY <2>1, <2>2, <2>8, <2>9
<1> QED BY <1>1, <1>2

\* A finite set of naturals has a greatest element, and Max is it.
LEMMA Greatest ==
    ASSUME NEW S \in SUBSET Nat, IsFiniteSet(S), S # {}
    PROVE  Max(S) \in S /\ \A y \in S : Max(S) >= y
<1> DEFINE Has(R) == \E x \in R : \A y \in R : x >= y
           Good == {n \in Nat : \A R \in SUBSET Nat :
                       IsFiniteSet(R) /\ R # {} /\ Cardinality(R) <= n => Has(R)}
<1>1. 0 \in Good
  <2>1. ASSUME NEW R \in SUBSET Nat, IsFiniteSet(R), R # {}, Cardinality(R) <= 0 PROVE FALSE
    <3>1. Cardinality(R) = 0
          BY <2>1, FS_CardinalityType
    <3> QED BY <2>1, <3>1, FS_EmptySet
  <2> QED BY <2>1
<1>2. ASSUME NEW n \in Nat, n \in Good PROVE n + 1 \in Good
  <2>1. ASSUME NEW R \in SUBSET Nat, IsFiniteSet(R), R # {}, Cardinality(R) <= n + 1
        PROVE  Has(R)
    <3>1. PICK x \in R : TRUE
          BY <2>1
    <3> DEFINE Q == R \ {x}
    <3>2. CASE Q = {}
      <4>1. \A y \in R : y = x
            BY <3>2
      <4> QED BY <3>1, <4>1
    <3>3. CASE Q # {}
      <4>1. /\ IsFiniteSet(Q) /\ Cardinality(Q) = Cardinality(R) - 1 /\ Cardinality(R) \in Nat
            BY <2>1, <3>1, FS_RemoveElement, FS_CardinalityType
      <4>2. PICK z \in Q : \A y \in Q : z >= y
        <5>1. Q \in SUBSET Nat /\ Cardinality(Q) <= n
              BY <2>1, <4>1
        <5> HIDE DEF Q
        <5> QED BY <1>2, <3>3, <4>1, <5>1
      <4>3. z \in Nat /\ x \in Nat /\ z \in R
            BY <3>1, <4>2
      <4>4. CASE z >= x
        <5>1. \A y \in R : z >= y
              BY <4>2, <4>4
        <5> QED BY <4>3, <5>1
      <4>5. CASE ~(z >= x)
        <5>1. \A y \in R : x >= y
          <6> TAKE y \in R
          <6>1. y \in Nat
                OBVIOUS
          <6>2. CASE y = x
                BY <4>3, <6>2
          <6>3. CASE y # x
            <7>1. z >= y
                  BY <4>2, <6>3
            <7> QED BY <4>3, <4>5, <6>1, <7>1
          <6> QED BY <6>2, <6>3
        <5> QED BY <3>1, <5>1
      <4> QED BY <4>4, <4>5
    <3> QED BY <3>2, <3>3
  <2> HIDE DEF Has
  <2> QED BY <2>1
<1> HIDE DEF Good, Has
<1>3. Nat \subseteq Good
      BY <1>1, <1>2, Induction
<1>4. Cardinality(S) \in Nat
      BY FS_CardinalityType
<1>5. Has(S)
  <2>1. Cardinality(S) \in Good /\ Cardinality(S) <= Cardinality(S)
        BY <1>3, <1>4
  <2> QED BY <2>1 DEF Good
<1> QED BY <1>5 DEF Has, Max

-----------------------------------------------------------------------------
(* What is published.                                                      *)

\* The files of an export.
LEMMA ExportType ==
    ASSUME export \in Exports
    PROVE  /\ Len(export) \in Nat /\ DOMAIN export = 1..Len(export)
           /\ \A k \in DOMAIN export : Len(export[k].data) \in Nat
           /\ \A j, k \in DOMAIN export : export[j].name = export[k].name => j = k
<1>1. PICK x : x = export
      OBVIOUS
<1>2. PICK S : x \in Seq(S)
      BY <1>1, FormatAssumption
<1>3. Len(x) \in Nat /\ DOMAIN x = 1..Len(x)
      BY <1>2
<1>4. ASSUME NEW k \in DOMAIN x PROVE Len(x[k].data) \in Nat
  <2>1. PICK U : x[k].data \in Seq(U)
        BY <1>1, FormatAssumption
  <2> QED BY <2>1
<1>5. \A j, k \in DOMAIN x : x[j].name = x[k].name => j = k
      BY <1>1, FormatAssumption
<1> QED BY <1>1, <1>3, <1>4, <1>5

\* A file has a blob; it has several only if it is split.
LEMMA CountType ==
    ASSUME mode \in PushModes, NEW f, Len(f.data) \in Nat
    PROVE  /\ mode.chunk \in Nat /\ count(f) \in Nat \ {0}
           /\ count(f) # 1 => /\ Chunked(f) /\ mode.chunk # 0 /\ Len(f.data) # 0
                              /\ count(f) = (Len(f.data) + mode.chunk - 1) \div mode.chunk
<1>1. mode.chunk \in Nat
      BY FormatAssumption
<1>2. CASE ~Chunked(f)
      BY <1>1, <1>2 DEF count
<1>3. CASE Chunked(f)
  <2>1. mode.chunk > 0 /\ Len(f.data) > 0
        BY <1>1, <1>3, SizesAssumption DEF Chunked, Encoded, compress, compressMin
  <2>2. PICK c, l : c = mode.chunk /\ l = Len(f.data)
        OBVIOUS
  <2>3. c \in Nat \ {0} /\ l \in Nat \ {0}
        BY <1>1, <2>1, <2>2
  <2>4. PICK q : q = (l + c - 1) \div c
        OBVIOUS
  <2>5. q \in Int /\ l + c - 1 < c * q + c
    <3>1. l + c - 1 \in Int
          BY <2>3
    <3> QED BY <2>3, <2>4, <3>1, Division
  <2>6. q >= 1
    <3> SUFFICES ASSUME q <= 0 PROVE FALSE
        BY <2>5
    <3>1. c * q <= c * 0 /\ c * q \in Int
          BY <2>3, <2>5, Monotone
    <3> QED BY <2>3, <2>5, <3>1
  <2>7. count(f) = q
        BY <1>3, <2>2, <2>4 DEF count
  <2> QED BY <1>1, <1>3, <2>2, <2>3, <2>4, <2>5, <2>6, <2>7
<1> QED BY <1>2, <1>3

\* The layers of the export, file by file.
Layout == [k \in DOMAIN export |-> Descriptors(export[k])]
Originals == UNION {{Descriptor(export[k], i) : i \in 1..count(export[k])} : k \in DOMAIN export}

\* The descriptors of the files, in the order of the export.
LEMMA LayoutType ==
    ASSUME export \in Exports, mode \in PushModes
    PROVE  /\ Layout \in Seq(Seq(Originals)) /\ Len(Layout) = Len(export)
           /\ \A k \in DOMAIN export : Len(Layout[k]) = count(export[k])
<1>1. /\ Len(export) \in Nat /\ DOMAIN export = 1..Len(export)
      /\ \A k \in DOMAIN export : Len(export[k].data) \in Nat
      BY ExportType
<1>2. ASSUME NEW k \in DOMAIN export
      PROVE  Descriptors(export[k]) \in Seq(Originals) /\ Len(Descriptors(export[k])) = count(export[k])
  <2>1. PICK c : c = count(export[k])
        OBVIOUS
  <2>2. c \in Nat
        BY <1>1, <2>1, CountType
  <2>3. \A i \in 1..c : Descriptor(export[k], i) \in Originals
        BY <2>1 DEF Originals
  <2>4. [i \in 1..c |-> Descriptor(export[k], i)] \in Seq(Originals)
        BY <2>2, <2>3
  <2>5. Len([i \in 1..c |-> Descriptor(export[k], i)]) = c
        BY <2>2
  <2> QED BY <2>1, <2>4, <2>5 DEF Descriptors
<1>3. Layout = [k \in 1..Len(export) |-> Descriptors(export[k])]
      BY <1>1 DEF Layout
<1> HIDE DEF Layout
<1>4. Layout \in Seq(Seq(Originals)) /\ Len(Layout) = Len(export)
      BY <1>1, <1>2, <1>3
<1> QED BY <1>1, <1>2, <1>3, <1>4

\* A v1 manifest has one raw layer per file.
LEMMA V1IsPlain ==
    ASSUME export \in Exports, mode \in PushModes, m = buildSnapshotManifest,
           m.artifact = "snapshot.v1"
    PROVE  /\ Len(m.layers) = Len(export) /\ DOMAIN m.layers = 1..Len(export)
           /\ \A k \in DOMAIN m.layers : /\ m.layers[k].title = export[k].name
                                          /\ m.layers[k].digest = Blob("raw", export[k].data)
                                          /\ ~IsZstdMediaType(m.layers[k].type)
<1>1. ASSUME NEW k \in DOMAIN export PROVE ~Encoded(export[k])
      BY DEF buildSnapshotManifest, snapshotVersionMarkers
<1>2. ASSUME NEW k \in DOMAIN export PROVE ~compress(export[k]) /\ ~Chunked(export[k]) /\ count(export[k]) = 1
      BY <1>1 DEF Encoded, Chunked, count
<1>3. PICK n : n = Len(export)
      OBVIOUS
<1>4. n \in Nat /\ DOMAIN export = 1..n
      BY <1>3, ExportType
<1>5. PICK s : s = Layout
      OBVIOUS
<1>6. s \in Seq(Seq(Originals)) /\ Len(s) = n
      BY <1>3, <1>5, LayoutType
<1>13. \A k \in 1..n : Len(s[k]) = 1
      BY <1>2, <1>3, <1>4, <1>5, LayoutType
<1>7. Offsets(s, [i \in 0..n |-> i])
  <2>1. Len(s) = n
        BY <1>6
  <2>2. \A i \in 1..n : i - 1 \in 0..n /\ i \in 0..n /\ i = (i - 1) + 1
        BY <1>4
  <2>3. \A i \in 1..n : [j \in 0..n |-> j][i] = [j \in 0..n |-> j][i - 1] + Len(s[i])
        BY <1>13, <2>2
  <2>4. [j \in 0..n |-> j] \in [0..Len(s) -> Nat] /\ [j \in 0..n |-> j][0] = 0
        BY <1>4, <2>1
  <2>5. PICK off : off = [j \in 0..n |-> j]
        OBVIOUS
  <2> QED BY <2>1, <2>3, <2>4, <2>5 DEF Offsets
<1>8. m.layers = FlattenSeq(s) /\ m.layers \in Seq(Originals)
  <2>1. m.layers = FlattenSeq(s)
        BY <1>5 DEF buildSnapshotManifest, Layout
  <2> QED BY <1>6, <2>1, FlattenType
<1>9. Laid(s, [i \in 0..n |-> i], n, m.layers)
      BY <1>6, <1>7, <1>8, FlattenLays
<1>10. Len(m.layers) = n /\ DOMAIN m.layers = 1..n
      BY <1>4, <1>8, <1>9 DEF Laid
<1>11. ASSUME NEW k \in 1..n PROVE m.layers[k] = Descriptor(export[k], 1)
  <2>1. (k - 1) + 1 = k /\ k - 1 \in 0..n /\ 1 \in 1..Len(s[k]) /\ 1 \in Nat
        BY <1>4, <1>13
  <2>2. m.layers[[i \in 0..n |-> i][k - 1] + 1] = s[k][1]
        BY <1>9, <2>1 DEF Laid
  <2>3. s[k][1] = Descriptor(export[k], 1)
        BY <1>2, <1>4, <1>5 DEF Layout, Descriptors
  <2> QED BY <2>1, <2>2, <2>3
<1>12. ASSUME NEW k \in 1..n
       PROVE  /\ m.layers[k].title = export[k].name
              /\ m.layers[k].digest = Blob("raw", export[k].data)
              /\ ~IsZstdMediaType(m.layers[k].type)
  <2>1. ~compress(export[k]) /\ ~Chunked(export[k])
        BY <1>2, <1>4
  <2>2. m.layers[k] = Descriptor(export[k], 1)
        BY <1>11
  <2>3. /\ Descriptor(export[k], 1).title = export[k].name
        /\ Descriptor(export[k], 1).digest = Blob("raw", export[k].data)
        /\ ~Descriptor(export[k], 1).type.zstd
        BY <2>1 DEF Descriptor, Part, MediaTypeForCocoonFile, Type
  <2> QED BY <2>2, <2>3 DEF IsZstdMediaType
<1> QED BY <1>3, <1>10, <1>12

-----------------------------------------------------------------------------
(* What Stream may find.                                                   *)

\* d is a layer of the export, up to what another writer may have changed.
IsLayer(d) ==
    \E k \in DOMAIN export : \E i \in 1..count(export[k]) :
       /\ d.digest = Descriptor(export[k], i).digest
       /\ d.size \in {StoredSize(d.digest), -1}
       /\ d.title \in {export[k].name, NoTitle}
       /\ d.type = Type("future") \/ (d.type.zstd <=> compress(export[k]))

AllLayers(layers) == \E S : layers \in Seq(S) /\ \A d \in S : IsLayer(d)

\* Unless a title is missing every file has a layer, and only a file that was
\* split has several.
OnePerFile(layers) ==
    /\ (\A p \in DOMAIN layers : layers[p].title # NoTitle) =>
         \A k \in DOMAIN export : \E p \in DOMAIN layers : layers[p].title = export[k].name
    /\ \A k \in DOMAIN export : \A p, q \in DOMAIN layers :
         p # q /\ layers[p].title = export[k].name /\ layers[q].title = export[k].name
           => count(export[k]) >= 2

\* The writers who left out the only layer of a file, or wrote it twice.
Partial == {"file missing", "file repeated"}

Full(layers) == AllLayers(layers) /\ OnePerFile(layers)
LayersOK(w, layers) == AllLayers(layers) /\ (w \notin Partial => OnePerFile(layers))

\* The sizes of a file may be missing from the config, and a chunk from its list.
IsMeta(meta, k) ==
    /\ meta.mode = export[k].mode /\ meta.size \in {0, Len(export[k].data)}
    /\ meta.sparse \in {export[k].sparse, [export[k].sparse EXCEPT !.size = 0]}
    /\ \/ meta.chunks = FileMeta(export[k]).chunks
       \/ /\ FileMeta(export[k]).chunks # <<>>
          /\ meta.chunks = Tail(FileMeta(export[k]).chunks)

FilesOK(files) ==
    /\ \A k \in DOMAIN export : export[k].name \in DOMAIN files
    /\ \A name \in DOMAIN files : \E k \in DOMAIN export :
         export[k].name = name /\ IsMeta(files[name], k)

\* The layers of a manifest are those of the export.
LEMMA OriginalsAreLayers ==
    ASSUME export \in Exports, mode \in PushModes
    PROVE  /\ buildSnapshotManifest.layers \in Seq(Originals)
           /\ \A d \in Originals :
                /\ d = [type |-> d.type, digest |-> d.digest, size |-> d.size, title |-> d.title]
                /\ \E k \in DOMAIN export : \E i \in 1..count(export[k]) :
                     d = Descriptor(export[k], i)
                /\ IsLayer(d)
<1>1. buildSnapshotManifest.layers = FlattenSeq(Layout)
      BY DEF buildSnapshotManifest, Layout
<1>2. buildSnapshotManifest.layers \in Seq(Originals)
      BY <1>1, LayoutType, FlattenType
<1>3. ASSUME NEW d \in Originals
      PROVE  /\ d = [type |-> d.type, digest |-> d.digest, size |-> d.size, title |-> d.title]
             /\ \E k \in DOMAIN export : \E i \in 1..count(export[k]) :
                  d = Descriptor(export[k], i)
             /\ IsLayer(d)
  <2>0. PICK k \in DOMAIN export : \E i \in 1..count(export[k]) : d = Descriptor(export[k], i)
        BY DEF Originals
  <2>1. PICK i \in 1..count(export[k]) : d = Descriptor(export[k], i)
        BY <2>0
  <2>2. PICK b, t : /\ d = [type |-> t, digest |-> b, size |-> StoredSize(b), title |-> export[k].name]
                    /\ t.zstd <=> compress(export[k])
    <3>1. CASE compress(export[k])
      <4>1. ZstdMediaType(MediaTypeForCocoonFile(export[k].name)).zstd
            BY DEF ZstdMediaType, MediaTypeForCocoonFile, Type
      <4> QED BY <2>1, <3>1, <4>1 DEF Descriptor
    <3>2. CASE ~compress(export[k])
      <4>1. ~MediaTypeForCocoonFile(export[k].name).zstd
            BY DEF MediaTypeForCocoonFile, Type
      <4> QED BY <2>1, <3>2, <4>1 DEF Descriptor
    <3> QED BY <3>1, <3>2
  <2>3. d.type = t /\ d.digest = b /\ d.size = StoredSize(b) /\ d.title = export[k].name
        BY <2>2
  <2>4. IsLayer(d)
        BY <2>1, <2>2, <2>3 DEF IsLayer
  <2>5. d = [type |-> d.type, digest |-> d.digest, size |-> d.size, title |-> d.title]
        BY <2>2, <2>3
  <2> QED BY <2>1, <2>4, <2>5
<1> QED BY <1>2, <1>3

\* The config describes each file of the export under its name.
LEMMA FilesAreMeta ==
    ASSUME NEW name \in DOMAIN SnapshotConfig.files
    PROVE  \E k \in DOMAIN export : /\ export[k].name = name
                                    /\ SnapshotConfig.files[name] = FileMeta(export[k])
<1>1. PICK names : names = {export[k].name : k \in DOMAIN export}
      OBVIOUS
<1>2. SnapshotConfig.files
        = [x \in names |-> FileMeta(CHOOSE f \in ToSet(export) : f.name = x)]
      BY <1>1 DEF SnapshotConfig
<1>3. name \in names
      BY <1>2
<1>4. PICK f : f = CHOOSE g \in ToSet(export) : g.name = name
      OBVIOUS
<1>5. \E g \in ToSet(export) : g.name = name
      BY <1>1, <1>3 DEF ToSet
<1>6. f \in ToSet(export) /\ f.name = name
      BY <1>4, <1>5
<1>7. SnapshotConfig.files[name] = FileMeta(f)
      BY <1>2, <1>3, <1>4
<1> QED BY <1>6, <1>7 DEF ToSet

\* The files of a config are those of the export.
LEMMA ConfigIsOK ==
    ASSUME export \in Exports, mode \in PushModes
    PROVE  FilesOK(SnapshotConfig.files)
<1>1. \A k \in DOMAIN export : IsMeta(FileMeta(export[k]), k)
  <2>1. \A f : /\ FileMeta(f).size = Len(f.data) /\ FileMeta(f).sparse = f.sparse
               /\ FileMeta(f).mode = f.mode
        BY DEF FileMeta
  <2> QED BY <2>1 DEF IsMeta
<1>2. \A k \in DOMAIN export : export[k].name \in DOMAIN SnapshotConfig.files
      BY DEF SnapshotConfig
<1> QED BY <1>1, <1>2, FilesAreMeta DEF FilesOK

-----------------------------------------------------------------------------
(* The plan.                                                               *)

\* plan[n] are the entries of the first n layers.
IsPlan(plan) ==
    plan = [n \in 0..Len(m.layers) |->
              IF n = 0 THEN <<>>
              ELSE IF Emits(n) THEN Append(plan[n - 1], Entry(m.layers[n]))
              ELSE plan[n - 1]]

\* Planned is computed that way.
LEMMA PlanUnfolds ==
    ASSUME NEW S, m.layers \in Seq(S)
    PROVE  \E plan : IsPlan(plan) /\ Planned = plan[Len(m.layers)]
<1>1. PICK n : n = Len(m.layers)
      OBVIOUS
<1>2. n \in Nat
      BY <1>1
<1>3. PICK X : X = Seq({Entry(m.layers[i]) : i \in 1..n})
      OBVIOUS
<1> DEFINE step == [i \in 1..n |-> [x \in X |-> IF Emits(i) THEN Append(x, Entry(m.layers[i])) ELSE x]]
<1>4. step \in [1..n -> [X -> X]]
  <2>1. ASSUME NEW i \in 1..n, NEW x \in X
        PROVE  (IF Emits(i) THEN Append(x, Entry(m.layers[i])) ELSE x) \in X
    <3>1. Append(x, Entry(m.layers[i])) \in X
          BY <1>3
    <3> QED BY <3>1
  <2> QED BY <2>1
<1>5. PICK g : Rounds(n, X, <<>>, step, g)
  <2>1. <<>> \in X
        BY <1>3
  <2> HIDE DEF step
  <2> QED BY <1>2, <1>4, <2>1, RoundsExist
<1>6. g \in [0..n -> X] /\ g[0] = <<>> /\ \A i \in 1..n : g[i] = step[i][g[i - 1]]
  <2> HIDE DEF step
  <2> QED BY <1>5 DEF Rounds
<1>7. ASSUME NEW i \in 0..n
      PROVE  g[i] = IF i = 0 THEN <<>>
                    ELSE IF Emits(i) THEN Append(g[i - 1], Entry(m.layers[i]))
                    ELSE g[i - 1]
  <2>1. CASE i = 0
        BY <1>6, <2>1
  <2>2. CASE i # 0
    <3>1. i \in 1..n /\ i - 1 \in 0..n
          BY <1>2, <2>2
    <3>2. g[i - 1] \in X
          BY <1>6, <3>1
    <3>3. g[i] = IF Emits(i) THEN Append(g[i - 1], Entry(m.layers[i])) ELSE g[i - 1]
          BY <1>6, <3>1, <3>2
    <3> QED BY <2>2, <3>3
  <2> QED BY <2>1, <2>2
<1>8. IsPlan(g)
      BY <1>1, <1>6, <1>7 DEF IsPlan
<1> DEFINE plan == CHOOSE h : IsPlan(h)
<1>9. IsPlan(plan)
      BY <1>8
<1>10. Planned = plan[Len(m.layers)]
       BY DEF Planned, IsPlan
<1> HIDE DEF plan
<1> QED BY <1>9, <1>10

\* The entries of a plan that was accepted.
PlanSet == {Entry(m.layers[j]) : j \in {k \in DOMAIN m.layers :
                IsEncoded(m.layers[k]) => Resolvable(m.layers[k])}}

\* The plan has nothing but such entries.
LEMMA PlannedType ==
    ASSUME NEW S, m.layers \in Seq(S),
           \A k \in DOMAIN m.layers :
              Emits(k) /\ IsEncoded(m.layers[k]) => Resolvable(m.layers[k])
    PROVE  Planned \in Seq(PlanSet)
<1>1. PICK plan : IsPlan(plan) /\ Planned = plan[Len(m.layers)]
      BY PlanUnfolds
<1>2. PICK n : n = Len(m.layers)
      OBVIOUS
<1>3. n \in Nat /\ DOMAIN m.layers = 1..n
      BY <1>2
<1>4. \A i \in 0..n : plan[i] = IF i = 0 THEN <<>>
                                ELSE IF Emits(i) THEN Append(plan[i - 1], Entry(m.layers[i]))
                                ELSE plan[i - 1]
      BY <1>1, <1>2 DEF IsPlan
<1> DEFINE Good == {i \in Nat : i <= n => plan[i] \in Seq(PlanSet)}
<1>5. 0 \in Good
  <2>1. plan[0] = <<>> /\ <<>> \in Seq(PlanSet)
        BY <1>3, <1>4
  <2> HIDE DEF PlanSet
  <2>2. plan[0] \in Seq(PlanSet)
        BY <2>1
  <2> QED BY <2>2
<1>6. ASSUME NEW i \in Nat, i \in Good PROVE i + 1 \in Good
  <2> SUFFICES ASSUME i + 1 <= n PROVE plan[i + 1] \in Seq(PlanSet)
      OBVIOUS
  <2>1. PICK j : j = i + 1
        OBVIOUS
  <2>2. j \in 1..n /\ j \in 0..n /\ j # 0 /\ j - 1 = i /\ i <= n
        BY <1>3, <2>1
  <2>3. plan[j - 1] \in Seq(PlanSet)
        BY <1>6, <2>2
  <2>4. CASE Emits(j)
    <3>1. Entry(m.layers[j]) \in PlanSet
          BY <1>3, <2>2, <2>4 DEF PlanSet
    <3>2. plan[j] = Append(plan[j - 1], Entry(m.layers[j]))
          BY <1>4, <2>2, <2>4
    <3>3. plan[j] \in Seq(PlanSet)
          BY <2>3, <3>1, <3>2
    <3> QED BY <2>1, <3>3
  <2>5. CASE ~Emits(j)
    <3>1. plan[j] = plan[j - 1]
          BY <1>4, <2>2, <2>5
    <3> QED BY <2>1, <2>3, <3>1
  <2> QED BY <2>4, <2>5
<1> HIDE DEF Good
<1>7. Nat \subseteq Good
      BY <1>5, <1>6, Induction
<1>8. plan[n] \in Seq(PlanSet)
      BY <1>3, <1>7 DEF Good
<1> QED BY <1>1, <1>2, <1>8

\* What is known of the manifest and the config once they are valid.
Known == /\ export \in Exports /\ mode \in PushModes
         /\ LayersOK(writer, m.layers) /\ FilesOK(cfg.files) /\ LayersValid

\* A valid layer has the size, the title and the encoding of its blob.
LEMMA ValidLayer ==
    ASSUME Known, NEW d \in ToSet(m.layers)
    PROVE  /\ d.size = StoredSize(d.digest) /\ d.size >= 0
           /\ \E k \in DOMAIN export : \E i \in 1..count(export[k]) :
                /\ d.digest = Descriptor(export[k], i).digest
                /\ d.title = export[k].name
                /\ d.type.zstd <=> compress(export[k])
<1>1. PICK S : m.layers \in Seq(S) /\ \A x \in S : IsLayer(x)
      BY DEF Known, LayersOK, AllLayers
<1>2. PICK j \in DOMAIN m.layers : d = m.layers[j]
      BY DEF ToSet
<1>3. IsLayer(d)
      BY <1>1, <1>2
<1>4. d.size >= 0 /\ IsSnapshotLayerMediaType(d.type) /\ d.title # NoTitle
      BY <1>2 DEF Known, LayersValid
<1>5. d.type # Type("future")
      BY <1>4 DEF IsSnapshotLayerMediaType, StripZstd, Type
<1>6. PICK k \in DOMAIN export : \E i \in 1..count(export[k]) :
        /\ d.digest = Descriptor(export[k], i).digest
        /\ d.size \in {StoredSize(d.digest), -1}
        /\ d.title \in {export[k].name, NoTitle}
        /\ d.type = Type("future") \/ (d.type.zstd <=> compress(export[k]))
      BY <1>3 DEF IsLayer
<1>7. d.size = StoredSize(d.digest)
      BY <1>4, <1>6
<1> QED BY <1>4, <1>5, <1>6, <1>7

\* The chunk list of a file.
LEMMA ChunkList ==
    ASSUME export \in Exports, mode \in PushModes, NEW k \in DOMAIN export,
           NEW meta, IsMeta(meta, k), meta.chunks # <<>>
    PROVE  /\ meta.chunks \in Seq({Descriptor(export[k], i).digest : i \in 1..count(export[k])})
           /\ Len(meta.chunks) <= count(export[k]) /\ count(export[k]) >= 2
<1>1. PICK n : n = count(export[k])
      OBVIOUS
<1>2. n \in Nat \ {0}
      BY <1>1, ExportType, CountType
<1>3. PICK D : D = {Descriptor(export[k], i).digest : i \in 1..n}
      OBVIOUS
<1>4. FileMeta(export[k]).chunks
        = IF n < 2 THEN <<>> ELSE [i \in 1..n |-> Descriptor(export[k], i).digest]
      BY <1>1 DEF FileMeta
<1>5. PICK all : all = FileMeta(export[k]).chunks
      OBVIOUS
<1>6. all # <<>> /\ meta.chunks \in {all, Tail(all)}
      BY <1>5 DEF IsMeta
<1>7. n >= 2 /\ all = [i \in 1..n |-> Descriptor(export[k], i).digest]
      BY <1>2, <1>4, <1>5, <1>6
<1>8. all \in Seq(D) /\ Len(all) = n
  <2>1. \A i \in 1..n : Descriptor(export[k], i).digest \in D
        BY <1>3
  <2> QED BY <1>2, <1>7, <2>1
<1>9. Tail(all) \in Seq(D) /\ Len(Tail(all)) = n - 1
      BY <1>6, <1>8
<1>10. meta.chunks \in Seq(D) /\ Len(meta.chunks) <= n
      BY <1>2, <1>6, <1>8, <1>9
<1> QED BY <1>1, <1>3, <1>7, <1>10

\* An entry that reads several chunks is a file of the export that was split, and
\* reads blobs of that file.
LEMMA SplitEntry ==
    ASSUME Known, NEW e \in PlanSet, e.encoded, Len(e.chunks) >= 2
    PROVE  \E k \in DOMAIN export :
             /\ e.meta.size = Len(export[k].data) /\ count(export[k]) >= 2
             /\ Len(e.chunks) \in Nat /\ Len(e.chunks) <= count(export[k])
             /\ DOMAIN e.chunks = 1..Len(e.chunks)
             /\ e.layer.type.zstd <=> compress(export[k])
             /\ \A i \in DOMAIN e.chunks :
                  /\ e.chunks[i] \in ToSet(m.layers)
                  /\ \E j \in 1..count(export[k]) :
                       e.chunks[i].digest = Descriptor(export[k], j).digest
<1>1. PICK j \in DOMAIN m.layers :
        e = Entry(m.layers[j]) /\ (IsEncoded(m.layers[j]) => Resolvable(m.layers[j]))
      BY DEF PlanSet
<1>2. PICK l : l = m.layers[j]
      OBVIOUS
<1>3. PICK meta : meta = Meta(cfg, l.title)
      OBVIOUS
<1>4. /\ e.meta = meta /\ e.layer = l /\ IsEncoded(l) /\ Resolvable(l)
      /\ e.chunks = resolveEncodedFile(l)
      BY <1>1, <1>2, <1>3 DEF Entry
<1>5. PICK k \in DOMAIN export : l.title = export[k].name /\ (l.type.zstd <=> compress(export[k]))
      BY <1>2, ValidLayer DEF ToSet
<1>6. meta.size > 0 /\ ToSet(meta.chunks) \subseteq {d.digest : d \in ToSet(m.layers)}
      BY <1>3, <1>4 DEF Resolvable
<1>7. l.title \in DOMAIN cfg.files /\ meta = cfg.files[l.title]
      BY <1>3, <1>6 DEF Meta, NoMeta
<1>8. IsMeta(meta, k)
  <2>1. PICK q \in DOMAIN export : export[q].name = l.title /\ IsMeta(meta, q)
        BY <1>7 DEF Known, FilesOK
  <2>2. q = k
        BY <1>5, <2>1, ExportType DEF Known
  <2> QED BY <2>1, <2>2
<1>9. meta.size = Len(export[k].data)
      BY <1>6, <1>8 DEF IsMeta
<1>10. meta.chunks # <<>>
  <2> SUFFICES ASSUME meta.chunks = <<>> PROVE FALSE
      OBVIOUS
  <2>1. e.chunks = <<l>>
        BY <1>3, <1>4 DEF resolveEncodedFile
  <2>2. Len(<<l>>) = 1
        OBVIOUS
  <2> QED BY <2>1, <2>2
<1>11. /\ meta.chunks \in Seq({Descriptor(export[k], i).digest : i \in 1..count(export[k])})
       /\ Len(meta.chunks) <= count(export[k]) /\ count(export[k]) >= 2
       BY <1>8, <1>10, ChunkList DEF Known
<1>12. PICK n : n = Len(meta.chunks)
       OBVIOUS
<1>13. n \in Nat /\ DOMAIN meta.chunks = 1..n
       BY <1>11, <1>12
<1>14. e.chunks = [i \in 1..n |-> CHOOSE d \in ToSet(m.layers) : d.digest = meta.chunks[i]]
       BY <1>3, <1>4, <1>10, <1>13 DEF resolveEncodedFile
<1>15. Len(e.chunks) = n /\ DOMAIN e.chunks = 1..n
       BY <1>13, <1>14
<1>16. ASSUME NEW i \in 1..n
       PROVE  /\ e.chunks[i] \in ToSet(m.layers)
              /\ \E q \in 1..count(export[k]) :
                   e.chunks[i].digest = Descriptor(export[k], q).digest
  <2>1. meta.chunks[i] \in ToSet(meta.chunks)
        BY <1>13 DEF ToSet
  <2>2. \E d \in ToSet(m.layers) : d.digest = meta.chunks[i]
        BY <1>6, <2>1
  <2>3. e.chunks[i] \in ToSet(m.layers) /\ e.chunks[i].digest = meta.chunks[i]
        BY <1>14, <2>2
  <2>4. \E q \in 1..count(export[k]) : meta.chunks[i] = Descriptor(export[k], q).digest
        BY <1>11, <1>13
  <2> QED BY <2>3, <2>4
<1> QED BY <1>4, <1>5, <1>9, <1>11, <1>12, <1>13, <1>15, <1>16

-----------------------------------------------------------------------------
(* The buffers.                                                            *)

\* The elements of a sequence, or their images, are finitely many.
LEMMA FiniteImage ==
    ASSUME NEW n \in Nat, NEW g, DOMAIN g = 1..n
    PROVE  IsFiniteSet({g[i] : i \in 1..n})
<1>1. PICK T : T = {g[i] : i \in 1..n}
      OBVIOUS
<1>2. PICK h : h \in Surjection(1..n, T)
  <2>1. [i \in 1..n |-> g[i]] \in Surjection(1..n, T)
        BY <1>1 DEF Surjection
  <2> QED BY <2>1
<1>3. IsFiniteSet(1..n)
  <2>1. 1 \in Int /\ n \in Int
        OBVIOUS
  <2> QED BY <2>1, FS_Interval
<1>4. IsFiniteSet(T)
  <2>1. PICK D : D = 1..n
        OBVIOUS
  <2>2. h \in Surjection(D, T) /\ IsFiniteSet(D)
        BY <1>2, <1>3, <2>1
  <2> QED BY <2>2, FS_Surjection
<1> QED BY <1>1, <1>4

\* A blob of a split file is no longer than a chunk, and stored as it is if the
\* file is not compressed.
LEMMA BlobOfSplit ==
    ASSUME export \in Exports, mode \in PushModes, NEW k \in DOMAIN export,
           count(export[k]) >= 2, NEW i \in 1..count(export[k]), NEW b,
           b = Descriptor(export[k], i).digest
    PROVE  /\ mode.chunk \in Nat \ {0} /\ Len(b.data) <= mode.chunk /\ Len(b.data) \in Nat
           /\ ~compress(export[k]) => StoredSize(b) = Len(b.data)
           /\ StoredSize(b) \in Nat
           /\ count(export[k]) = (Len(export[k].data) + mode.chunk - 1) \div mode.chunk
<1>1. PICK f, c : f = export[k] /\ c = mode.chunk
      OBVIOUS
<1>2. PICK U : f.data \in Seq(U)
      BY <1>1, FormatAssumption
<1>3. Len(f.data) \in Nat
      BY <1>2
<1>4. /\ c \in Nat \ {0} /\ Chunked(f) /\ count(f) \in Nat
      /\ count(f) = (Len(f.data) + c - 1) \div c
  <2>1. count(f) # 1
        BY <1>1
  <2> QED BY <1>1, <1>3, <2>1, CountType
<1>5. i \in Nat \ {0} /\ i <= count(f)
      BY <1>1, <1>4
<1>6. PICK lo, hi : lo = (i - 1) * c + 1 /\ hi = AtMost(i * c, Len(f.data))
      OBVIOUS
<1>7. lo \in Nat \ {0} /\ hi \in Nat /\ hi <= Len(f.data) /\ hi - lo + 1 <= c
  <2>1. i * c \in Nat /\ (i - 1) * c \in Nat /\ i * c = (i - 1) * c + c
        BY <1>4, <1>5
  <2> QED BY <1>3, <1>4, <1>6, <2>1 DEF AtMost
<1>8. PICK d : d = SubSeq(f.data, lo, hi)
      OBVIOUS
<1>13. PICK en : en = (IF compress(f) THEN "zstd" ELSE "raw") /\ b = [enc |-> en, data |-> d]
      BY <1>1, <1>4, <1>6, <1>8 DEF Descriptor, Blob, Part
<1>9. Len(SubSeq(f.data, lo, hi)) \in Nat /\ Len(SubSeq(f.data, lo, hi)) <= c
  <2>1. CASE lo <= hi
    <3>1. Len(SubSeq(f.data, lo, hi)) = hi - lo + 1
          BY <1>2, <1>7, <2>1
    <3> QED BY <1>7, <2>1, <3>1
  <2>2. CASE ~(lo <= hi)
    <3>1. Len(SubSeq(f.data, lo, hi)) = 0
          BY <1>2, <1>7, <2>2
    <3> QED BY <1>4, <3>1
  <2> QED BY <2>1, <2>2
<1>10. b.data = SubSeq(f.data, lo, hi)
  <2>1. b.data = d
        BY <1>13
  <2> QED BY <1>8, <2>1
<1>11. ~compress(f) => StoredSize(b) = Len(b.data)
  <2>1. b.enc = en
        BY <1>13
  <2>2. ~compress(f) => en = "raw"
        BY <1>13
  <2> QED BY <2>1, <2>2 DEF StoredSize
<1>12. StoredSize(b) \in Nat
  <2>2. PICK n : n = Len(d)
        OBVIOUS
  <2>3. d \in Seq(U)
    <3>1. CASE lo <= hi
          BY <1>2, <1>7, <1>8, <3>1
    <3>2. CASE ~(lo <= hi)
          BY <1>2, <1>7, <1>8, <3>2
    <3> QED BY <3>1, <3>2
  <2>4. n \in Nat /\ DOMAIN d = 1..n
        BY <2>2, <2>3
  <2>5. IsFiniteSet(ToSet(d))
        BY <2>4, FiniteImage DEF ToSet
  <2>6. Cardinality(ToSet(d)) \in Nat
        BY <2>5, FS_CardinalityType
  <2>7. b.data = d
        BY <1>13
  <2> QED BY <2>2, <2>4, <2>6, <2>7 DEF StoredSize
<1> QED BY <1>1, <1>4, <1>9, <1>10, <1>11, <1>12

\* The buffers one file asks for hold each of its chunks.
LEMMA CapsCover ==
    ASSUME Known, NEW e \in PlanSet, e.encoded, Len(e.chunks) >= 2
    PROVE  /\ inputCap(e) \in Nat /\ outputCap(e) \in Nat
           /\ \A i \in DOMAIN e.chunks :
                /\ Len(e.chunks[i].digest.data) \in Nat
                /\ Len(e.chunks[i].digest.data) <= outputCap(e)
                /\ e.layer.type.zstd => e.chunks[i].size \in Nat /\ e.chunks[i].size <= inputCap(e)
<1>1. PICK k \in DOMAIN export :
        /\ e.meta.size = Len(export[k].data) /\ count(export[k]) >= 2
        /\ Len(e.chunks) \in Nat /\ Len(e.chunks) <= count(export[k])
        /\ DOMAIN e.chunks = 1..Len(e.chunks)
        /\ e.layer.type.zstd <=> compress(export[k])
        /\ \A i \in DOMAIN e.chunks :
             /\ e.chunks[i] \in ToSet(m.layers)
             /\ \E j \in 1..count(export[k]) :
                  e.chunks[i].digest = Descriptor(export[k], j).digest
      BY SplitEntry
<1>2. PICK n, c : n = Len(e.chunks) /\ c = mode.chunk
      OBVIOUS
<1>3. ASSUME NEW i \in 1..n
      PROVE  /\ c \in Nat \ {0} /\ Len(e.chunks[i].digest.data) \in Nat
             /\ Len(e.chunks[i].digest.data) <= c
             /\ ~compress(export[k]) => e.chunks[i].size = Len(e.chunks[i].digest.data)
             /\ e.chunks[i].size \in Nat
             /\ count(export[k]) = (Len(export[k].data) + c - 1) \div c
  <2>1. PICK j \in 1..count(export[k]) : e.chunks[i].digest = Descriptor(export[k], j).digest
        BY <1>1, <1>2
  <2>2. PICK b : b = e.chunks[i].digest
        OBVIOUS
  <2>3. /\ c \in Nat \ {0} /\ Len(b.data) <= c /\ Len(b.data) \in Nat
        /\ ~compress(export[k]) => StoredSize(b) = Len(b.data)
        /\ StoredSize(b) \in Nat
        /\ count(export[k]) = (Len(export[k].data) + c - 1) \div c
        BY <1>1, <1>2, <2>1, <2>2, BlobOfSplit DEF Known
  <2>4. e.chunks[i].size = StoredSize(b)
        BY <1>1, <1>2, <2>2, ValidLayer
  <2> QED BY <2>2, <2>3, <2>4
<1>4. n \in Nat /\ n >= 2 /\ DOMAIN e.chunks = 1..n
      BY <1>1, <1>2
<1>5. Max(Stored(e)) \in Nat /\ \A i \in 1..n : e.chunks[i].size <= Max(Stored(e))
  <2>1. PICK g : g = [i \in 1..n |-> e.chunks[i].size]
        OBVIOUS
  <2>2. Stored(e) = {g[i] : i \in 1..n}
        BY <1>4, <2>1 DEF Stored
  <2>3. IsFiniteSet(Stored(e))
        BY <1>4, <2>1, <2>2, FiniteImage
  <2>4. Stored(e) \in SUBSET Nat /\ \A i \in 1..n : e.chunks[i].size \in Stored(e)
        BY <1>3, <1>4 DEF Stored
  <2>5. 1 \in 1..n
        BY <1>4
  <2>6. Max(Stored(e)) \in Stored(e) /\ \A y \in Stored(e) : Max(Stored(e)) >= y
        BY <2>3, <2>4, <2>5, Greatest
  <2>7. Max(Stored(e)) \in Nat
        BY <2>4, <2>6
  <2>8. ASSUME NEW i \in 1..n PROVE e.chunks[i].size <= Max(Stored(e))
        BY <1>3, <2>4, <2>6, <2>7
  <2> QED BY <2>7, <2>8
<1>6. CASE e.layer.type.zstd
  <2>1. c \in Nat \ {0} /\ n <= (Len(export[k].data) + c - 1) \div c
    <3>1. 1 \in 1..n
          BY <1>4
    <3> QED BY <1>1, <1>2, <1>3, <3>1
  <2>2. PICK l : l = Len(export[k].data)
        OBVIOUS
  <2>3. l \in Nat
        BY <2>2, ExportType DEF Known
  <2>4. rawChunkStride(l, n) \in Nat /\ rawChunkStride(l, n) >= c
        BY <1>4, <2>1, <2>2, <2>3, StrideCoversChunk
  <2>5. outputCap(e) = rawChunkStride(l, n) /\ inputCap(e) = Max(Stored(e))
        BY <1>1, <1>2, <1>6, <2>2 DEF outputCap, inputCap, IsZstdMediaType
  <2>6. ASSUME NEW i \in 1..n PROVE Len(e.chunks[i].digest.data) <= outputCap(e)
    <3>1. PICK x : x = Len(e.chunks[i].digest.data)
          OBVIOUS
    <3>2. x \in Nat /\ x <= c
          BY <1>3, <3>1
    <3>3. x <= outputCap(e)
          BY <2>1, <2>4, <2>5, <3>2
    <3> QED BY <3>1, <3>3
  <2> QED BY <1>3, <1>4, <1>5, <2>4, <2>5, <2>6
<1>7. CASE ~e.layer.type.zstd
  <2>1. outputCap(e) = Max(Stored(e)) /\ inputCap(e) = 0
        BY <1>7 DEF outputCap, inputCap, IsZstdMediaType
  <2>2. ASSUME NEW i \in 1..n
        PROVE  Len(e.chunks[i].digest.data) \in Nat /\ Len(e.chunks[i].digest.data) <= outputCap(e)
    <3>1. PICK x : x = Len(e.chunks[i].digest.data)
          OBVIOUS
    <3>2. ~compress(export[k])
          BY <1>1, <1>7
    <3>3. x \in Nat /\ x = e.chunks[i].size
          BY <1>3, <3>1, <3>2
    <3> QED BY <1>5, <2>1, <3>1, <3>3
  <2> QED BY <1>4, <1>5, <1>7, <2>1, <2>2
<1> QED BY <1>6, <1>7

-----------------------------------------------------------------------------
(* Files laid out one after another.                                       *)

\* Where each sequence begins can always be counted.
LEMMA OffsetsExist ==
    ASSUME NEW T, NEW s \in Seq(Seq(T))
    PROVE  \E off : Offsets(s, off)
<1>1. PICK n : n = Len(s)
      OBVIOUS
<1>2. n \in Nat /\ \A i \in 1..n : Len(s[i]) \in Nat
      BY <1>1
<1>3. PICK step : step = [i \in 1..n |-> [x \in Nat |-> x + Len(s[i])]]
      OBVIOUS
<1>4. step \in [1..n -> [Nat -> Nat]]
      BY <1>2, <1>3
<1>5. PICK g : Rounds(n, Nat, 0, step, g)
      BY <1>2, <1>4, RoundsExist
<1>6. g \in [0..n -> Nat] /\ g[0] = 0 /\ \A i \in 1..n : g[i] = step[i][g[i - 1]]
      BY <1>5 DEF Rounds
<1>7. ASSUME NEW i \in 1..n PROVE g[i] = g[i - 1] + Len(s[i])
  <2>1. i - 1 \in 0..n
        BY <1>2
  <2>2. g[i - 1] \in Nat
        BY <1>6, <2>1
  <2> QED BY <1>3, <1>6, <2>2
<1> QED BY <1>1, <1>6, <1>7 DEF Offsets

\* Every place among the first n sequences is in one of them.
Covers(s, off) ==
    \A n \in 0..Len(s) : \A p \in 1..off[n] :
      \E k \in 1..n : \E j \in 1..Len(s[k]) : p = off[k - 1] + j

\* Sequences one after another leave no place out.
LEMMA Covered ==
    ASSUME NEW T, NEW s \in Seq(Seq(T)), NEW off, Offsets(s, off)
    PROVE  Covers(s, off)
<1>1. PICK z : z = Len(s)
      OBVIOUS
<1>2. z \in Nat /\ \A i \in 1..z : Len(s[i]) \in Nat
      BY <1>1
<1>3. /\ off \in [0..z -> Nat] /\ off[0] = 0
      /\ \A i \in 1..z : off[i] = off[i - 1] + Len(s[i])
      BY <1>1 DEF Offsets
<1> DEFINE Good == {k \in Nat : k <= z => \A q \in 1..off[k] :
                      \E i \in 1..k : \E j \in 1..Len(s[i]) : q = off[i - 1] + j}
<1>4. 0 \in Good
      BY <1>3
<1>5. ASSUME NEW k \in Nat, k \in Good PROVE k + 1 \in Good
  <2> SUFFICES ASSUME k + 1 <= z, NEW q \in 1..off[k + 1]
               PROVE  \E i \in 1..(k + 1) : \E j \in 1..Len(s[i]) : q = off[i - 1] + j
      OBVIOUS
  <2>1. k + 1 \in 1..z /\ k \in 0..z /\ (k + 1) - 1 = k /\ k <= z
        BY <1>2
  <2>2. PICK l : l = Len(s[k + 1])
        OBVIOUS
  <2>3. l \in Nat /\ off[k] \in Nat /\ off[k + 1] = off[k] + l
        BY <1>2, <1>3, <2>1, <2>2
  <2>4. CASE q <= off[k]
    <3>1. q \in 1..off[k]
          BY <2>3, <2>4
    <3>2. PICK i \in 1..k : \E j \in 1..Len(s[i]) : q = off[i - 1] + j
          BY <1>5, <2>1, <3>1
    <3>3. i \in 1..(k + 1)
          OBVIOUS
    <3> QED BY <3>2, <3>3
  <2>5. CASE ~(q <= off[k])
    <3>1. PICK j : j = q - off[k]
          OBVIOUS
    <3>2. j \in 1..l /\ q = off[k] + j
          BY <2>3, <2>5, <3>1
    <3>3. k + 1 \in 1..(k + 1) /\ j \in 1..Len(s[k + 1]) /\ q = off[(k + 1) - 1] + j
          BY <2>1, <2>2, <3>2
    <3> QED BY <3>3
  <2> QED BY <2>4, <2>5
<1> HIDE DEF Good
<1>6. Nat \subseteq Good
      BY <1>4, <1>5, Induction
<1>7. \A n \in 0..z : n \in Nat /\ n \in Good /\ n <= z
      BY <1>2, <1>6
<1> QED BY <1>1, <1>7 DEF Good, Covers

\* P is data cut into n chunks of c bytes, the last one perhaps shorter.
IsCut(P, data, c, n) ==
    /\ n = (Len(data) + c - 1) \div c
    /\ P = [i \in 1..n |-> SubSeq(data, (i - 1) * c + 1, AtMost(i * c, Len(data)))]

\* Cutting a file into chunks and joining them gives it back.
LEMMA CutAndJoin ==
    ASSUME NEW U, NEW data \in Seq(U), NEW c \in Nat \ {0}, NEW n \in Nat \ {0},
           NEW P, IsCut(P, data, c, n)
    PROVE  FlattenSeq(P) = data
<1>1. PICK L : L = Len(data)
      OBVIOUS
<1>2. L \in Nat /\ DOMAIN data = 1..L
      BY <1>1
<1>3. PICK cn : cn = c * n /\ cn \in Int /\ cn <= L + c - 1 /\ L + c - 1 < cn + c
  <2>1. PICK a : a = L + c - 1
        OBVIOUS
  <2>2. a \in Int /\ n = a \div c
        BY <1>1, <1>2, <2>1 DEF IsCut
  <2>3. c * (a \div c) <= a /\ a < c * (a \div c) + c /\ a \div c \in Int
        BY <2>2, Division
  <2>4. c * n <= a /\ a < c * n + c /\ c * n \in Int
        BY <2>2, <2>3
  <2> QED BY <2>1, <2>4
<1>4. PICK at : at = [i \in 0..n |-> i * c]
      OBVIOUS
<1>5. \A i \in 0..n : at[i] = i * c /\ at[i] = c * i
      BY <1>4
<1>20. /\ \A i \in 0..n : at[i] \in Nat
       /\ \A i \in 1..n : at[i] = at[i - 1] + c /\ at[i - 1] \in Nat /\ at[i] \in Nat
       /\ at[0] = 0
  <2>1. \A i \in 0..n : i * c \in Nat
        OBVIOUS
  <2>2. \A i \in 1..n : i \in 0..n /\ i - 1 \in 0..n /\ i * c = (i - 1) * c + c
        OBVIOUS
  <2> QED BY <1>4, <2>1, <2>2
<1>6. \A i \in 1..n : at[i - 1] < L
  <2> SUFFICES ASSUME NEW i \in 1..n PROVE at[i - 1] < L
      OBVIOUS
  <2>1. i \in Int /\ i <= n /\ i \in 0..n /\ n \in Int
        OBVIOUS
  <2>2. c * i <= c * n
        BY <2>1, Monotone
  <2>3. at[i] <= cn
        BY <1>3, <1>5, <2>1, <2>2
  <2>4. at[i] = at[i - 1] + c /\ at[i - 1] \in Nat
        BY <1>20
  <2> QED BY <1>2, <1>3, <2>3, <2>4
<1>7. at[n] >= L /\ at[n] \in Nat
  <2>1. n \in 0..n
        OBVIOUS
  <2>2. at[n] = cn /\ at[n] \in Nat
        BY <1>3, <1>5, <1>20, <2>1
  <2> QED BY <1>2, <1>3, <2>2
<1>8. PICK off : off = [i \in 0..n |-> AtMost(at[i], L)]
      OBVIOUS
<1>9. /\ off \in [0..n -> Nat] /\ off[0] = 0 /\ off[n] = L
      /\ \A i \in 1..n : off[i - 1] = at[i - 1] /\ off[i] <= L
      /\ \A i \in 1..n : off[i] = AtMost(at[i], L) /\ off[i] > at[i - 1]
  <2>1. \A i \in 1..n : i \in 0..n /\ i - 1 \in 0..n
        OBVIOUS
  <2>2. off \in [0..n -> Nat] /\ off[0] = 0 /\ off[n] = L
        BY <1>2, <1>7, <1>8, <1>20 DEF AtMost
  <2>3. ASSUME NEW i \in 1..n
        PROVE  /\ off[i - 1] = at[i - 1] /\ off[i] <= L
               /\ off[i] = AtMost(at[i], L) /\ off[i] > at[i - 1]
    <3>1. off[i] = AtMost(at[i], L) /\ off[i - 1] = AtMost(at[i - 1], L)
          BY <1>8, <2>1
    <3>2. at[i] = at[i - 1] + c /\ at[i - 1] \in Nat /\ at[i - 1] < L
          BY <1>6, <1>20
    <3> QED BY <1>2, <3>1, <3>2 DEF AtMost
  <2> QED BY <2>2, <2>3
<1>10. ASSUME NEW i \in 1..n
       PROVE  /\ P[i] \in Seq(U) /\ Len(P[i]) = off[i] - off[i - 1]
              /\ \A j \in 1..Len(P[i]) : P[i][j] = data[off[i - 1] + j]
  <2>1. i \in 0..n /\ i - 1 \in 0..n
        OBVIOUS
  <2>2. PICK lo, hi : lo = at[i - 1] + 1 /\ hi = off[i]
        OBVIOUS
  <2>3. lo = (i - 1) * c + 1 /\ hi = AtMost(i * c, Len(data))
        BY <1>1, <1>5, <1>9, <2>1, <2>2
  <2>4. P[i] = SubSeq(data, lo, hi)
        BY <2>3 DEF IsCut
  <2>5. lo \in 1..L /\ hi \in 1..L /\ lo <= hi /\ hi - lo + 1 = off[i] - off[i - 1]
    <3>1. PICK x, y : x = off[i - 1] /\ y = off[i]
          OBVIOUS
    <3>2. x \in Nat /\ y \in Nat /\ y > x /\ y <= L /\ lo = x + 1 /\ hi = y
          BY <1>9, <2>1, <2>2, <3>1
    <3>3. lo \in 1..L /\ hi \in 1..L /\ lo <= hi /\ hi - lo + 1 = y - x
          BY <1>2, <3>2
    <3> QED BY <3>1, <3>3
  <2>6. PICK q : q = SubSeq(data, lo, hi)
        OBVIOUS
  <2>7. /\ q \in Seq(U) /\ Len(q) = hi - lo + 1
        /\ \A j \in 1..(hi - lo + 1) : q[j] = data[lo + j - 1]
        BY <1>1, <2>5, <2>6
  <2>8. ASSUME NEW j \in 1..Len(q) PROVE q[j] = data[off[i - 1] + j]
    <3>1. PICK x : x = off[i - 1]
          OBVIOUS
    <3>2. x \in Nat /\ lo = x + 1
          BY <1>9, <2>1, <2>2, <3>1
    <3>3. j \in Int /\ lo + j - 1 = x + j
      <4>1. Len(q) \in Int
            BY <2>5, <2>7
      <4>2. j \in Int
            BY <4>1
      <4> QED BY <3>2, <4>2
    <3>4. j \in 1..(hi - lo + 1)
          BY <2>7
    <3>5. q[j] = data[lo + j - 1]
          BY <2>7, <3>4
    <3> QED BY <3>1, <3>3, <3>5
  <2> QED BY <2>4, <2>5, <2>6, <2>7, <2>8
<1>11. P \in Seq(Seq(U)) /\ Len(P) = n
  <2>1. P = [i \in 1..n |-> P[i]] /\ \A i \in 1..n : P[i] \in Seq(U)
        BY <1>10 DEF IsCut
  <2>2. P \in [1..n -> Seq(U)]
        BY <2>1
  <2>3. PICK V : V = Seq(U)
        OBVIOUS
  <2>4. P \in Seq(V) /\ Len(P) = n
        BY <2>2, <2>3
  <2> QED BY <2>3, <2>4
<1>12. Offsets(P, off)
  <2>1. ASSUME NEW i \in 1..n PROVE off[i] = off[i - 1] + Len(P[i])
    <3>1. i \in 0..n /\ i - 1 \in 0..n
          OBVIOUS
    <3>2. off[i] \in Nat /\ off[i - 1] \in Nat
          BY <1>9, <3>1
    <3>3. Len(P[i]) = off[i] - off[i - 1]
          BY <1>10
    <3> QED BY <3>2, <3>3
  <2> QED BY <1>9, <1>11, <2>1 DEF Offsets
<1>13. PICK r : r = FlattenSeq(P)
      OBVIOUS
<1>14. r \in Seq(U) /\ Laid(P, off, n, r)
      BY <1>11, <1>12, <1>13, FlattenType, FlattenLays
<1>15. Len(r) = L
      BY <1>9, <1>14 DEF Laid
<1>16. ASSUME NEW p \in 1..L PROVE r[p] = data[p]
  <2>1. p \in 1..off[n] /\ n \in 0..Len(P)
        BY <1>9, <1>11
  <2>2. PICK k \in 1..n : \E j \in 1..Len(P[k]) : p = off[k - 1] + j
    <3>1. Covers(P, off)
          BY <1>11, <1>12, Covered
    <3> QED BY <2>1, <3>1 DEF Covers
  <2>3. PICK j \in 1..Len(P[k]) : p = off[k - 1] + j
        BY <2>2
  <2>4. j \in Nat
        BY <1>10
  <2>5. r[off[k - 1] + j] = P[k][j]
        BY <1>14, <2>3, <2>4 DEF Laid
  <2> QED BY <1>10, <2>3, <2>5
<1>17. DOMAIN r = 1..L
      BY <1>14, <1>15
<1>18. r = [p \in 1..L |-> r[p]] /\ data = [p \in 1..L |-> data[p]]
      BY <1>2, <1>14, <1>17
<1>19. [p \in 1..L |-> r[p]] = [p \in 1..L |-> data[p]]
      BY <1>16
<1> QED BY <1>13, <1>18, <1>19

-----------------------------------------------------------------------------
(* What this pusher published.                                             *)

Own == /\ export \in Exports /\ mode \in PushModes
       /\ m = buildSnapshotManifest /\ cfg = SnapshotConfig

\* A file is found under its name.
LEMMA OwnMeta ==
    ASSUME Own, NEW k \in DOMAIN export
    PROVE  Meta(cfg, export[k].name) = FileMeta(export[k])
<1>1. DOMAIN SnapshotConfig.files = {export[j].name : j \in DOMAIN export}
      BY DEF SnapshotConfig
<1>2. export[k].name \in DOMAIN SnapshotConfig.files
      BY <1>1
<1>3. PICK j \in DOMAIN export : /\ export[j].name = export[k].name
                                 /\ SnapshotConfig.files[export[k].name] = FileMeta(export[j])
      BY <1>2, FilesAreMeta
<1>4. j = k
      BY <1>3, ExportType DEF Own
<1> QED BY <1>2, <1>3, <1>4 DEF Own, Meta

\* What a descriptor says.
LEMMA DescriptorSays ==
    ASSUME NEW f, NEW i
    PROVE  LET d == Descriptor(f, i)
           IN  /\ d.title = f.name /\ d.size = StoredSize(d.digest)
               /\ d.digest = [enc |-> IF compress(f) THEN "zstd" ELSE "raw", data |-> Part(f, i)]
               /\ d.type.zstd <=> compress(f)
               /\ IsSnapshotLayerMediaType(d.type)
<1>1. PICK d : d = Descriptor(f, i)
      OBVIOUS
<1>2. PICK t, b : /\ d = [type |-> t, digest |-> b, size |-> StoredSize(b), title |-> f.name]
                  /\ b = [enc |-> IF compress(f) THEN "zstd" ELSE "raw", data |-> Part(f, i)]
                  /\ t = IF compress(f) THEN ZstdMediaType(MediaTypeForCocoonFile(f.name))
                         ELSE MediaTypeForCocoonFile(f.name)
      BY <1>1 DEF Descriptor, Blob
<1>3. PICK x : x = MediaTypeForCocoonFile(f.name)
      OBVIOUS
<1>4. PICK base : /\ x = [base |-> base, zstd |-> FALSE]
                  /\ base \in {"vm.config", "vm.state", "vm.memory", "vm.cidata",
                               "disk.qcow2", "disk.raw", "generic"}
      BY <1>3, EngineAssumption DEF MediaTypeForCocoonFile, Type
<1>5. /\ x.zstd = FALSE /\ x.base = base
      /\ ZstdMediaType(x).zstd = TRUE /\ ZstdMediaType(x).base = base
      /\ StripZstd(x).base = base /\ StripZstd(ZstdMediaType(x)).base = base
      BY <1>4 DEF ZstdMediaType, StripZstd
<1>6. (t.zstd <=> compress(f)) /\ StripZstd(t).base = base
      BY <1>2, <1>3, <1>5
<1>7. IsSnapshotLayerMediaType(t)
      BY <1>4, <1>6 DEF IsSnapshotLayerMediaType
<1>8. d.title = f.name /\ d.size = StoredSize(b) /\ d.digest = b /\ d.type = t
      BY <1>2
<1>9. /\ d.title = f.name /\ d.size = StoredSize(d.digest)
      /\ d.digest = [enc |-> IF compress(f) THEN "zstd" ELSE "raw", data |-> Part(f, i)]
      /\ d.type.zstd <=> compress(f)
      /\ IsSnapshotLayerMediaType(d.type)
      BY <1>2, <1>6, <1>7, <1>8
<1> QED BY <1>1, <1>9

\* What the config says of a file.
LEMMA FileMetaSays ==
    ASSUME NEW f, count(f) \in Nat \ {0}
    PROVE  LET y == FileMeta(f)
           IN  /\ y.mode = f.mode /\ y.sparse = f.sparse /\ y.size = Len(f.data)
               /\ count(f) < 2 => y.chunks = <<>>
               /\ count(f) >= 2 =>
                    /\ y.chunks = [i \in 1..count(f) |-> Descriptor(f, i).digest]
                    /\ y.chunks # <<>> /\ DOMAIN y.chunks = 1..count(f)
<1>1. PICK n : n = count(f)
      OBVIOUS
<1>2. PICK D : D = [i \in 1..n |-> Descriptor(f, i).digest]
      OBVIOUS
<1>3. PICK y : y = FileMeta(f)
      OBVIOUS
<1>4. y = [mode |-> f.mode, sparse |-> f.sparse, size |-> Len(f.data),
           chunks |-> IF n < 2 THEN <<>> ELSE D]
      BY <1>1, <1>2, <1>3 DEF FileMeta
<1>5. /\ y.mode = f.mode /\ y.sparse = f.sparse /\ y.size = Len(f.data)
      /\ y.chunks = IF n < 2 THEN <<>> ELSE D
      BY <1>4
<1>6. n >= 2 => D # <<>> /\ DOMAIN D = 1..n
  <2> SUFFICES ASSUME n >= 2 PROVE D # <<>> /\ DOMAIN D = 1..n
      OBVIOUS
  <2>1. 1 \in DOMAIN D /\ DOMAIN D = 1..n
        BY <1>1, <1>2
  <2>2. DOMAIN << >> = {}
        OBVIOUS
  <2> QED BY <2>1, <2>2
<1>7. n \in Nat /\ (n >= 2 => ~(n < 2))
      BY <1>1
<1>8. /\ n < 2 => y.chunks = <<>>
      /\ n >= 2 => y.chunks = D
      BY <1>5, <1>7
<1> QED BY <1>1, <1>2, <1>3, <1>5, <1>6, <1>8

\* The layers of file k are the ones after the first off[k - 1], in order.
PlacedBy(off) ==
    /\ off \in [0..Len(export) -> Nat] /\ off[0] = 0
    /\ Len(m.layers) = off[Len(export)] /\ DOMAIN m.layers = 1..off[Len(export)]
    /\ \A k \in 1..Len(export) : off[k] = off[k - 1] + count(export[k])
    /\ \A k \in 1..Len(export) : \A i \in 1..count(export[k]) :
         /\ off[k - 1] + i \in DOMAIN m.layers
         /\ m.layers[off[k - 1] + i] = Descriptor(export[k], i)
    /\ \A k \in 0..Len(export) : \A p \in 1..off[k] :
         \E j \in 1..k : \E i \in 1..count(export[j]) : p = off[j - 1] + i

\* The manifest lays the files out one after another.
LEMMA Placed ==
    ASSUME Own
    PROVE  \E off : PlacedBy(off)
<1>1. PICK n : n = Len(export)
      OBVIOUS
<1>2. n \in Nat /\ DOMAIN export = 1..n
      BY <1>1, ExportType DEF Own
<1>3. PICK s : s = Layout
      OBVIOUS
<1>4. s \in Seq(Seq(Originals)) /\ Len(s) = n
      BY <1>1, <1>3, LayoutType DEF Own
<1>5. ASSUME NEW k \in 1..n
      PROVE  /\ Len(s[k]) = count(export[k]) /\ count(export[k]) \in Nat
             /\ \A i \in 1..count(export[k]) : s[k][i] = Descriptor(export[k], i)
  <2>1. Len(s[k]) = count(export[k])
        BY <1>2, <1>3, LayoutType DEF Own
  <2>2. count(export[k]) \in Nat
        BY <1>2, ExportType, CountType DEF Own
  <2>3. s[k] = Descriptors(export[k])
        BY <1>2, <1>3 DEF Layout
  <2> QED BY <2>1, <2>2, <2>3 DEF Descriptors
<1>6. PICK off : Offsets(s, off)
      BY <1>4, OffsetsExist
<1>7. m.layers = FlattenSeq(s)
      BY <1>3 DEF Own, buildSnapshotManifest, Layout
<1>8. m.layers \in Seq(Originals) /\ Laid(s, off, n, m.layers)
      BY <1>4, <1>6, <1>7, FlattenType, FlattenLays
<1>9. Covers(s, off)
      BY <1>4, <1>6, Covered
<1>10. off \in [0..n -> Nat] /\ off[0] = 0 /\ \A k \in 1..n : off[k] = off[k - 1] + Len(s[k])
      BY <1>4, <1>6 DEF Offsets
<1>11. \A k \in 1..n : off[k] = off[k - 1] + count(export[k])
      BY <1>5, <1>10
<1>12. Len(m.layers) = off[n] /\ DOMAIN m.layers = 1..off[n]
      BY <1>8 DEF Laid
<1>13. ASSUME NEW k \in 1..n, NEW i \in 1..count(export[k])
       PROVE  /\ off[k - 1] + i \in DOMAIN m.layers
              /\ m.layers[off[k - 1] + i] = Descriptor(export[k], i)
  <2>1. i \in Nat /\ i \in 1..Len(s[k])
        BY <1>5
  <2>2. off[k - 1] + i \in 1..off[n] /\ m.layers[off[k - 1] + i] = s[k][i]
        BY <1>8, <2>1 DEF Laid
  <2> QED BY <1>5, <1>12, <2>2
<1>14. ASSUME NEW k \in 0..n, NEW p \in 1..off[k]
       PROVE  \E j \in 1..k : \E i \in 1..count(export[j]) : p = off[j - 1] + i
  <2>1. PICK j \in 1..k : \E i \in 1..Len(s[j]) : p = off[j - 1] + i
        BY <1>4, <1>9 DEF Covers
  <2>2. j \in 1..n
        BY <1>2
  <2>3. Len(s[j]) = count(export[j])
        BY <1>5, <2>2
  <2> QED BY <2>1, <2>3
<1> QED BY <1>1, <1>10, <1>11, <1>12, <1>13, <1>14, ZenonT(30) DEF PlacedBy

\* Every file has a layer, and has several exactly if it was split.
LEMMA OwnSpread ==
    ASSUME Own, NEW k \in DOMAIN export
    PROVE  /\ \E p \in DOMAIN m.layers : m.layers[p].title = export[k].name
           /\ count(export[k]) >= 2 =>
                \E p, q \in DOMAIN m.layers : /\ p # q /\ m.layers[p].title = export[k].name
                                              /\ m.layers[q].title = export[k].name
           /\ \A p, q \in DOMAIN m.layers :
                p # q /\ m.layers[p].title = export[k].name /\ m.layers[q].title = export[k].name
                  => count(export[k]) >= 2
<1>1. PICK n : n = Len(export)
      OBVIOUS
<1>2. n \in Nat /\ DOMAIN export = 1..n
      BY <1>1, ExportType DEF Own
<1>3. PICK off : PlacedBy(off)
      BY Placed
<1>4. PICK c, b : c = count(export[k]) /\ b = off[k - 1]
      OBVIOUS
<1>5. c \in Nat \ {0} /\ b \in Nat
  <2>1. c \in Nat \ {0}
        BY <1>4, ExportType, CountType DEF Own
  <2>2. off \in [0..n -> Nat] /\ k - 1 \in 0..n
        BY <1>1, <1>2, <1>3 DEF PlacedBy
  <2> QED BY <1>4, <2>1, <2>2
<1>6. ASSUME NEW i \in 1..c PROVE b + i \in DOMAIN m.layers /\ m.layers[b + i].title = export[k].name
  <2>1. b + i \in DOMAIN m.layers /\ m.layers[b + i] = Descriptor(export[k], i)
        BY <1>1, <1>2, <1>3, <1>4 DEF PlacedBy
  <2>2. Descriptor(export[k], i).title = export[k].name
        BY DescriptorSays
  <2> QED BY <2>1, <2>2
<1>7. ASSUME NEW p \in DOMAIN m.layers, m.layers[p].title = export[k].name
      PROVE  \E i \in 1..c : p = b + i
  <2>1. n \in 0..n /\ p \in 1..off[n]
        BY <1>1, <1>2, <1>3 DEF PlacedBy
  <2>2. PICK j \in 1..n : \E i \in 1..count(export[j]) : p = off[j - 1] + i
        BY <1>1, <1>3, <2>1 DEF PlacedBy
  <2>3. PICK i \in 1..count(export[j]) : p = off[j - 1] + i
        BY <2>2
  <2>4. m.layers[p] = Descriptor(export[j], i)
        BY <1>1, <1>3, <2>3 DEF PlacedBy
  <2>5. Descriptor(export[j], i).title = export[j].name
        BY DescriptorSays
  <2>6. j = k
        BY <1>2, <1>7, <2>4, <2>5, ExportType DEF Own
  <2> QED BY <1>4, <2>3, <2>6
<1>8. 1 \in 1..c /\ (c >= 2 => 2 \in 1..c) /\ b + 1 # b + 2
      BY <1>5
<1>9. ASSUME NEW p \in DOMAIN m.layers, NEW q \in DOMAIN m.layers, p # q,
             m.layers[p].title = export[k].name, m.layers[q].title = export[k].name
      PROVE  c >= 2
  <2>1. PICK i \in 1..c : p = b + i
        BY <1>7, <1>9
  <2>2. PICK j \in 1..c : q = b + j
        BY <1>7, <1>9
  <2> QED BY <1>5, <1>9, <2>1, <2>2
<1>10. \E p \in DOMAIN m.layers : m.layers[p].title = export[k].name
      BY <1>6, <1>8
<1>11. c >= 2 => \E p, q \in DOMAIN m.layers : /\ p # q /\ m.layers[p].title = export[k].name
                                               /\ m.layers[q].title = export[k].name
      BY <1>6, <1>8
<1> QED BY <1>4, <1>9, <1>10, <1>11

\* So it is of layers that are taken from the manifest, no layer twice.
LEMMA SpreadBy ==
    ASSUME Own, NEW M, NEW h \in [DOMAIN M -> DOMAIN m.layers],
           \A p, q \in DOMAIN M : p # q => h[p] # h[q],
           \A p \in DOMAIN M : M[p].title = m.layers[h[p]].title,
           \A k \in DOMAIN export : \E p \in DOMAIN M : M[p].title = export[k].name
    PROVE  OnePerFile(M)
<1>1. ASSUME NEW k \in DOMAIN export, NEW p \in DOMAIN M, NEW q \in DOMAIN M, p # q,
             M[p].title = export[k].name, M[q].title = export[k].name
      PROVE  count(export[k]) >= 2
  <2>1. /\ h[p] \in DOMAIN m.layers /\ h[q] \in DOMAIN m.layers /\ h[p] # h[q]
        /\ m.layers[h[p]].title = export[k].name /\ m.layers[h[q]].title = export[k].name
        BY <1>1
  <2> QED BY <2>1, OwnSpread
<1> QED BY <1>1 DEF OnePerFile

\* What another writer makes of the layers leaves every file one, or takes away a
\* title.
LEMMA SpreadEdits ==
    ASSUME Own, NEW L, L = m.layers
    PROVE  /\ OnePerFile(L) /\ OnePerFile(Reverse(L))
           /\ \A k \in DOMAIN L : cfg.files[L[k].title].chunks # <<>> =>
                OnePerFile(RemoveAt(L, k)) /\ OnePerFile(Append(L, L[k]))
           /\ \A k \in DOMAIN L : \A x : x.title \in {L[k].title, NoTitle}
                                           => OnePerFile([L EXCEPT ![k] = x])
<1>1. PICK n : n = Len(L)
      OBVIOUS
<1>2. L \in Seq(Originals)
      BY OriginalsAreLayers DEF Own
<1>3. n \in Nat /\ DOMAIN L = 1..n
      BY <1>1, <1>2
<1>4. \A k \in DOMAIN export : \E p \in DOMAIN L : L[p].title = export[k].name
      BY OwnSpread
<1>5. OnePerFile(L)
      BY <1>4, OwnSpread DEF OnePerFile
<1>6. OnePerFile(Reverse(L))
  <2>1. PICK M, h : M = Reverse(L) /\ h = [i \in 1..n |-> (n - i) + 1]
        OBVIOUS
  <2>2. M = [i \in 1..n |-> L[(n - i) + 1]]
        BY <1>1, <2>1 DEF Reverse
  <2>3. DOMAIN M = 1..n /\ \A i \in 1..n : M[i] = L[h[i]]
        BY <2>1, <2>2
  <2>4. h \in [1..n -> 1..n] /\ \A p, q \in 1..n : p # q => h[p] # h[q]
        BY <1>3, <2>1
  <2>5. ASSUME NEW k \in DOMAIN export PROVE \E p \in DOMAIN M : M[p].title = export[k].name
    <3>1. PICK p \in 1..n : L[p].title = export[k].name
          BY <1>3, <1>4
    <3>2. PICK q : q = (n - p) + 1
          OBVIOUS
    <3>3. q \in 1..n /\ h[q] = p
          BY <1>3, <2>1, <3>2
    <3> QED BY <2>3, <3>1, <3>3
  <2>6. OnePerFile(M)
        BY <1>3, <2>3, <2>4, <2>5, SpreadBy
  <2> QED BY <2>1, <2>6
<1>10. ASSUME NEW k \in DOMAIN L, cfg.files[L[k].title].chunks # <<>>,
              NEW j \in DOMAIN export, L[k].title = export[j].name
       PROVE  count(export[j]) >= 2
  <2>1. count(export[j]) \in Nat \ {0}
        BY ExportType, CountType DEF Own
  <2>2. cfg.files[export[j].name] = FileMeta(export[j])
    <3>1. export[j].name \in DOMAIN cfg.files
          BY DEF Own, SnapshotConfig
    <3> QED BY <3>1, OwnMeta DEF Meta
  <2>3. FileMeta(export[j]).chunks # <<>>
        BY <1>10, <2>2
  <2>4. count(export[j]) < 2 => FileMeta(export[j]).chunks = <<>>
        BY <2>1, FileMetaSays
  <2> QED BY <2>1, <2>3, <2>4
<1>7. ASSUME NEW k \in DOMAIN L, cfg.files[L[k].title].chunks # <<>>
      PROVE  OnePerFile(RemoveAt(L, k))
  <2>1. PICK M, h : M = RemoveAt(L, k) /\ h = [i \in 1..(n - 1) |-> IF i < k THEN i ELSE i + 1]
        OBVIOUS
  <2>2. k \in 1..n
        BY <1>3
  <2>3. M = SubSeq(L, 1, k - 1) \o SubSeq(L, k + 1, n)
        BY <1>1, <2>1 DEF RemoveAt
  <2>4. DOMAIN M = 1..(n - 1) /\ \A i \in 1..(n - 1) : M[i] = IF i < k THEN L[i] ELSE L[i + 1]
    <3>1. PICK a, b : a = SubSeq(L, 1, k - 1) /\ b = SubSeq(L, k + 1, n)
          OBVIOUS
    <3>2. /\ a \in Seq(Originals) /\ Len(a) = k - 1 /\ \A i \in 1..(k - 1) : a[i] = L[i]
          BY <1>1, <1>2, <1>3, <2>2, <3>1
    <3>3. /\ b \in Seq(Originals) /\ Len(b) = n - k /\ \A i \in 1..(n - k) : b[i] = L[k + i]
          BY <1>1, <1>2, <1>3, <2>2, <3>1, SMTT(30)
    <3>4. Len(a \o b) = n - 1 /\ DOMAIN (a \o b) = 1..(n - 1)
      <4>1. a \o b \in Seq(Originals) /\ Len(a \o b) = Len(a) + Len(b)
            BY <3>2, <3>3
      <4>2. Len(a) + Len(b) = n - 1
            BY <1>3, <2>2, <3>2, <3>3
      <4>3. DOMAIN (a \o b) = 1..Len(a \o b)
            BY <4>1
      <4> QED BY <4>1, <4>2, <4>3
    <3>5. ASSUME NEW i \in 1..(n - 1) PROVE (a \o b)[i] = IF i < k THEN L[i] ELSE L[i + 1]
      <4>1. CASE i < k
        <5>1. i \in 1..(k - 1) /\ i \in 1..Len(a)
              BY <2>2, <3>2, <4>1
        <5> QED BY <3>2, <3>3, <4>1, <5>1
      <4>2. CASE ~(i < k)
        <5>1. PICK j : j = i - (k - 1)
              OBVIOUS
        <5>2. j \in 1..(n - k) /\ k + j = i + 1 /\ i = Len(a) + j /\ i > Len(a) /\ j = i - Len(a)
              BY <1>3, <2>2, <3>2, <4>2, <5>1
        <5>3. (a \o b)[i] = b[j]
          <6>1. \A x \in 1..Len(b) : (a \o b)[Len(a) + x] = b[x]
                BY <3>2, <3>3
          <6>2. j \in 1..Len(b)
                BY <3>3, <5>2
          <6> QED BY <5>2, <6>1, <6>2
        <5> QED BY <3>3, <4>2, <5>2, <5>3
      <4> QED BY <4>1, <4>2
    <3> QED BY <2>3, <3>1, <3>4, <3>5
  <2>5. h \in [1..(n - 1) -> 1..n] /\ \A p, q \in 1..(n - 1) : p # q => h[p] # h[q]
        BY <1>3, <2>1, <2>2
  <2>6. \A i \in 1..(n - 1) : M[i] = L[h[i]]
        BY <2>1, <2>4
  <2>7. ASSUME NEW p \in 1..n, p # k PROVE \E q \in 1..(n - 1) : h[q] = p
    <3>1. PICK q : q = IF p < k THEN p ELSE p - 1
          OBVIOUS
    <3>2. q \in 1..(n - 1) /\ h[q] = p
          BY <1>3, <2>1, <2>2, <2>7, <3>1
    <3> QED BY <3>2
  <2>8. ASSUME NEW j \in DOMAIN export PROVE \E p \in DOMAIN M : M[p].title = export[j].name
    <3>1. PICK p \in 1..n : L[p].title = export[j].name /\ p # k
      <4>1. PICK p \in 1..n : L[p].title = export[j].name
            BY <1>3, <1>4
      <4>2. CASE p = k
        <5>1. count(export[j]) >= 2
              BY <1>7, <1>10, <4>1, <4>2
        <5>2. PICK x, y \in DOMAIN L : x # y /\ L[x].title = export[j].name /\ L[y].title = export[j].name
              BY <5>1, OwnSpread
        <5> QED BY <1>3, <5>2
      <4>3. CASE p # k
            BY <4>1, <4>3
      <4> QED BY <4>2, <4>3
    <3>2. PICK q \in 1..(n - 1) : h[q] = p
          BY <2>7, <3>1
    <3> QED BY <2>4, <2>6, <3>1, <3>2
  <2>9. OnePerFile(M)
    <3>1. h \in [DOMAIN M -> DOMAIN m.layers]
          BY <1>3, <2>4, <2>5
    <3>2. /\ \A p, q \in DOMAIN M : p # q => h[p] # h[q]
          /\ \A p \in DOMAIN M : M[p].title = m.layers[h[p]].title
          BY <2>4, <2>5, <2>6
    <3> QED BY <2>8, <3>1, <3>2, SpreadBy
  <2> QED BY <2>1, <2>9
<1>8. ASSUME NEW k \in DOMAIN L, NEW x, x.title \in {L[k].title, NoTitle}
      PROVE  OnePerFile([L EXCEPT ![k] = x])
  <2>1. PICK M : M = [L EXCEPT ![k] = x]
        OBVIOUS
  <2>2. L = [i \in 1..n |-> L[i]]
        BY <1>2, <1>3
  <2>3. DOMAIN M = 1..n /\ M[k] = x /\ \A i \in 1..n : i # k => M[i] = L[i]
        BY <1>3, <2>1, <2>2
  <2>4. CASE x.title = L[k].title
    <3>1. \A i \in 1..n : M[i].title = L[i].title
          BY <2>3, <2>4
    <3>2. OnePerFile(M)
          BY <1>3, <1>5, <2>3, <3>1 DEF OnePerFile
    <3> QED BY <2>1, <3>2
  <2>5. CASE x.title = NoTitle
    <3>1. \A i \in 1..n : M[i].title # NoTitle => M[i].title = L[i].title
          BY <2>3, <2>5
    <3>2. \A j \in DOMAIN export : export[j].name # NoTitle
          BY EngineAssumption DEF Own
    <3>3. ~(\A p \in DOMAIN M : M[p].title # NoTitle)
          BY <1>3, <2>3, <2>5
    <3>4. OnePerFile(M)
      <4>1. ASSUME NEW j \in DOMAIN export, NEW p \in DOMAIN M, NEW q \in DOMAIN M, p # q,
                   M[p].title = export[j].name, M[q].title = export[j].name
            PROVE  count(export[j]) >= 2
        <5>1. L[p].title = export[j].name /\ L[q].title = export[j].name
              BY <2>3, <3>1, <3>2, <4>1
        <5> QED BY <1>3, <2>3, <4>1, <5>1, OwnSpread
      <4> QED BY <3>3, <4>1 DEF OnePerFile
    <3> QED BY <2>1, <3>4
  <2> QED BY <1>8, <2>4, <2>5
<1>9. ASSUME NEW k \in DOMAIN L, cfg.files[L[k].title].chunks # <<>>
      PROVE  OnePerFile(Append(L, L[k]))
  <2>1. PICK M : M = Append(L, L[k])
        OBVIOUS
  <2>2. /\ DOMAIN M = 1..(n + 1) /\ M[n + 1] = L[k] /\ \A i \in 1..n : M[i] = L[i]
        BY <1>1, <1>2, <1>3, <2>1
  <2>3. ASSUME NEW j \in DOMAIN export PROVE \E p \in DOMAIN M : M[p].title = export[j].name
    <3>1. PICK p \in 1..n : L[p].title = export[j].name
          BY <1>3, <1>4
    <3>2. p \in 1..(n + 1)
          BY <1>3
    <3> QED BY <2>2, <3>1, <3>2
  <2>4. ASSUME NEW j \in DOMAIN export, NEW p \in DOMAIN M, NEW q \in DOMAIN M, p # q,
               M[p].title = export[j].name, M[q].title = export[j].name
        PROVE  count(export[j]) >= 2
    <3>1. CASE p = n + 1 \/ q = n + 1
      <4>1. L[k].title = export[j].name
            BY <2>2, <2>4, <3>1
      <4> QED BY <1>9, <1>10, <4>1
    <3>2. CASE p # n + 1 /\ q # n + 1
      <4>1. p \in 1..n /\ q \in 1..n
            BY <1>3, <2>2, <3>2
      <4>2. L[p].title = export[j].name /\ L[q].title = export[j].name
            BY <2>2, <2>4, <4>1
      <4> QED BY <1>3, <2>4, <4>1, <4>2, OwnSpread
    <3> QED BY <3>1, <3>2
  <2>5. OnePerFile(M)
        BY <2>3, <2>4 DEF OnePerFile
  <2> QED BY <2>1, <2>5
<1> QED BY <1>5, <1>6, <1>7, <1>8, <1>9

-----------------------------------------------------------------------------
(* The invariant.                                                          *)

Platforms == {"linux/amd64", "linux/arm64"}

\* Whoever wrote it, a manifest in the registry has the layers of the export, or
\* is an index of one that has.
Published(w, manifest) ==
    IF w \in Platforms
    THEN ClassifyParsed(manifest) = "image-index" /\ LayersOK(w, manifest.layers[1].layers)
    ELSE LayersOK(w, manifest.layers)

\* Every encoded file of the plan could be resolved.
AllResolved == \A k \in DOMAIN m.layers :
                  Emits(k) /\ IsEncoded(m.layers[k]) => Resolvable(m.layers[k])

\* The pipeline was made for the files that are split.
SplitEntries == {e \in ToSet(entries) : e.encoded /\ Len(e.chunks) >= 2}
InCap == Max({0} \cup {inputCap(e) : e \in SplitEntries})
OutCap == Max({0} \cup {outputCap(e) : e \in SplitEntries})
Piped == /\ pull \in PullModes
         /\ pipe = [window |-> PrefetchWindow(Concurrency(pull.prefetch),
                                              PullBudget(pull.budgetMiB), InCap, OutCap),
                    inputCap |-> InCap, outputCap |-> OutCap]

\* The manifest is the pusher's own until somebody rewrites it; whoever does, its
\* layers and files are the export's; and each stage of Stream has passed the checks
\* before it.
FInv ==
    /\ export \in Exports /\ mode \in PushModes
    /\ pc = "push" => writer = "this"
    /\ pc # "push" /\ writer = "this" => m = buildSnapshotManifest /\ cfg = SnapshotConfig
    /\ pc # "push" => FilesOK(cfg.files)
    /\ pc = "published" => Published(writer, m)
    /\ pc \in {"resolved", "fetched", "valid", "planned", "streaming"}
         => LayersOK(writer, m.layers)
    /\ pc \in {"valid", "planned", "streaming"} => LayersValid
    /\ pc \in {"planned", "streaming"} => AllResolved /\ entries = Planned
    /\ pc = "streaming" => Piped

\* What is made of the export depends on nothing else.
LEMMA ExportKept ==
    ASSUME UNCHANGED <<export, mode>>
    PROVE  /\ buildSnapshotManifest' = buildSnapshotManifest
           /\ SnapshotConfig' = SnapshotConfig
           /\ \A x : AllLayers(x)' <=> AllLayers(x)
           /\ \A w, x : LayersOK(w, x)' <=> LayersOK(w, x)
           /\ \A x : FilesOK(x)' <=> FilesOK(x)
<1>1. ASSUME NEW f PROVE compress(f)' <=> compress(f)
      BY DEF compress
<1>2. ASSUME NEW f PROVE (Encoded(f)' <=> Encoded(f)) /\ (Chunked(f)' <=> Chunked(f))
      BY <1>1 DEF Encoded, Chunked
<1>3. ASSUME NEW f PROVE count(f)' = count(f)
      BY <1>2 DEF count
<1>4. ASSUME NEW f, NEW i PROVE Descriptor(f, i)' = Descriptor(f, i)
  <2>1. Part(f, i)' = Part(f, i)
        BY <1>2 DEF Part
  <2> QED BY <1>1, <2>1 DEF Descriptor
<1>5. ASSUME NEW f PROVE Descriptors(f)' = Descriptors(f) /\ FileMeta(f)' = FileMeta(f)
      BY <1>3, <1>4 DEF Descriptors, FileMeta
<1>6. snapshotVersionMarkers' = snapshotVersionMarkers
      BY <1>2 DEF snapshotVersionMarkers
<1>7. buildSnapshotManifest' = buildSnapshotManifest
      BY <1>5, <1>6 DEF buildSnapshotManifest
<1>8. SnapshotConfig' = SnapshotConfig
      BY <1>5, <1>6 DEF SnapshotConfig
<1>9. \A x : AllLayers(x)' <=> AllLayers(x)
      BY <1>1, <1>3, <1>4 DEF AllLayers, IsLayer
<1>11. \A w, x : LayersOK(w, x)' <=> LayersOK(w, x)
      BY <1>3, <1>9 DEF LayersOK, OnePerFile
<1>10. \A x : FilesOK(x)' <=> FilesOK(x)
      BY <1>5 DEF FilesOK, IsMeta
<1> QED BY <1>7, <1>8, <1>9, <1>10, <1>11

\* What is made of a manifest and its config depends on nothing else.
LEMMA ManifestKept ==
    ASSUME UNCHANGED <<m, cfg>>
    PROVE  /\ LayersValid' <=> LayersValid
           /\ AllResolved' <=> AllResolved
           /\ Planned' = Planned
<1>1. ASSUME NEW l PROVE (IsEncoded(l)' <=> IsEncoded(l)) /\ (Resolvable(l)' <=> Resolvable(l))
      BY DEF IsEncoded, Resolvable
<1>2. ASSUME NEW k PROVE Emits(k)' <=> Emits(k)
      BY <1>1 DEF Emits
<1>3. ASSUME NEW l PROVE Entry(l)' = Entry(l)
  <2>1. resolveEncodedFile(l)' = resolveEncodedFile(l)
        BY DEF resolveEncodedFile
  <2>2. Meta(cfg, l.title)' = Meta(cfg, l.title)
        BY DEF Meta
  <2>3. CASE IsEncoded(l)
    <3>1. IsEncoded(l)' = TRUE /\ IsEncoded(l) = TRUE
          BY <1>1, <2>3 DEF IsEncoded
    <3> QED BY <2>1, <2>2, <3>1 DEF Entry
  <2>4. CASE ~IsEncoded(l)
    <3>1. IsEncoded(l)' = FALSE /\ IsEncoded(l) = FALSE
          BY <1>1, <2>4 DEF IsEncoded
    <3> QED BY <2>2, <3>1 DEF Entry
  <2> QED BY <2>3, <2>4
<1>4. LayersValid' <=> LayersValid
      BY DEF LayersValid
<1>5. AllResolved' <=> AllResolved
      BY <1>1, <1>2 DEF AllResolved
<1>6. Planned' = Planned
      BY <1>2, <1>3 DEF Planned
<1> QED BY <1>4, <1>5, <1>6

\* A layer another writer changed is still a layer of the export.
LEMMA LayerEdits ==
    ASSUME export \in Exports, mode \in PushModes, NEW d \in Originals
    PROVE  /\ IsLayer([d EXCEPT !.type = Type("future")])
           /\ IsLayer([d EXCEPT !.title = NoTitle])
           /\ IsLayer([d EXCEPT !.size = -1])
<1>1. PICK t, b, s, n : d = [type |-> t, digest |-> b, size |-> s, title |-> n]
      BY OriginalsAreLayers
<1>2. d.type = t /\ d.digest = b /\ d.size = s /\ d.title = n
      BY <1>1
<1>3. PICK k \in DOMAIN export : \E i \in 1..count(export[k]) :
        /\ b = Descriptor(export[k], i).digest
        /\ s \in {StoredSize(b), -1}
        /\ n \in {export[k].name, NoTitle}
        /\ t = Type("future") \/ (t.zstd <=> compress(export[k]))
      BY <1>2, OriginalsAreLayers, SMTT(30) DEF IsLayer
<1>4. PICK i \in 1..count(export[k]) :
        /\ b = Descriptor(export[k], i).digest
        /\ s \in {StoredSize(b), -1}
        /\ n \in {export[k].name, NoTitle}
        /\ t = Type("future") \/ (t.zstd <=> compress(export[k]))
      BY <1>3
<1>5. ASSUME NEW x, x = [d EXCEPT !.type = Type("future")] PROVE IsLayer(x)
  <2>1. x.type = Type("future") /\ x.digest = b /\ x.size = s /\ x.title = n
        BY <1>1, <1>5
  <2> QED BY <1>4, <2>1 DEF IsLayer
<1>6. ASSUME NEW x, x = [d EXCEPT !.title = NoTitle] PROVE IsLayer(x)
  <2>1. x.type = t /\ x.digest = b /\ x.size = s /\ x.title = NoTitle
        BY <1>1, <1>6
  <2> QED BY <1>4, <2>1 DEF IsLayer
<1>7. ASSUME NEW x, x = [d EXCEPT !.size = -1] PROVE IsLayer(x)
  <2>1. x.type = t /\ x.digest = b /\ x.size = -1 /\ x.title = n
        BY <1>1, <1>7
  <2> QED BY <1>4, <2>1 DEF IsLayer
<1> QED BY <1>5, <1>6, <1>7

\* So are the layers of a manifest that was edited.
LEMMA ListEdits ==
    ASSUME NEW S, \A d \in S : IsLayer(d), NEW L \in Seq(S)
    PROVE  /\ AllLayers(L) /\ AllLayers(Reverse(L))
           /\ \A k \in DOMAIN L : AllLayers(RemoveAt(L, k)) /\ AllLayers(Append(L, L[k]))
           /\ \A k \in DOMAIN L : \A x : IsLayer(x) => AllLayers([L EXCEPT ![k] = x])
<1>1. PICK n : n = Len(L)
      OBVIOUS
<1>2. n \in Nat /\ DOMAIN L = 1..n /\ \A i \in 1..n : L[i] \in S
      BY <1>1
<1>3. Reverse(L) \in Seq(S)
  <2>1. Reverse(L) = [i \in 1..n |-> L[(n - i) + 1]]
        BY <1>1 DEF Reverse
  <2>2. \A i \in 1..n : (n - i) + 1 \in 1..n
        BY <1>2
  <2>3. [i \in 1..n |-> L[(n - i) + 1]] \in [1..n -> S]
        BY <1>2, <2>2
  <2> QED BY <1>2, <2>1, <2>3
<1>4. ASSUME NEW k \in DOMAIN L PROVE RemoveAt(L, k) \in Seq(S)
  <2>1. k \in 1..n
        BY <1>2
  <2>2. SubSeq(L, 1, k - 1) \in Seq(S) /\ SubSeq(L, k + 1, n) \in Seq(S)
    <3>1. \A i \in 1..(k - 1) : i \in 1..n
          BY <1>2, <2>1
    <3>2. \A i \in (k + 1)..n : i \in 1..n
          BY <1>2, <2>1
    <3> QED BY <1>2, <2>1, <3>1, <3>2
  <2>3. RemoveAt(L, k) = SubSeq(L, 1, k - 1) \o SubSeq(L, k + 1, n)
        BY <1>1 DEF RemoveAt
  <2> QED BY <2>2, <2>3
<1>5. ASSUME NEW k \in DOMAIN L, NEW x, IsLayer(x) PROVE AllLayers([L EXCEPT ![k] = x])
  <2>1. [L EXCEPT ![k] = x] \in Seq(S \cup {x})
    <3>1. [L EXCEPT ![k] = x] \in [1..n -> S \cup {x}]
          BY <1>2
    <3> QED BY <1>2, <3>1
  <2>2. \A d \in S \cup {x} : IsLayer(d)
        BY <1>5
  <2> QED BY <2>1, <2>2 DEF AllLayers
<1>6. AllLayers(L) /\ AllLayers(Reverse(L))
      BY <1>3 DEF AllLayers
<1>7. \A k \in DOMAIN L : AllLayers(RemoveAt(L, k)) /\ AllLayers(Append(L, L[k]))
  <2>1. \A k \in DOMAIN L : Append(L, L[k]) \in Seq(S)
        BY <1>2
  <2> QED BY <1>4, <2>1 DEF AllLayers
<1> QED BY <1>5, <1>6, <1>7

\* The files of a config another writer changed are still the export's.
LEMMA ConfigEdits ==
    ASSUME export \in Exports, mode \in PushModes, NEW F, F = SnapshotConfig.files
    PROVE  /\ FilesOK(F)
           /\ FilesOK([name \in DOMAIN F |-> [F[name] EXCEPT !.size = 0]])
           /\ FilesOK([name \in DOMAIN F |-> [F[name] EXCEPT !.sparse.size = 0]])
           /\ FilesOK([name \in DOMAIN F |->
                         [F[name] EXCEPT !.chunks = IF @ = <<>> THEN @ ELSE Tail(@)]])
<1>1. ASSUME NEW name \in DOMAIN F
      PROVE  \E k \in DOMAIN export : export[k].name = name /\ F[name] = FileMeta(export[k])
      BY FilesAreMeta
<1>2. ASSUME NEW k \in DOMAIN export, NEW y, y = FileMeta(export[k])
      PROVE  /\ IsMeta([y EXCEPT !.size = 0], k)
             /\ IsMeta([y EXCEPT !.sparse.size = 0], k)
             /\ IsMeta([y EXCEPT !.chunks = IF @ = <<>> THEN @ ELSE Tail(@)], k)
  <2>1. PICK a, b, l, c : /\ y = [mode |-> a, sparse |-> b, size |-> l, chunks |-> c]
                          /\ l = Len(export[k].data) /\ b = export[k].sparse
                          /\ a = export[k].mode
        BY <1>2 DEF FileMeta
  <2>2. c = FileMeta(export[k]).chunks
        BY <1>2, <2>1
  <2>3. ASSUME NEW x, x = [y EXCEPT !.size = 0] 
        PROVE  x.size = 0 /\ x.chunks = c /\ x.sparse = b /\ x.mode = a
        BY <2>1, <2>3
  <2>4. ASSUME NEW x, x = [y EXCEPT !.sparse.size = 0]
        PROVE  x.size = l /\ x.chunks = c /\ x.sparse = [b EXCEPT !.size = 0] /\ x.mode = a
        BY <2>1, <2>4
  <2>5. ASSUME NEW x, x = [y EXCEPT !.chunks = IF @ = <<>> THEN @ ELSE Tail(@)]
        PROVE  /\ x.size = l /\ x.sparse = b /\ x.mode = a
               /\ x.chunks = IF c = <<>> THEN c ELSE Tail(c)
    <3>1. PICK z : z = IF c = <<>> THEN c ELSE Tail(c)
          OBVIOUS
    <3>2. y.chunks = c
          BY <2>1
    <3>3. x = [y EXCEPT !.chunks = z]
          BY <2>5, <3>1, <3>2
    <3>4. x.size = l /\ x.chunks = z /\ x.sparse = b /\ x.mode = a
          BY <2>1, <3>3
    <3> QED BY <3>1, <3>4
  <2>6. IsMeta([y EXCEPT !.size = 0], k)
        BY <2>1, <2>2, <2>3 DEF IsMeta
  <2>7. IsMeta([y EXCEPT !.sparse.size = 0], k)
        BY <2>1, <2>2, <2>4 DEF IsMeta
  <2>8. IsMeta([y EXCEPT !.chunks = IF @ = <<>> THEN @ ELSE Tail(@)], k)
        BY <2>1, <2>2, <2>5 DEF IsMeta
  <2> QED BY <2>6, <2>7, <2>8
<1>7. \A k \in DOMAIN export : export[k].name \in DOMAIN F
      BY ConfigIsOK DEF FilesOK
<1>3. FilesOK(F)
      BY ConfigIsOK
<1>4. FilesOK([name \in DOMAIN F |-> [F[name] EXCEPT !.size = 0]])
      BY <1>1, <1>2, <1>7 DEF FilesOK
<1>5. FilesOK([name \in DOMAIN F |-> [F[name] EXCEPT !.sparse.size = 0]])
      BY <1>1, <1>2, <1>7 DEF FilesOK
<1>6. FilesOK([name \in DOMAIN F |->
                 [F[name] EXCEPT !.chunks = IF @ = <<>> THEN @ ELSE Tail(@)]])
      BY <1>1, <1>2, <1>7 DEF FilesOK
<1> QED BY <1>3, <1>4, <1>5, <1>6

\* Whatever another writer makes of the manifest, it stays one of the export.
LEMMA RewritePublishes ==
    ASSUME export \in Exports, mode \in PushModes, m = buildSnapshotManifest,
           cfg = SnapshotConfig, Rewrite
    PROVE  /\ UNCHANGED <<export, mode, pull, pc, err, entries, pipe>> /\ writer' # "this"
           /\ Published(writer', m') /\ FilesOK(cfg'.files)
<1>1. PICK a, L : m = [artifact |-> a, type |-> "manifest", config |-> "snapshot.config",
                       layers |-> L]
      BY DEF buildSnapshotManifest
<1>2. m.layers = L
      BY <1>1
<1>3. L \in Seq(Originals) /\ \A d \in Originals : IsLayer(d)
      BY <1>2, OriginalsAreLayers
<1>4. /\ Full(L) /\ Full(Reverse(L))
      /\ \A k \in DOMAIN L : cfg.files[L[k].title].chunks # <<>> =>
           Full(RemoveAt(L, k)) /\ Full(Append(L, L[k]))
      /\ \A k \in DOMAIN L : AllLayers(RemoveAt(L, k)) /\ AllLayers(Append(L, L[k]))
      /\ \A k \in DOMAIN L : \A x : IsLayer(x) /\ x.title \in {L[k].title, NoTitle}
                                     => Full([L EXCEPT ![k] = x])
  <2>1. Own
        BY DEF Own
  <2>2. /\ OnePerFile(L) /\ OnePerFile(Reverse(L))
        /\ \A k \in DOMAIN L : cfg.files[L[k].title].chunks # <<>> =>
             OnePerFile(RemoveAt(L, k)) /\ OnePerFile(Append(L, L[k]))
        /\ \A k \in DOMAIN L : \A x : x.title \in {L[k].title, NoTitle}
                                       => OnePerFile([L EXCEPT ![k] = x])
        BY <1>2, <2>1, SpreadEdits
  <2>3. /\ AllLayers(L) /\ AllLayers(Reverse(L))
        /\ \A k \in DOMAIN L : AllLayers(RemoveAt(L, k)) /\ AllLayers(Append(L, L[k]))
        /\ \A k \in DOMAIN L : \A x : IsLayer(x) => AllLayers([L EXCEPT ![k] = x])
        BY <1>3, ListEdits
  <2> QED BY <2>2, <2>3 DEF Full
<1>5. PICK s, g, F : cfg = [schema |-> s, engine |-> g, files |-> F]
      BY DEF SnapshotConfig
<1>6. cfg.files = F
      BY <1>5
<1>7. /\ FilesOK(F)
      /\ FilesOK([name \in DOMAIN F |-> [F[name] EXCEPT !.size = 0]])
      /\ FilesOK([name \in DOMAIN F |-> [F[name] EXCEPT !.sparse.size = 0]])
      /\ FilesOK([name \in DOMAIN F |->
                    [F[name] EXCEPT !.chunks = IF @ = <<>> THEN @ ELSE Tail(@)]])
      BY <1>6, ConfigEdits
<1>8. ASSUME NEW w, w \notin Platforms, w # "this", NEW x, AllLayers(x.layers),
             w \in Partial \/ Full(x.layers),
             NEW c, FilesOK(c.files), OtherWriter(w, x, c)
      PROVE  /\ UNCHANGED <<export, mode, pull, pc, err, entries, pipe>> /\ writer' # "this"
             /\ Published(writer', m') /\ FilesOK(cfg'.files)
  <2>1. LayersOK(w, x.layers)
        BY <1>8 DEF LayersOK, Full
  <2> QED BY <1>8, <2>1, ExportKept DEF OtherWriter, Published
<1>28. ASSUME NEW w, w \notin Platforms, w # "this", NEW x, Full(x.layers),
              NEW c, FilesOK(c.files), OtherWriter(w, x, c)
       PROVE  /\ UNCHANGED <<export, mode, pull, pc, err, entries, pipe>> /\ writer' # "this"
              /\ Published(writer', m') /\ FilesOK(cfg'.files)
      BY <1>8, <1>28 DEF Full
<1> DEFINE Goal == /\ UNCHANGED <<export, mode, pull, pc, err, entries, pipe>>
                   /\ writer' # "this" /\ Published(writer', m') /\ FilesOK(cfg'.files)
<1>9. ASSUME NEW v PROVE Full([m EXCEPT !.artifact = v].layers)
  <2>1. [m EXCEPT !.artifact = v].layers = L
        BY <1>1
  <2> QED BY <1>4, <2>1
<1>10. ASSUME NEW k \in DOMAIN L, NEW d, IsLayer(d), d.title \in {L[k].title, NoTitle}
       PROVE  Full(WithLayer(k, d).layers)
  <2>1. WithLayer(k, d).layers = [L EXCEPT ![k] = d]
        BY <1>1 DEF WithLayer
  <2> QED BY <1>4, <1>10, <2>1
<1>11. ASSUME NEW f, FilesOK(f) PROVE FilesOK(WithFiles(f).files)
  <2>1. WithFiles(f).files = f
        BY <1>5 DEF WithFiles
  <2> QED BY <1>11, <2>1
<1>12. Full(m.layers) /\ FilesOK(cfg.files)
      BY <1>2, <1>4, <1>6, <1>7
<1>13. ASSUME NEW k \in DOMAIN L
       PROVE  /\ Full(WithLayer(k, [m.layers[k] EXCEPT !.type = Type("future")]).layers)
              /\ Full(WithLayer(k, [m.layers[k] EXCEPT !.title = NoTitle]).layers)
              /\ Full(WithLayer(k, [m.layers[k] EXCEPT !.size = -1]).layers)
  <2>1. L[k] \in Originals
        BY <1>3
  <2>2. PICK d : d = L[k]
        OBVIOUS
  <2>3. PICK t, b, s0, n : d = [type |-> t, digest |-> b, size |-> s0, title |-> n]
        BY <2>1, <2>2, OriginalsAreLayers
  <2>4. /\ [d EXCEPT !.type = Type("future")].title = d.title
        /\ [d EXCEPT !.title = NoTitle].title = NoTitle
        /\ [d EXCEPT !.size = -1].title = d.title
        BY <2>3
  <2>5. /\ IsLayer([d EXCEPT !.type = Type("future")])
        /\ IsLayer([d EXCEPT !.title = NoTitle])
        /\ IsLayer([d EXCEPT !.size = -1])
        BY <2>1, <2>2, LayerEdits
  <2> QED BY <1>2, <1>10, <2>2, <2>4, <2>5
<1> HIDE DEF Goal
<1>14. CASE OtherWriter("v1 marker", [m EXCEPT !.artifact = "snapshot.v1"], cfg)
      BY <1>28, <1>9, <1>12, <1>14 DEF Goal, Platforms
<1>15. CASE \E kind \in {"os-image", None} :
              OtherWriter("other kind", [m EXCEPT !.artifact = kind], cfg)
      BY <1>28, <1>9, <1>12, <1>15 DEF Goal, Platforms
<1>16. ASSUME NEW k \in DOMAIN L,
              OtherWriter("new media type",
                          WithLayer(k, [m.layers[k] EXCEPT !.type = Type("future")]), cfg)
       PROVE  Goal
      BY <1>28, <1>12, <1>13, <1>16 DEF Goal, Platforms
<1>17. ASSUME NEW k \in DOMAIN L,
              OtherWriter("no title", WithLayer(k, [m.layers[k] EXCEPT !.title = NoTitle]), cfg)
       PROVE  Goal
      BY <1>28, <1>12, <1>13, <1>17 DEF Goal, Platforms
<1>18. ASSUME NEW k \in DOMAIN L,
              OtherWriter("negative size", WithLayer(k, [m.layers[k] EXCEPT !.size = -1]), cfg)
       PROVE  Goal
      BY <1>28, <1>12, <1>13, <1>18 DEF Goal, Platforms
<1>19. ASSUME NEW k \in DOMAIN L,
              OtherWriter(IF IsSplit(k) THEN "chunk missing" ELSE "file missing",
                          [m EXCEPT !.layers = RemoveAt(@, k)], cfg)
       PROVE  Goal
  <2>1. [m EXCEPT !.layers = RemoveAt(@, k)].layers = RemoveAt(L, k)
        BY <1>1
  <2>2. AllLayers(RemoveAt(L, k)) /\ (IsSplit(k) => Full(RemoveAt(L, k)))
        BY <1>2, <1>4 DEF IsSplit
  <2> QED BY <1>8, <1>12, <1>19, <2>1, <2>2 DEF Goal, Platforms, Partial
<1>29. ASSUME NEW k \in DOMAIN L,
              OtherWriter(IF IsSplit(k) THEN "chunk repeated" ELSE "file repeated",
                          [m EXCEPT !.layers = Append(@, m.layers[k])], cfg)
       PROVE  Goal
  <2>1. [m EXCEPT !.layers = Append(@, m.layers[k])].layers = Append(L, L[k])
        BY <1>1
  <2>2. AllLayers(Append(L, L[k])) /\ (IsSplit(k) => Full(Append(L, L[k])))
        BY <1>2, <1>4 DEF IsSplit
  <2> QED BY <1>8, <1>12, <1>29, <2>1, <2>2 DEF Goal, Platforms, Partial
<1>20. CASE OtherWriter("layers reversed", [m EXCEPT !.layers = Reverse(@)], cfg)
  <2>1. [m EXCEPT !.layers = Reverse(@)].layers = Reverse(L)
        BY <1>1
  <2> QED BY <1>4, <1>28, <1>12, <1>20, <2>1 DEF Goal, Platforms
<1>21. CASE OtherWriter("no sizes", m, WithFiles(
                          [name \in DOMAIN cfg.files |-> [cfg.files[name] EXCEPT !.size = 0]]))
  <2>1. FilesOK(WithFiles(
                  [name \in DOMAIN cfg.files |-> [cfg.files[name] EXCEPT !.size = 0]]).files)
        BY <1>6, <1>7, <1>11
  <2> QED BY <1>28, <1>12, <1>21, <2>1 DEF Goal, Platforms
<1>22. CASE OtherWriter("no sparse sizes", m, WithFiles(
                          [name \in DOMAIN cfg.files |-> [cfg.files[name] EXCEPT !.sparse.size = 0]]))
  <2>1. FilesOK(WithFiles(
                  [name \in DOMAIN cfg.files |-> [cfg.files[name] EXCEPT !.sparse.size = 0]]).files)
        BY <1>6, <1>7, <1>11
  <2> QED BY <1>28, <1>12, <1>22, <2>1 DEF Goal, Platforms
<1>23. CASE OtherWriter("chunk dropped", m, WithFiles(
                          [name \in DOMAIN cfg.files |->
                             [cfg.files[name] EXCEPT !.chunks = IF @ = <<>> THEN @ ELSE Tail(@)]]))
  <2>1. FilesOK(WithFiles(
                  [name \in DOMAIN cfg.files |->
                     [cfg.files[name] EXCEPT !.chunks = IF @ = <<>> THEN @ ELSE Tail(@)]]).files)
        BY <1>6, <1>7, <1>11
  <2> QED BY <1>28, <1>12, <1>23, <2>1 DEF Goal, Platforms
<1>24. CASE OtherWriter("config type", [m EXCEPT !.config = "future"], cfg)
  <2>1. [m EXCEPT !.config = "future"].layers = L
        BY <1>1
  <2> QED BY <1>4, <1>28, <1>12, <1>24, <2>1 DEF Goal, Platforms
<1>25. CASE OtherWriter("no engine", m, [cfg EXCEPT !.engine = NoEngine])
  <2>1. [cfg EXCEPT !.engine = NoEngine].files = F
        BY <1>5
  <2> QED BY <1>7, <1>28, <1>12, <1>25, <2>1 DEF Goal, Platforms
<1>26. CASE \E platform \in {"linux/amd64", "linux/arm64"} :
              OtherWriter(platform, [artifact |-> None, type |-> "index", config |-> None,
                                     layers |-> <<m>>], cfg)
  <2>1. PICK x : x = [artifact |-> None, type |-> "index", config |-> None, layers |-> <<m>>]
        OBVIOUS
  <2>2. x.layers[1] = m /\ ClassifyParsed(x) = "image-index"
        BY <2>1 DEF ClassifyParsed, None
  <2>3. /\ UNCHANGED <<export, mode, pull, pc, err, entries, pipe>>
        /\ writer' \in Platforms /\ m' = x /\ cfg' = cfg
        BY <1>26, <2>1 DEF OtherWriter, Platforms
  <2>4. \A w : LayersOK(w, m.layers)
        BY <1>12 DEF LayersOK, Full
  <2> QED BY <1>12, <2>2, <2>3, <2>4, ExportKept DEF Goal, Published, Platforms
<1>27. DOMAIN m.layers = DOMAIN L
      BY <1>2
<1> QED BY <1>14, <1>15, <1>16, <1>17, <1>18, <1>19, <1>20, <1>21, <1>22, <1>23, <1>24,
           <1>25, <1>26, <1>27, <1>29 DEF Rewrite, Goal

\* What is pushed has a layer for every file.
LEMMA OwnOnePerFile == Own => OnePerFile(m.layers)
  BY SpreadEdits

\* Every step of the specification preserves the invariant.
LEMMA FInvStep ==
    ASSUME FInv, [Next]_vars
    PROVE  FInv'
<1>1. UNCHANGED <<export, mode>>
      BY DEF Next, vars, Push, Rewrite, OtherWriter, pickIndexChild, NotIndex,
             FetchSnapshotConfig, Validate, planLayers, newChunkPipeline, Stopped
<1>2. /\ buildSnapshotManifest' = buildSnapshotManifest
      /\ SnapshotConfig' = SnapshotConfig
      /\ \A w, x : LayersOK(w, x)' <=> LayersOK(w, x)
      /\ \A x : FilesOK(x)' <=> FilesOK(x)
      BY <1>1, ExportKept
<1>3. export \in Exports /\ mode \in PushModes /\ export' \in Exports /\ mode' \in PushModes
      BY <1>1 DEF FInv
<1>4. UNCHANGED <<m, cfg>> => /\ LayersValid' <=> LayersValid
                              /\ AllResolved' <=> AllResolved
                              /\ Planned' = Planned
      BY ManifestKept
<1>5. CASE Push
  <2>1. /\ pc' = "published" /\ writer' = writer /\ writer = "this"
        /\ m' = buildSnapshotManifest /\ cfg' = SnapshotConfig
        BY <1>5 DEF Push, FInv
  <2>2. LayersOK(writer, m'.layers)
    <3>1. AllLayers(m'.layers)
          BY <1>3, <2>1, OriginalsAreLayers DEF AllLayers
    <3>2. Own' => OnePerFile(m.layers)'
          BY OwnOnePerFile, PTL
    <3>3. Own'
          BY <1>2, <1>3, <2>1 DEF Own
    <3>4. AllLayers(m.layers)'
          BY <1>1, <3>1, ExportKept
    <3>5. LayersOK(writer, m.layers)'
          BY <3>2, <3>3, <3>4 DEF LayersOK
    <3> QED BY <1>2, <2>1, <3>5
  <2>3. FilesOK(cfg'.files)
        BY <1>3, <2>1, ConfigIsOK
  <2>4. "this" \notin Platforms
        BY Zenon DEF Platforms
  <2>5. Published(writer, m)'
        BY <1>2, <2>1, <2>2, <2>4 DEF Published
  <2> QED BY <1>2, <1>3, <2>1, <2>3, <2>5 DEF FInv
<1>6. CASE Rewrite
  <2>1. pc = "published" /\ writer = "this" /\ m = buildSnapshotManifest /\ cfg = SnapshotConfig
        BY <1>6 DEF Rewrite, FInv
  <2>2. /\ pc' = pc /\ writer' # "this"
        /\ Published(writer', m') /\ FilesOK(cfg'.files)
        BY <1>3, <1>6, <2>1, RewritePublishes
  <2>3. Published(writer, m)'
        BY <1>2, <2>2 DEF Published, ClassifyParsed, Platforms
  <2> QED BY <1>2, <1>3, <2>1, <2>2, <2>3 DEF FInv
<1>7. CASE pickIndexChild
  <2>1. pc = "published" /\ Published(writer, m) /\ UNCHANGED <<writer, cfg>> /\ FilesOK(cfg.files)
        BY <1>7 DEF pickIndexChild, FInv
  <2>2. CASE pc' = "failed" /\ m' = m
        BY <1>2, <1>3, <2>1, <2>2 DEF FInv
  <2>3. CASE pc' = "resolved" /\ writer = "linux/amd64" /\ m' = m.layers[1]
    <3>1. LayersOK(writer, m'.layers)
          BY <2>1, <2>3 DEF Published, Platforms
    <3>2. writer # "this"
          BY <2>3
    <3> QED BY <1>2, <1>3, <2>1, <2>3, <3>1, <3>2 DEF FInv
  <2> QED BY <1>7, <2>2, <2>3 DEF pickIndexChild, Fail, Goto
<1>8. CASE NotIndex
  <2>1. /\ pc = "published" /\ pc' = "resolved" /\ Published(writer, m) /\ FilesOK(cfg.files)
        /\ UNCHANGED <<writer, m, cfg>> /\ ClassifyParsed(m) # "image-index"
        BY <1>8 DEF NotIndex, Goto, FInv
  <2>2. LayersOK(writer, m.layers)
        BY <2>1 DEF Published
  <2> QED BY <1>2, <1>3, <2>1, <2>2 DEF FInv
<1>9. CASE FetchSnapshotConfig
  <2>1. /\ pc = "resolved" /\ LayersOK(writer, m.layers) /\ FilesOK(cfg.files)
        /\ UNCHANGED <<writer, m, cfg>> /\ pc' \in {"failed", "fetched"}
        BY <1>9 DEF FetchSnapshotConfig, Goto, Fail, FInv
  <2> QED BY <1>2, <1>3, <2>1 DEF FInv
<1>10. CASE Validate
  <2>1. /\ pc = "fetched" /\ LayersOK(writer, m.layers) /\ FilesOK(cfg.files)
        /\ UNCHANGED <<writer, m, cfg>> /\ pc' \in {"failed", "valid"}
        /\ pc' = "valid" => LayersValid
        BY <1>10 DEF Validate, Goto, Fail, FInv
  <2> QED BY <1>2, <1>3, <1>4, <2>1 DEF FInv
<1>11. CASE planLayers
  <2>1. /\ pc = "valid" /\ LayersOK(writer, m.layers) /\ FilesOK(cfg.files) /\ LayersValid
        /\ UNCHANGED <<writer, m, cfg>> /\ pc' \in {"failed", "planned"}
        /\ pc' = "planned" => AllResolved /\ entries' = Planned
        BY <1>11 DEF planLayers, Goto, Fail, FInv, AllResolved
  <2> QED BY <1>2, <1>3, <1>4, <2>1 DEF FInv
<1>12. CASE newChunkPipeline
  <2>1. /\ pc = "planned" /\ LayersOK(writer, m.layers) /\ FilesOK(cfg.files) /\ LayersValid
        /\ AllResolved /\ entries = Planned
        /\ UNCHANGED <<writer, m, cfg, entries>> /\ pc' = "streaming"
        BY <1>12 DEF newChunkPipeline, Goto, FInv
  <2>2. InCap' = InCap /\ OutCap' = OutCap
        BY <2>1 DEF InCap, OutCap, SplitEntries, inputCap, outputCap, Stored
  <2>3. Piped'
        BY <1>12, <2>2 DEF newChunkPipeline, Piped, InCap, OutCap, SplitEntries
  <2> QED BY <1>2, <1>3, <1>4, <2>1, <2>3 DEF FInv
<1>13. CASE UNCHANGED vars
  <2>1. UNCHANGED <<writer, m, cfg, pull, pc, entries, pipe>>
        BY <1>13 DEF vars
  <2>2. Piped' <=> Piped
        BY <2>1 DEF Piped, InCap, OutCap, SplitEntries, inputCap, outputCap, Stored
  <2>3. Published(writer, m)' <=> Published(writer, m)
        BY <1>2, <2>1 DEF Published, ClassifyParsed, Platforms
  <2> QED BY <1>2, <1>3, <1>4, <2>1, <2>2, <2>3 DEF FInv
<1>14. CASE Stopped
      BY <1>13, <1>14 DEF Stopped
<1> QED BY <1>5, <1>6, <1>7, <1>8, <1>9, <1>10, <1>11, <1>12, <1>13, <1>14 DEF Next

\* The invariant holds of every behaviour.
LEMMA FormatInvariant == Spec => []FInv
<1>1. Init => FInv
      BY DEF Init, FInv
<1>2. FInv /\ [Next]_vars => FInv'
      BY FInvStep
<1> QED BY <1>1, <1>2, PTL DEF Spec

\* Whatever the export and the options, a snapshot this pusher marks v1 is one raw
\* layer per file, in order, so that a reader that knows nothing of chunks and zstd
\* restores it (snapshotVersionMarkers, push.go).
THEOREM V1StaysPlain == Spec => []V1ReadersUnharmed
<1>1. FInv => V1ReadersUnharmed
  <2> SUFFICES ASSUME FInv, pc = "published", writer = "this", m.artifact = "snapshot.v1"
               PROVE  /\ Len(m.layers) = Len(export)
                      /\ \A k \in DOMAIN m.layers :
                           /\ m.layers[k].title = export[k].name
                           /\ m.layers[k].digest = Blob("raw", export[k].data)
                           /\ ~IsZstdMediaType(m.layers[k].type)
      BY DEF V1ReadersUnharmed
  <2>1. export \in Exports /\ mode \in PushModes /\ m = buildSnapshotManifest
        BY DEF FInv
  <2> QED BY <2>1, V1IsPlain
<1> QED BY <1>1, FormatInvariant, PTL

\* The capacities of the pipeline cover those every split file asks for.
LEMMA PipeCovers ==
    ASSUME Known, NEW n \in Nat, entries \in [1..n -> PlanSet]
    PROVE  /\ InCap \in Nat /\ OutCap \in Nat
           /\ \A e \in SplitEntries : inputCap(e) <= InCap /\ outputCap(e) <= OutCap
<1>1. ASSUME NEW e \in SplitEntries
      PROVE  inputCap(e) \in Nat /\ outputCap(e) \in Nat
  <2>1. e \in PlanSet /\ e.encoded /\ Len(e.chunks) >= 2
        BY DEF SplitEntries, ToSet
  <2> QED BY <2>1, CapsCover
<1>2. DOMAIN entries = 1..n
      OBVIOUS
<1>3. ASSUME NEW g, DOMAIN g = 1..n, NEW T, T \subseteq {g[i] : i \in 1..n}, T \subseteq Nat
      PROVE  /\ Max({0} \cup T) \in Nat
             /\ \A y \in T : y <= Max({0} \cup T)
  <2>1. IsFiniteSet(T)
    <3>1. PICK I : I = {g[i] : i \in 1..n}
          OBVIOUS
    <3>2. IsFiniteSet(I) /\ T \in SUBSET I
          BY <1>3, <3>1, FiniteImage
    <3> QED BY <3>2, FS_Subset
  <2>2. PICK R : R = {0} \cup T
        OBVIOUS
  <2>3. IsFiniteSet(R)
    <3>1. IsFiniteSet(T \cup {0})
          BY <2>1, FS_AddElement
    <3>2. R = T \cup {0}
          BY <2>2
    <3> QED BY <3>1, <3>2
  <2>4. R \in SUBSET Nat /\ R # {} /\ T \subseteq R
        BY <1>3, <2>2
  <2>5. Max(R) \in R /\ \A y \in R : Max(R) >= y
        BY <2>3, <2>4, Greatest
  <2> QED BY <2>2, <2>4, <2>5
<1>4. PICK T : T = {inputCap(e) : e \in SplitEntries}
      OBVIOUS
<1>5. PICK U : U = {outputCap(e) : e \in SplitEntries}
      OBVIOUS
<1>6. InCap \in Nat /\ \A y \in T : y <= InCap
  <2>1. PICK g : g = [i \in 1..n |-> inputCap(entries[i])]
        OBVIOUS
  <2>2. T \subseteq {g[i] : i \in 1..n} /\ DOMAIN g = 1..n
        BY <1>2, <1>4, <2>1 DEF SplitEntries, ToSet
  <2>3. T \subseteq Nat
        BY <1>1, <1>4
  <2> QED BY <1>3, <1>4, <2>2, <2>3 DEF InCap
<1>7. OutCap \in Nat /\ \A y \in U : y <= OutCap
  <2>1. PICK g : g = [i \in 1..n |-> outputCap(entries[i])]
        OBVIOUS
  <2>2. U \subseteq {g[i] : i \in 1..n} /\ DOMAIN g = 1..n
        BY <1>2, <1>5, <2>1 DEF SplitEntries, ToSet
  <2>3. U \subseteq Nat
        BY <1>1, <1>5
  <2> QED BY <1>3, <1>5, <2>2, <2>3 DEF OutCap
<1> QED BY <1>4, <1>5, <1>6, <1>7

\* Whoever wrote the manifest, the buffers of a prefetching pull hold every chunk put
\* into them, stored and decoded, and are within the budget together: rawChunkStride
\* is never less than the chunk size of the push, which the reader does not know
\* (newChunkPipeline, bufferCaps, pullencoded.go).
THEOREM PrefetchBuffersFit == Spec => []PrefetchFits
<1>1. FInv => PrefetchFits
  <2> SUFFICES ASSUME FInv, pc = "streaming", pipe.window > 0 PROVE PrefetchFits
      BY DEF PrefetchFits
  <2>1. Known /\ AllResolved /\ entries = Planned /\ Piped
        BY DEF FInv, Known
  <2>2. PICK S : m.layers \in Seq(S)
        BY <2>1 DEF Known, LayersOK, AllLayers
  <2>3. entries \in Seq(PlanSet)
        BY <2>1, <2>2, PlannedType DEF AllResolved
  <2>4. PICK n \in Nat : entries \in [1..n -> PlanSet]
    <3>1. PICK X : X = PlanSet
          OBVIOUS
    <3>2. entries \in Seq(X)
          BY <2>3, <3>1
    <3>3. \E n \in Nat : entries \in [1..n -> X]
          BY <3>2
    <3> QED BY <3>1, <3>3
  <2>5. /\ InCap \in Nat /\ OutCap \in Nat
        /\ \A e \in SplitEntries : inputCap(e) <= InCap /\ outputCap(e) <= OutCap
        BY <2>1, <2>4, PipeCovers
  <2>6. PICK in, out, w : /\ in = InCap /\ out = OutCap
                          /\ w = PrefetchWindow(Concurrency(pull.prefetch),
                                                PullBudget(pull.budgetMiB), in, out)
        OBVIOUS
  <2>7. pipe.window = w /\ pipe.inputCap = in /\ pipe.outputCap = out
        BY <2>1, <2>6 DEF Piped
  <2>8. PICK b : b = PullBudget(pull.budgetMiB)
        OBVIOUS
  <2>9. pull.prefetch \in Int /\ pull.budgetMiB \in Int
        BY <2>1, FormatAssumption DEF Piped
  <2>10. Concurrency(pull.prefetch) \in Int /\ b \in Nat
        BY <2>8, <2>9, ConcurrencyType, BudgetType, SizesAssumption DEF PullBudget
  <2>11. w \in Nat /\ in * w + out * (w + 1) <= b
    <3>1. w # 0
          BY <2>7
    <3>2. PICK c : c = Concurrency(pull.prefetch)
          OBVIOUS
    <3>3. c \in Int /\ in \in Nat /\ out \in Nat /\ w = PrefetchWindow(c, b, in, out)
          BY <2>5, <2>6, <2>8, <2>10, <3>2
    <3> QED BY <2>10, <3>1, <3>3, PullPoolsFit
  <2>12. w * in + (w + 1) * out <= b
    <3>1. in \in Nat /\ out \in Nat
          BY <2>5, <2>6
    <3>2. w * in = in * w /\ (w + 1) * out = out * (w + 1)
          BY <2>11, <3>1
    <3> QED BY <2>11, <3>2
  <2>13. ASSUME NEW e \in ToSet(entries), e.encoded, Len(e.chunks) >= 2,
                NEW i \in DOMAIN e.chunks
         PROVE  /\ Len(e.chunks[i].digest.data) <= out
                /\ IsZstdMediaType(e.layer.type) => e.chunks[i].size <= in
    <3>1. e \in SplitEntries /\ e \in PlanSet
          BY <2>4, <2>13 DEF SplitEntries, ToSet
    <3>2. PICK a, c, l : a = inputCap(e) /\ c = outputCap(e) /\ l = Len(e.chunks[i].digest.data)
          OBVIOUS
    <3>3. /\ a \in Nat /\ c \in Nat /\ l \in Nat /\ l <= c
          /\ e.layer.type.zstd => e.chunks[i].size \in Nat /\ e.chunks[i].size <= a
          BY <2>1, <2>13, <3>1, <3>2, CapsCover
    <3>4. a <= in /\ c <= out /\ in \in Nat /\ out \in Nat
          BY <2>5, <2>6, <3>1, <3>2
    <3>5. l <= out
          BY <3>3, <3>4
    <3>6. e.layer.type.zstd => e.chunks[i].size <= in
          BY <3>3, <3>4
    <3> QED BY <3>2, <3>5, <3>6 DEF IsZstdMediaType
  <2> QED BY <2>7, <2>8, <2>12, <2>13 DEF PrefetchFits
<1> QED BY <1>1, FormatInvariant, PTL

-----------------------------------------------------------------------------
(* What Stream makes of it.                                                *)

\* A layer is encoded exactly if its file is split or compressed.
LEMMA OwnEncoded ==
    ASSUME Own, NEW k \in DOMAIN export, NEW i
    PROVE  IsEncoded(Descriptor(export[k], i)) <=> count(export[k]) >= 2 \/ compress(export[k])
<1>1. count(export[k]) \in Nat \ {0}
      BY ExportType, CountType DEF Own
<1>2. PICK d : d = Descriptor(export[k], i)
      OBVIOUS
<1>3. d.title = export[k].name /\ (d.type.zstd <=> compress(export[k]))
      BY <1>2, DescriptorSays
<1>4. PICK c : c = Meta(cfg, export[k].name).chunks
      OBVIOUS
<1>5. (count(export[k]) < 2 => c = <<>>) /\ (count(export[k]) >= 2 => c # <<>>)
      BY <1>1, <1>4, OwnMeta, FileMetaSays
<1>6. count(export[k]) < 2 \/ count(export[k]) >= 2
      BY <1>1
<1>7. IsEncoded(d) <=> c # <<>> \/ d.type.zstd
      BY <1>3, <1>4 DEF IsEncoded, IsZstdMediaType
<1> QED BY <1>2, <1>3, <1>5, <1>6, <1>7

\* The plan has an entry for the first layer of each file and for no other.
LEMMA FirstEmits ==
    ASSUME Own, NEW off, PlacedBy(off), NEW k \in 1..Len(export),
           NEW i \in 1..count(export[k]), NEW p, p = off[k - 1] + i
    PROVE  Emits(p) <=> i = 1
<1>1. Len(export) \in Nat /\ DOMAIN export = 1..Len(export)
      BY ExportType DEF Own
<1>2. count(export[k]) \in Nat \ {0}
      BY <1>1, ExportType, CountType DEF Own
<1>3. k - 1 \in 0..Len(export) /\ off[k - 1] \in Nat /\ i \in Nat \ {0}
  <2>1. k - 1 \in 0..Len(export)
        BY <1>1
  <2>2. off \in [0..Len(export) -> Nat]
        BY DEF PlacedBy
  <2> QED BY <1>2, <2>1, <2>2
<1>4. m.layers[p] = Descriptor(export[k], i)
      BY DEF PlacedBy
<1>7. \A f, z : Descriptor(f, z).title = f.name
  <2>1. ASSUME NEW f, NEW z PROVE Descriptor(f, z).title = f.name
        BY DescriptorSays
  <2> QED BY <2>1
<1>5. CASE i = 1
  <2> SUFFICES ASSUME NEW j \in 1..(p - 1), m.layers[j].title = m.layers[p].title
               PROVE  FALSE
      BY <1>5 DEF Emits
  <2>1. j \in 1..off[k - 1]
        BY <1>3, <1>5
  <2>2. PICK g \in 1..(k - 1) : \E h \in 1..count(export[g]) : j = off[g - 1] + h
        BY <1>3, <2>1 DEF PlacedBy
  <2>3. PICK h \in 1..count(export[g]) : j = off[g - 1] + h
        BY <2>2
  <2>4. g \in 1..Len(export) /\ g # k
        BY <1>1
  <2>5. m.layers[j] = Descriptor(export[g], h)
        BY <2>3, <2>4 DEF PlacedBy
  <2>6. export[g].name = export[k].name
        BY <1>4, <1>7, <2>5
  <2> QED BY <1>1, <2>4, <2>6, ExportType DEF Own
<1>6. CASE i # 1
  <2>1. PICK j : j = off[k - 1] + 1
        OBVIOUS
  <2>2. 1 \in 1..count(export[k]) /\ j \in 1..(p - 1) /\ count(export[k]) >= 2
        BY <1>2, <1>3, <1>6, <2>1, SMTT(30)
  <2>3. m.layers[j] = Descriptor(export[k], 1)
        BY <2>1, <2>2 DEF PlacedBy
  <2>4. m.layers[j].title = m.layers[p].title
        BY <1>4, <1>7, <2>3
  <2>5. IsEncoded(m.layers[j]) /\ IsEncoded(m.layers[p])
        BY <1>1, <1>4, <2>2, <2>3, OwnEncoded
  <2> QED BY <1>6, <2>2, <2>4, <2>5 DEF Emits
<1> QED BY <1>5, <1>6

\* A function cut after k, and one more of its values.
LEMMA OneMore ==
    ASSUME NEW n \in Nat, NEW E, NEW k \in Nat, k + 1 <= n
    PROVE  Append([j \in 1..k |-> E[j]], E[k + 1]) = [j \in 1..(k + 1) |-> E[j]]
<1>1. PICK V : V = {E[j] : j \in 1..n}
      OBVIOUS
<1>2. PICK s : s = [j \in 1..k |-> E[j]]
      OBVIOUS
<1>3. PICK e : e = E[k + 1]
      OBVIOUS
<1>4. s \in Seq(V) /\ Len(s) = k /\ e \in V
  <2>1. \A j \in 1..k : E[j] \in V
        BY <1>1
  <2>2. e \in V
        BY <1>1, <1>3
  <2> QED BY <1>2, <2>1, <2>2
<1>5. PICK t : t = Append(s, e)
      OBVIOUS
<1>6. /\ t \in Seq(V) /\ Len(t) = k + 1 /\ t[k + 1] = e
      /\ \A j \in 1..k : t[j] = s[j]
      BY <1>4, <1>5
<1>7. ASSUME NEW j \in 1..(k + 1) PROVE t[j] = E[j]
  <2>1. CASE j = k + 1
        BY <1>3, <1>6, <2>1
  <2>2. CASE j # k + 1
    <3>1. j \in 1..k
          BY <2>2
    <3>2. s[j] = E[j]
          BY <1>2, <3>1
    <3> QED BY <1>6, <3>1, <3>2
  <2> QED BY <2>1, <2>2
<1>8. DOMAIN t = 1..(k + 1) /\ t = [j \in DOMAIN t |-> t[j]]
      BY <1>6
<1>9. t = [j \in 1..(k + 1) |-> E[j]]
      BY <1>7, <1>8
<1> QED BY <1>2, <1>3, <1>5, <1>9

\* Of its own manifest the plan is one entry per file, in the order of the export.
LEMMA PlanIsFiles ==
    ASSUME Own
    PROVE  Planned = [k \in 1..Len(export) |-> Entry(Descriptor(export[k], 1))]
<1>1. PICK n : n = Len(export)
      OBVIOUS
<1>2. n \in Nat /\ DOMAIN export = 1..n
      BY <1>1, ExportType DEF Own
<1>3. PICK off : PlacedBy(off)
      BY Placed
<1>4. m.layers \in Seq(Originals)
      BY OriginalsAreLayers DEF Own
<1>5. PICK plan : IsPlan(plan) /\ Planned = plan[Len(m.layers)]
      BY <1>4, PlanUnfolds
<1>6. PICK z : z = Len(m.layers)
      OBVIOUS
<1>7. z \in Nat /\ z = off[n] /\ DOMAIN m.layers = 1..z /\ Planned = plan[z]
      BY <1>1, <1>3, <1>4, <1>5, <1>6 DEF PlacedBy
<1>8. \A i \in 0..z : plan[i] = IF i = 0 THEN <<>>
                                ELSE IF Emits(i) THEN Append(plan[i - 1], Entry(m.layers[i]))
                                ELSE plan[i - 1]
      BY <1>5, <1>6 DEF IsPlan
<1>9. /\ off \in [0..n -> Nat] /\ off[0] = 0
      /\ \A k \in 1..n : off[k] = off[k - 1] + count(export[k])
      BY <1>1, <1>3 DEF PlacedBy
<1>10. PICK E : E = [k \in 1..n |-> Entry(Descriptor(export[k], 1))]
      OBVIOUS
<1>11. ASSUME NEW k \in 1..n, NEW i \in 1..count(export[k]), NEW p, p = off[k - 1] + i
       PROVE  /\ p \in 1..z
              /\ i = 1 => plan[p] = Append(plan[p - 1], E[k])
              /\ i # 1 => plan[p] = plan[p - 1]
  <2>1. p \in 1..z /\ m.layers[p] = Descriptor(export[k], i)
        BY <1>1, <1>3, <1>7, <1>11 DEF PlacedBy
  <2>2. Emits(p) <=> i = 1
        BY <1>1, <1>3, <1>11, FirstEmits
  <2>3. p \in 0..z /\ p # 0
        BY <1>7, <2>1
  <2>4. i = 1 => Entry(m.layers[p]) = E[k]
        BY <1>10, <2>1
  <2>5. i = 1 => plan[p] = Append(plan[p - 1], Entry(m.layers[p]))
        BY <1>8, <2>2, <2>3
  <2>6. i # 1 => plan[p] = plan[p - 1]
        BY <1>8, <2>2, <2>3
  <2>7. i = 1 => plan[p] = Append(plan[p - 1], E[k])
        BY <2>4, <2>5
  <2> QED BY <2>1, <2>6, <2>7
<1> DEFINE F(k) == [j \in 1..k |-> E[j]]
           Good == {k \in Nat : k <= n => plan[off[k]] = F(k)}
<1>12. 0 \in Good
  <2>1. plan[0] = <<>>
        BY <1>7, <1>8
  <2>2. F(0) = <<>>
        OBVIOUS
  <2>3. plan[off[0]] = F(0)
        BY <1>9, <2>1, <2>2
  <2> HIDE DEF F
  <2> QED BY <2>3
<1>13. ASSUME NEW k \in Nat, k \in Good PROVE k + 1 \in Good
  <2> SUFFICES ASSUME k + 1 <= n PROVE plan[off[k + 1]] = F(k + 1)
      OBVIOUS
  <2>1. PICK K, b, c : K = k + 1 /\ b = off[k] /\ c = count(export[K])
        OBVIOUS
  <2>2. K \in 1..n /\ K - 1 = k /\ k \in 0..n /\ k <= n
        BY <1>2, <2>1
  <2>3. c \in Nat \ {0} /\ b \in Nat /\ off[K] = b + c
    <3>1. c \in Nat \ {0}
          BY <1>2, <2>1, <2>2, ExportType, CountType DEF Own
    <3> QED BY <1>9, <2>1, <2>2, <3>1
  <2>4. plan[b] = F(k)
        BY <1>13, <2>1, <2>2
  <2>5. Append(F(k), E[K]) = F(K)
        BY <1>2, <2>1, OneMore
  <2> HIDE DEF F, Good
  <2> DEFINE In == {i \in Nat : i + 1 <= c => plan[b + (i + 1)] = F(K)}
  <2>6. 0 \in In
    <3>1. 1 \in 1..c /\ (b + 1) - 1 = b
          BY <2>3
    <3>2. plan[b + 1] = Append(plan[(b + 1) - 1], E[K])
          BY <1>11, <2>1, <2>2, <3>1
    <3>3. plan[b + (0 + 1)] = F(K)
          BY <2>4, <2>5, <3>1, <3>2, SMTT(30)
    <3> QED BY <3>3
  <2>7. ASSUME NEW i \in Nat, i \in In PROVE i + 1 \in In
    <3> SUFFICES ASSUME (i + 1) + 1 <= c PROVE plan[b + ((i + 1) + 1)] = F(K)
        OBVIOUS
    <3>1. PICK q, p : q = (i + 1) + 1 /\ p = b + q
          OBVIOUS
    <3>2. q \in 1..c /\ q # 1 /\ p - 1 = b + (i + 1) /\ i + 1 <= c
          BY <2>3, <3>1
    <3>3. plan[p] = plan[p - 1]
          BY <1>11, <2>1, <2>2, <3>1, <3>2
    <3>4. plan[b + (i + 1)] = F(K)
          BY <2>7, <3>2
    <3> QED BY <3>1, <3>2, <3>3, <3>4
  <2> HIDE DEF In
  <2>8. Nat \subseteq In
        BY <2>6, <2>7, Induction
  <2>9. PICK l : l = c - 1
        OBVIOUS
  <2>10. l \in Nat /\ l + 1 <= c /\ b + (l + 1) = off[K]
        BY <2>3, <2>9
  <2>11. l \in In
        BY <2>8, <2>10
  <2>12. plan[b + (l + 1)] = F(K)
        BY <2>10, <2>11 DEF In
  <2> QED BY <2>1, <2>10, <2>12
<1>14. n \in Good
  <2> HIDE DEF Good
  <2> QED BY <1>2, <1>12, <1>13, Induction
<1>15. plan[off[n]] = F(n)
      BY <1>2, <1>14
<1>16. F(n) = E
      BY <1>10
<1> HIDE DEF F
<1> QED BY <1>1, <1>7, <1>10, <1>15, <1>16

\* Joining one sequence.
LEMMA JoinOne ==
    ASSUME NEW U, NEW x \in Seq(U)
    PROVE  FlattenSeq([i \in 1..1 |-> x]) = x
<1>1. PICK P : P = [i \in 1..1 |-> x]
      OBVIOUS
<1>2. P \in Seq(Seq(U)) /\ Len(P) = 1
  <2>1. PICK V : V = Seq(U)
        OBVIOUS
  <2>2. x \in V /\ DOMAIN P = 1..1
        BY <1>1, <2>1
  <2>3. P \in Seq(V) /\ Len(P) = 1
        BY <1>1, <2>2
  <2> QED BY <2>1, <2>3
<1>6. Len(P) # 0
      BY <1>2
<1>3. PICK g : Joined(P, g) /\ FlattenSeq(P) = g[Len(P)]
      BY <1>2, <1>6, FlattenUnfolds
<1>4. g[1] = P[1]
  <2>1. PICK n : n = Len(P)
        OBVIOUS
  <2>2. g = [i \in 1..n |-> IF i = 1 THEN P[i] ELSE g[i - 1] \o P[i]] /\ n = 1
        BY <1>2, <1>3, <2>1 DEF Joined
  <2>3. 1 \in 1..n
        BY <2>2
  <2> QED BY <2>2, <2>3
<1>5. FlattenSeq(P) = x
      BY <1>1, <1>2, <1>3, <1>4
<1> QED BY <1>1, <1>5

\* The blobs of a file make up its bytes.
LEMMA OwnParts ==
    ASSUME export \in Exports, mode \in PushModes, NEW k \in DOMAIN export, NEW P,
           P = [i \in 1..count(export[k]) |-> Part(export[k], i)]
    PROVE  FlattenSeq(P) = export[k].data
<1>1. PICK f, c, n : f = export[k] /\ c = mode.chunk /\ n = count(f)
      OBVIOUS
<1>2. PICK U : f.data \in Seq(U)
      BY <1>1, FormatAssumption
<1>3. PICK data : data = f.data
      OBVIOUS
<1>4. data \in Seq(U) /\ Len(data) \in Nat
      BY <1>2, <1>3
<1>5. n \in Nat \ {0} /\ c \in Nat
      BY <1>1, ExportType, CountType
<1>6. CASE Chunked(f)
  <2>1. c \in Nat \ {0}
        BY <1>1, <1>5, <1>6 DEF Chunked
  <2>2. n = (Len(data) + c - 1) \div c
        BY <1>1, <1>3, <1>6 DEF count
  <2>3. P = [i \in 1..n |-> SubSeq(data, (i - 1) * c + 1, AtMost(i * c, Len(data)))]
        BY <1>1, <1>3, <1>6 DEF Part
  <2>4. IsCut(P, data, c, n)
        BY <2>2, <2>3 DEF IsCut
  <2>5. FlattenSeq(P) = data
        BY <1>4, <1>5, <2>1, <2>4, CutAndJoin
  <2> QED BY <1>1, <1>3, <2>5
<1>7. CASE ~Chunked(f)
  <2>1. n = 1
        BY <1>1, <1>7 DEF count
  <2>2. P = [i \in 1..1 |-> data]
        BY <1>1, <1>3, <1>7, <2>1 DEF Part
  <2>3. FlattenSeq([i \in 1..1 |-> data]) = data
        BY <1>4, JoinOne
  <2> QED BY <1>1, <1>3, <2>2, <2>3
<1> QED BY <1>6, <1>7

\* The fields of an entry.
LEMMA EntrySays ==
    ASSUME NEW d, NEW e, e = Entry(d)
    PROVE  /\ e.title = d.title /\ e.meta = Meta(cfg, d.title) /\ e.layer = d
           /\ e.encoded <=> IsEncoded(d)
           /\ IsEncoded(d) => e.chunks = resolveEncodedFile(d)
           /\ ~IsEncoded(d) => e.chunks = <<>>
<1>1. CASE IsEncoded(d)
  <2>1. IsEncoded(d) = TRUE
        BY <1>1 DEF IsEncoded
  <2>2. e = [title |-> d.title, meta |-> Meta(cfg, d.title), layer |-> d, encoded |-> TRUE,
             chunks |-> resolveEncodedFile(d)]
        BY <2>1 DEF Entry
  <2> QED BY <1>1, <2>2
<1>2. CASE ~IsEncoded(d)
  <2>1. IsEncoded(d) = FALSE
        BY <1>2 DEF IsEncoded
  <2>2. e = [title |-> d.title, meta |-> Meta(cfg, d.title), layer |-> d, encoded |-> FALSE,
             chunks |-> <<>>]
        BY <2>1 DEF Entry
  <2> QED BY <1>2, <2>2
<1> QED BY <1>1, <1>2

\* The entry of a file reads the blobs of that file, in order.
LEMMA OwnBlobs ==
    ASSUME Own, NEW k \in DOMAIN export, NEW e, e = Entry(Descriptor(export[k], 1))
    PROVE  Blobs(e) = [i \in 1..count(export[k]) |-> Descriptor(export[k], i).digest]
<1>1. PICK f, n, d : f = export[k] /\ n = count(f) /\ d = Descriptor(f, 1)
      OBVIOUS
<1>2. n \in Nat \ {0} /\ Len(export) \in Nat /\ DOMAIN export = 1..Len(export)
      BY <1>1, ExportType, CountType DEF Own
<1>3. d.title = f.name /\ (IsEncoded(d) <=> n >= 2 \/ compress(f))
      BY <1>1, OwnEncoded, DescriptorSays
<1>4. PICK meta : meta = Meta(cfg, d.title)
      OBVIOUS
<1>5. /\ n < 2 => meta.chunks = <<>>
      /\ n >= 2 => /\ meta.chunks = [i \in 1..n |-> Descriptor(f, i).digest]
                   /\ meta.chunks # <<>> /\ DOMAIN meta.chunks = 1..n
      BY <1>1, <1>2, <1>3, <1>4, OwnMeta, FileMetaSays
<1>6. CASE n >= 2
  <2>1. e.encoded /\ e.chunks = resolveEncodedFile(d)
        BY <1>1, <1>3, <1>6, EntrySays
  <2>2. e.chunks = [i \in 1..n |-> CHOOSE x \in ToSet(m.layers) : x.digest = meta.chunks[i]]
    <3>1. meta.chunks # <<>> /\ DOMAIN meta.chunks = 1..n
          BY <1>5, <1>6
    <3> QED BY <1>4, <2>1, <3>1 DEF resolveEncodedFile
  <2>3. ASSUME NEW i \in 1..n PROVE e.chunks[i].digest = Descriptor(f, i).digest
    <3>1. PICK off : PlacedBy(off)
          BY Placed
    <3>2. PICK j : j \in DOMAIN m.layers /\ m.layers[j] = Descriptor(f, i)
          BY <1>1, <1>2, <3>1 DEF PlacedBy
    <3>3. \E x \in ToSet(m.layers) : x.digest = meta.chunks[i]
      <4>1. meta.chunks[i] = Descriptor(f, i).digest
            BY <1>5, <1>6
      <4>2. m.layers[j] \in ToSet(m.layers)
            BY <3>2 DEF ToSet
      <4> QED BY <3>2, <4>1, <4>2
    <3>4. PICK x : x = CHOOSE y \in ToSet(m.layers) : y.digest = meta.chunks[i]
          OBVIOUS
    <3>5. x.digest = meta.chunks[i]
          BY <3>3, <3>4
    <3>6. e.chunks[i] = x
          BY <2>2, <3>4
    <3> QED BY <1>5, <1>6, <3>5, <3>6
  <2>4. DOMAIN e.chunks = 1..n
        BY <2>2
  <2> QED BY <1>1, <2>1, <2>3, <2>4 DEF Blobs
<1>7. CASE n < 2
  <2>1. n = 1
        BY <1>2, <1>7
  <2>2. CASE compress(f)
    <3>1. e.encoded /\ e.chunks = resolveEncodedFile(d)
          BY <1>1, <1>3, <2>2, EntrySays
    <3>2. e.chunks = <<d>>
          BY <1>4, <1>5, <1>7, <3>1 DEF resolveEncodedFile
    <3>3. DOMAIN e.chunks = 1..1 /\ e.chunks[1] = d
          BY <3>2
    <3>4. Blobs(e) = [i \in 1..1 |-> e.chunks[i].digest]
          BY <3>1, <3>3 DEF Blobs
    <3> QED BY <1>1, <2>1, <3>3, <3>4
  <2>3. CASE ~compress(f)
    <3>1. ~e.encoded /\ e.layer = d
          BY <1>1, <1>2, <1>3, <1>7, <2>3, EntrySays
    <3>2. Blobs(e) = <<d.digest>>
          BY <3>1 DEF Blobs
    <3>3. <<d.digest>> = [i \in 1..1 |-> d.digest]
          OBVIOUS
    <3>4. [i \in 1..1 |-> d.digest] = [i \in 1..1 |-> Descriptor(f, i).digest]
          BY <1>1
    <3> QED BY <1>1, <2>1, <3>2, <3>3, <3>4
  <2> QED BY <2>2, <2>3
<1> QED BY <1>2, <1>6, <1>7

\* A blob is a sequence, and its size is a number.
LEMMA PartType ==
    ASSUME export \in Exports, mode \in PushModes, NEW k \in DOMAIN export,
           NEW i \in 1..count(export[k])
    PROVE  /\ \A U : export[k].data \in Seq(U) => Part(export[k], i) \in Seq(U)
           /\ Descriptor(export[k], i).size \in Nat
<1>1. PICK f, c : f = export[k] /\ c = mode.chunk
      OBVIOUS
<1>2. PICK W : f.data \in Seq(W)
      BY <1>1, FormatAssumption
<1>3. c \in Nat /\ Len(f.data) \in Nat /\ i \in Nat \ {0}
      BY <1>1, ExportType, CountType
<1>4. PICK p : p = Part(f, i)
      OBVIOUS
<1>5. ASSUME NEW U, f.data \in Seq(U) PROVE p \in Seq(U)
  <2>1. CASE Chunked(f)
    <3>1. PICK lo, hi : lo = (i - 1) * c + 1 /\ hi = AtMost(i * c, Len(f.data))
          OBVIOUS
    <3>2. lo \in Nat \ {0} /\ hi \in Nat /\ hi <= Len(f.data)
      <4>1. i * c \in Nat /\ (i - 1) * c \in Nat
            BY <1>3
      <4> QED BY <1>3, <3>1, <4>1 DEF AtMost
    <3>3. p = SubSeq(f.data, lo, hi)
          BY <1>1, <1>4, <2>1, <3>1 DEF Part
    <3>4. CASE lo <= hi
          BY <1>5, <3>2, <3>3, <3>4
    <3>5. CASE ~(lo <= hi)
          BY <1>5, <3>2, <3>3, <3>5
    <3> QED BY <3>4, <3>5
  <2>2. CASE ~Chunked(f)
        BY <1>4, <1>5, <2>2 DEF Part
  <2> QED BY <2>1, <2>2
<1>6. PICK n : n = Len(p)
      OBVIOUS
<1>7. n \in Nat /\ DOMAIN p = 1..n
      BY <1>2, <1>5, <1>6
<1>8. IsFiniteSet(ToSet(p))
      BY <1>7, FiniteImage DEF ToSet
<1>9. Cardinality(ToSet(p)) \in Nat
      BY <1>8, FS_CardinalityType
<1>10. PICK b : b = Descriptor(f, i).digest
      OBVIOUS
<1>11. b.data = p /\ Descriptor(f, i).size = StoredSize(b)
  <2>1. /\ b = [enc |-> IF compress(f) THEN "zstd" ELSE "raw", data |-> p]
        /\ Descriptor(f, i).size = StoredSize(b)
        BY <1>4, <1>10, DescriptorSays
  <2> QED BY <2>1
<1>12. StoredSize(b) \in Nat
      BY <1>6, <1>7, <1>9, <1>11 DEF StoredSize
<1> QED BY <1>1, <1>4, <1>5, <1>11, <1>12

\* An entry that reads the blobs of a file, in order and the way they are encoded,
\* delivers its bytes.
LEMMA ReadsAsWritten ==
    ASSUME export \in Exports, mode \in PushModes, NEW k \in DOMAIN export, NEW e,
           Blobs(e) = [i \in 1..count(export[k]) |-> Descriptor(export[k], i).digest],
           e.layer.type.zstd <=> compress(export[k])
    PROVE  Assembled(e) = export[k].data /\ DecodedAsEncoded(e)
<1>1. PICK f, n, B : f = export[k] /\ n = count(f) /\ B = Blobs(e)
      OBVIOUS
<1>2. B = [i \in 1..n |-> Descriptor(f, i).digest]
      BY <1>1
<1>3. ASSUME NEW i \in 1..n
      PROVE  B[i].data = Part(f, i) /\ B[i].enc = IF compress(f) THEN "zstd" ELSE "raw"
  <2>1. B[i] = [enc |-> IF compress(f) THEN "zstd" ELSE "raw", data |-> Part(f, i)]
        BY <1>2, DescriptorSays
  <2> QED BY <2>1
<1>4. Assembled(e) = f.data
  <2>1. PICK P : P = [i \in 1..n |-> Part(f, i)]
        OBVIOUS
  <2>2. [i \in DOMAIN B |-> B[i].data] = P
        BY <1>2, <1>3, <2>1
  <2>3. FlattenSeq(P) = f.data
        BY <1>1, <2>1, OwnParts
  <2>4. Assembled(e) = FlattenSeq([i \in DOMAIN B |-> B[i].data])
        BY <1>1 DEF Assembled
  <2> QED BY <2>2, <2>3, <2>4
<1>5. DecodedAsEncoded(e)
  <2>1. ASSUME NEW b \in ToSet(B) PROVE b.enc = IF e.layer.type.zstd THEN "zstd" ELSE "raw"
    <3>1. PICK i \in 1..n : b = B[i]
          BY <1>2 DEF ToSet
    <3> QED BY <1>1, <1>3, <3>1
  <2> QED BY <1>1, <2>1 DEF DecodedAsEncoded, IsZstdMediaType
<1> QED BY <1>1, <1>4, <1>5

\* The header of a file has the holes of the file, unless it is refused.
LEMMA SparseHeader ==
    ASSUME export \in Exports, NEW k \in DOMAIN export, NEW x,
           \/ x = export[k].sparse
           \/ x = [export[k].sparse EXCEPT !.size = 0] /\ ~NoSparseSize(x)
    PROVE  export[k].sparse = IF x.map = NoSparse.map THEN NoSparse ELSE x
<1>1. PICK y : y = export[k].sparse
      OBVIOUS
<1>2. y \in [map : STRING, size : Int] /\ (y.map = NoSparse.map => y.size = 0)
      BY <1>1, EngineAssumption
<1>3. y.map = NoSparse.map => y = NoSparse
  <2>1. y = [map |-> y.map, size |-> y.size]
        BY <1>2
  <2> QED BY <1>2, <2>1 DEF NoSparse
<1>4. CASE x = y
      BY <1>1, <1>3, <1>4
<1>5. CASE x = [y EXCEPT !.size = 0] /\ ~NoSparseSize(x)
  <2>1. x.map = y.map /\ x.size = 0
        BY <1>2, <1>5
  <2>2. y.map = NoSparse.map
        BY <1>5, <2>1 DEF NoSparseSize
  <2> QED BY <1>1, <1>3, <2>1, <2>2
<1> QED BY <1>1, <1>4, <1>5

\* The entry of a file is the file.
LEMMA EntryDelivers ==
    ASSUME Own, NEW k \in DOMAIN export, NEW e, e = Entry(Descriptor(export[k], 1))
    PROVE  /\ SizeChecked(e) /\ Delivers(e, export[k])
           /\ HeaderRefused(e) => NoSparseSize(export[k].sparse)
<1>1. PICK f, n, d : f = export[k] /\ n = count(f) /\ d = Descriptor(f, 1)
      OBVIOUS
<1>2. n \in Nat \ {0} /\ Len(f.data) \in Nat
      BY <1>1, ExportType, CountType DEF Own
<1>3. /\ e.title = d.title /\ e.meta = Meta(cfg, d.title) /\ e.layer = d
      /\ e.encoded <=> IsEncoded(d)
      BY <1>1, EntrySays
<1>4. /\ d.title = f.name /\ d.size = StoredSize(d.digest)
      /\ d.digest = [enc |-> IF compress(f) THEN "zstd" ELSE "raw", data |-> Part(f, 1)]
      /\ d.type.zstd <=> compress(f)
      BY <1>1, DescriptorSays
<1>5. e.meta.mode = f.mode /\ e.meta.sparse = f.sparse /\ e.meta.size = Len(f.data)
  <2>1. e.meta = FileMeta(f)
        BY <1>1, <1>3, <1>4, OwnMeta
  <2>2. /\ FileMeta(f).mode = f.mode /\ FileMeta(f).sparse = f.sparse
        /\ FileMeta(f).size = Len(f.data)
        BY <1>1, <1>2, FileMetaSays
  <2> QED BY <2>1, <2>2
<1>6. PICK B : B = Blobs(e)
      OBVIOUS
<1>7. B = [i \in 1..n |-> Descriptor(f, i).digest]
      BY <1>1, <1>6, OwnBlobs
<1>8. ASSUME NEW i \in 1..n
      PROVE  B[i].data = Part(f, i) /\ B[i].enc = IF compress(f) THEN "zstd" ELSE "raw"
  <2>1. B[i] = [enc |-> IF compress(f) THEN "zstd" ELSE "raw", data |-> Part(f, i)]
        BY <1>7, DescriptorSays
  <2> QED BY <2>1
<1>9. Assembled(e) = f.data /\ DecodedAsEncoded(e)
      BY <1>1, <1>3, <1>4, <1>6, <1>7, ReadsAsWritten DEF Own
<1>11. PICK z : z = IF e.encoded THEN e.meta.size ELSE e.layer.size
      OBVIOUS
<1>12. z = Len(f.data)
  <2>1. CASE e.encoded
        BY <1>5, <1>11, <2>1
  <2>2. CASE ~e.encoded
    <3>1. ~compress(f) /\ n < 2
          BY <1>1, <1>2, <1>3, <2>2, OwnEncoded
    <3>3. Part(f, 1) = f.data
      <4>1. Assembled(e) = f.data /\ n = 1
            BY <1>2, <1>9, <3>1
      <4>2. B = [i \in 1..1 |-> d.digest]
            BY <1>1, <1>7, <4>1
      <4>3. [i \in DOMAIN B |-> B[i].data] = [i \in 1..1 |-> Part(f, 1)]
            BY <1>8, <4>1, <4>2
      <4>4. \E U : Part(f, 1) \in Seq(U)
        <5>1. PICK U : f.data \in Seq(U)
              BY <1>1, FormatAssumption DEF Own
        <5> QED BY <1>1, <1>2, <5>1, PartType DEF Own
      <4>5. FlattenSeq([i \in 1..1 |-> Part(f, 1)]) = Part(f, 1)
            BY <4>4, JoinOne
      <4>6. Assembled(e) = FlattenSeq([i \in DOMAIN B |-> B[i].data])
            BY <1>6 DEF Assembled
      <4> QED BY <4>1, <4>3, <4>5, <4>6
    <3>4. d.digest.enc = "raw" /\ d.digest.data = f.data
          BY <1>4, <3>1, <3>3
    <3>5. d.size = Len(f.data)
          BY <1>4, <3>4 DEF StoredSize
    <3> QED BY <1>3, <1>11, <2>2, <3>5
  <2> QED BY <2>1, <2>2
<1>10. f.sparse = IF e.meta.sparse.map = NoSparse.map THEN NoSparse ELSE e.meta.sparse
      BY <1>1, <1>5, SparseHeader DEF Own
<1>13. layerHeader(e) = [name |-> f.name, size |-> Len(f.data),
                         mode |-> IF f.mode = 0 THEN 640 ELSE f.mode, sparse |-> f.sparse]
      BY <1>3, <1>4, <1>5, <1>10, <1>11, <1>12 DEF layerHeader
<1>14. SizeChecked(e)
  <2>1. layerHeader(e).size = Len(f.data)
        BY <1>13
  <2> QED BY <1>9, <2>1 DEF SizeChecked
<1>15. HeaderRefused(e) => NoSparseSize(f.sparse)
      BY <1>5 DEF HeaderRefused
<1>16. Delivers(e, f)
      BY <1>9, <1>13 DEF Delivers
<1> QED BY <1>1, <1>14, <1>15, <1>16

\* The version markers.
LEMMA OwnMarkers ==
    ASSUME Own
    PROVE  /\ m.artifact \in {"snapshot.v1", "snapshot.v2"} /\ m.config = "snapshot.config"
           /\ (\E k \in DOMAIN export : Encoded(export[k])) => m.artifact = "snapshot.v2"
           /\ ClassifyParsed(m) = "snapshot"
<1>1. PICK v : v = snapshotVersionMarkers.artifact
      OBVIOUS
<1>2. /\ v \in {"snapshot.v1", "snapshot.v2"}
      /\ (\E k \in DOMAIN export : Encoded(export[k])) => v = "snapshot.v2"
      BY <1>1 DEF snapshotVersionMarkers
<1>3. m.artifact = v /\ m.config = "snapshot.config"
      BY <1>1 DEF Own, buildSnapshotManifest
<1>4. ClassifyParsed(m) = "snapshot"
      BY <1>2, <1>3 DEF ClassifyParsed
<1> QED BY <1>2, <1>3, <1>4

\* No check of Stream refuses what this pusher published.
LEMMA OwnAccepted ==
    ASSUME Own
    PROVE  LayersValid /\ AllResolved
<1>1. \A k \in DOMAIN export : count(export[k]) \in Nat \ {0} /\ Len(export[k].data) \in Nat
  <2>1. ASSUME NEW k \in DOMAIN export
        PROVE  count(export[k]) \in Nat \ {0} /\ Len(export[k].data) \in Nat
        BY ExportType, CountType DEF Own
  <2> QED BY <2>1
<1>2. ASSUME NEW j \in DOMAIN m.layers
      PROVE  \E k \in DOMAIN export : \E i \in 1..count(export[k]) :
               m.layers[j] = Descriptor(export[k], i)
  <2>1. m.layers \in Seq(Originals)
        BY OriginalsAreLayers DEF Own
  <2>2. m.layers[j] \in Originals
        BY <2>1
  <2> QED BY <2>2, OriginalsAreLayers DEF Own
<1>3. ASSUME NEW k \in DOMAIN export PROVE compress(export[k]) => m.artifact = "snapshot.v2"
      BY OwnMarkers DEF Encoded
<1>4. ASSUME NEW j \in DOMAIN m.layers, NEW d, d = m.layers[j]
      PROVE  /\ d.size >= 0 /\ IsSnapshotLayerMediaType(d.type) /\ d.title # NoTitle
             /\ IsZstdMediaType(d.type) => m.artifact = "snapshot.v2"
  <2>1. PICK k \in DOMAIN export : \E i \in 1..count(export[k]) :
          m.layers[j] = Descriptor(export[k], i)
        BY <1>2
  <2>2. PICK i \in 1..count(export[k]) : d = Descriptor(export[k], i)
        BY <1>4, <2>1
  <2>3. d.size \in Nat
        BY <2>2, PartType DEF Own
  <2>4. d.title = export[k].name /\ (d.type.zstd <=> compress(export[k]))
        BY <2>2, DescriptorSays
  <2>5. IsSnapshotLayerMediaType(d.type)
        BY <2>2, DescriptorSays
  <2>6. d.title # NoTitle
        BY <2>4, EngineAssumption DEF Own
  <2>7. IsZstdMediaType(d.type) => m.artifact = "snapshot.v2"
        BY <1>3, <2>4 DEF IsZstdMediaType
  <2>8. d.size >= 0
        BY <2>3
  <2> QED BY <2>5, <2>6, <2>7, <2>8
<1>5. ASSUME m.artifact # "snapshot.v2", NEW name \in DOMAIN cfg.files
      PROVE  cfg.files[name].chunks = <<>>
  <2>1. PICK k \in DOMAIN export : cfg.files[name] = FileMeta(export[k])
        BY FilesAreMeta DEF Own
  <2>2. ~Encoded(export[k])
        BY <1>5, OwnMarkers
  <2>3. count(export[k]) = 1
        BY <2>2 DEF count, Chunked
  <2>4. count(export[k]) \in Nat \ {0} /\ count(export[k]) < 2
        BY <1>1, <2>3
  <2>5. FileMeta(export[k]).chunks = <<>>
        BY <2>4, FileMetaSays
  <2> QED BY <2>1, <2>5
<1>6. LayersValid
      BY <1>4, <1>5 DEF LayersValid
<1>7. ASSUME NEW j \in DOMAIN m.layers, IsEncoded(m.layers[j]) PROVE Resolvable(m.layers[j])
  <2>1. PICK k \in DOMAIN export : \E i \in 1..count(export[k]) :
          m.layers[j] = Descriptor(export[k], i)
        BY <1>2
  <2>2. PICK i \in 1..count(export[k]) : m.layers[j] = Descriptor(export[k], i)
        BY <2>1
  <2>3. PICK f, d, n : f = export[k] /\ d = m.layers[j] /\ n = count(f)
        OBVIOUS
  <2>4. d.title = f.name
    <3>1. Descriptor(export[k], i).title = export[k].name
          BY DescriptorSays
    <3> QED BY <2>2, <2>3, <3>1
  <2>5. n >= 2 \/ compress(f)
        BY <1>7, <2>2, <2>3, OwnEncoded
  <2>6. PICK meta : meta = Meta(cfg, d.title)
        OBVIOUS
  <2>7. n \in Nat \ {0} /\ Len(f.data) \in Nat /\ meta = FileMeta(f)
        BY <1>1, <2>3, <2>4, <2>6, OwnMeta
  <2>8. /\ meta.size = Len(f.data) /\ (n < 2 => meta.chunks = <<>>)
        /\ n >= 2 => /\ meta.chunks = [x \in 1..n |-> Descriptor(f, x).digest]
                     /\ DOMAIN meta.chunks = 1..n
        BY <2>3, <2>7, FileMetaSays
  <2>9. Len(f.data) > 0
    <3>1. CASE n >= 2
      <4>1. count(f) # 1
            BY <2>3, <2>7, <3>1
      <4>2. Len(f.data) # 0
            BY <2>7, <4>1, CountType DEF Own
      <4> QED BY <2>7, <4>2
    <3>2. CASE compress(f)
          BY <2>7, <3>2, SizesAssumption DEF compress, compressMin
    <3> QED BY <2>5, <3>1, <3>2
  <2>10. ASSUME NEW b \in ToSet(meta.chunks) PROVE b \in {x.digest : x \in ToSet(m.layers)}
    <3>1. CASE n < 2
      <4>1. ToSet(<<>>) = {}
            BY DEF ToSet
      <4> QED BY <2>8, <2>10, <3>1, <4>1
    <3>2. CASE n >= 2
      <4>1. PICK x \in 1..n : b = Descriptor(f, x).digest
            BY <2>8, <3>2 DEF ToSet
      <4>2. PICK off : PlacedBy(off)
            BY Placed
      <4>3. k \in 1..Len(export) /\ x \in 1..count(export[k])
            BY <2>3, ExportType DEF Own
      <4>4. off[k - 1] + x \in DOMAIN m.layers /\ m.layers[off[k - 1] + x] = Descriptor(f, x)
            BY <2>3, <4>2, <4>3 DEF PlacedBy
      <4>5. Descriptor(f, x) \in ToSet(m.layers)
            BY <4>4 DEF ToSet
      <4> QED BY <4>1, <4>5
    <3> QED BY <2>7, <3>1, <3>2
  <2> QED BY <2>3, <2>6, <2>8, <2>9, <2>10 DEF Resolvable
<1>8. AllResolved
      BY <1>7 DEF AllResolved
<1> QED BY <1>6, <1>8

\* Replacing the name of an engine config leaves the rest.
LEMMA Renamed ==
    ASSUME NEW n, NEW x, NEW r, NEW g, g = [name |-> n, rest |-> r]
    PROVE  [g EXCEPT !.name = x] = [name |-> x, rest |-> r]
<1>1. g \in [name : {n}, rest : {r}]
      OBVIOUS
<1>2. [g EXCEPT !.name = x] \in [name : {x}, rest : {r}]
      BY <1>1
<1> QED BY <1>2

\* Of the pusher's own manifest only a fetch can fail, and the cap on the config.
TooLarge == ConfigSize(SnapshotConfig) > maxSnapshotConfigSize
Allowed(e) == e \in {None, "fetch"} \/ (e = "config too large" /\ TooLarge)
NoRefusal == writer = "this" => Allowed(err)

\* No step refuses it.
LEMMA NoRefusalStep ==
    ASSUME FInv, NoRefusal, [Next]_vars
    PROVE  NoRefusal'
<1>12. TooLarge' <=> TooLarge
  <2>1. UNCHANGED <<export, mode>>
        BY DEF Next, vars, Push, Rewrite, OtherWriter, pickIndexChild, NotIndex,
               FetchSnapshotConfig, Validate, planLayers, newChunkPipeline, Stopped
  <2>2. SnapshotConfig' = SnapshotConfig
        BY <2>1, ExportKept
  <2> QED BY <2>2 DEF TooLarge
<1> SUFFICES ASSUME writer' = "this" PROVE Allowed(err')
    BY <1>12 DEF NoRefusal, Allowed
<1>1. CASE Push
      BY <1>1 DEF Push, NoRefusal
<1>2. CASE Rewrite
  <2>1. export \in Exports /\ mode \in PushModes /\ m = buildSnapshotManifest /\ cfg = SnapshotConfig
        BY <1>2 DEF Rewrite, FInv
  <2> QED BY <1>2, <2>1, RewritePublishes
<1>3. CASE UNCHANGED vars
      BY <1>3 DEF vars, NoRefusal
<1>4. CASE Stopped
      BY <1>3, <1>4 DEF Stopped
<1>5. ASSUME UNCHANGED writer, pc # "push" PROVE Own /\ Allowed(err)
      BY <1>5 DEF FInv, Own, NoRefusal
<1>6. CASE pickIndexChild
  <2>1. pc = "published" /\ UNCHANGED writer /\ ClassifyParsed(m) = "image-index"
        BY <1>6 DEF pickIndexChild
  <2> QED BY <1>5, <2>1, OwnMarkers
<1>7. CASE NotIndex
      BY <1>5, <1>7 DEF NotIndex, Goto
<1>8. CASE FetchSnapshotConfig
  <2>1. Own /\ Allowed(err)
        BY <1>5, <1>8 DEF FetchSnapshotConfig
  <2>2. ClassifyParsed(m) = "snapshot" /\ m.config = "snapshot.config"
        BY <2>1, OwnMarkers
  <2>3. cfg = SnapshotConfig
        BY <2>1 DEF Own
  <2>4. \/ err' = err \/ err' = "fetch"
        \/ err' = "config too large" /\ ConfigSize(cfg) > maxSnapshotConfigSize
        BY <1>8, <2>2 DEF FetchSnapshotConfig, Goto, Fail
  <2> QED BY <2>1, <2>3, <2>4 DEF Allowed, TooLarge
<1>9. CASE Validate
  <2>1. Own /\ Allowed(err)
        BY <1>5, <1>9 DEF Validate
  <2> QED BY <1>9, <2>1, OwnAccepted DEF Validate, Goto, Fail
<1>10. CASE planLayers
  <2>1. Own /\ Allowed(err)
        BY <1>5, <1>10 DEF planLayers
  <2> QED BY <1>10, <2>1, OwnAccepted DEF planLayers, Goto, Fail, AllResolved
<1>11. CASE newChunkPipeline
      BY <1>5, <1>11 DEF newChunkPipeline, Goto
<1> QED BY <1>1, <1>2, <1>3, <1>4, <1>6, <1>7, <1>8, <1>9, <1>10, <1>11 DEF Next

\* Whatever the export and the options of push and pull, Stream refuses what this
\* pusher published for two reasons only, both of which the push could have seen: the
\* config is above the reader's cap, or the header of a file whose sparse map came
\* without a size.  Otherwise the plan delivers every file of the export, in order,
\* byte for byte and under its own header, and the engine's config.
THEOREM OwnSnapshotsArePullable == Spec => []PushedIsPullable
<1>1. FInv /\ NoRefusal => PushedIsPullable
  <2> SUFFICES ASSUME FInv, NoRefusal, writer = "this" PROVE PushedIsPullable
      BY DEF PushedIsPullable
  <2>1. /\ err \in {None, "fetch", "config too large"}
        /\ err = "config too large" => ConfigSize(SnapshotConfig) > maxSnapshotConfigSize
        BY DEF NoRefusal, Allowed, TooLarge, None
  <2>2. ASSUME pc = "streaming"
        PROVE  /\ Len(entries) = Len(export)
               /\ \A k \in DOMAIN entries :
                    /\ SizeChecked(entries[k]) /\ Delivers(entries[k], export[k])
                    /\ HeaderRefused(entries[k]) => NoSparseSize(export[k].sparse)
               /\ exportEnvelope("local") = [name |-> "local", rest |-> "engine fields"]
    <3>1. Own /\ entries = Planned
          BY <2>2 DEF FInv, Own
    <3>2. PICK n : n = Len(export)
          OBVIOUS
    <3>3. n \in Nat /\ DOMAIN export = 1..n
          BY <3>1, <3>2, ExportType DEF Own
    <3>4. entries = [k \in 1..n |-> Entry(Descriptor(export[k], 1))]
          BY <3>1, <3>2, PlanIsFiles
    <3>5. Len(entries) = n /\ DOMAIN entries = 1..n
          BY <3>3, <3>4
    <3>6. ASSUME NEW k \in DOMAIN entries
          PROVE  /\ SizeChecked(entries[k]) /\ Delivers(entries[k], export[k])
                 /\ HeaderRefused(entries[k]) => NoSparseSize(export[k].sparse)
      <4>1. k \in DOMAIN export /\ entries[k] = Entry(Descriptor(export[k], 1))
            BY <3>3, <3>4, <3>5
      <4> QED BY <3>1, <4>1, EntryDelivers
    <3>7. exportEnvelope("local") = [name |-> "local", rest |-> "engine fields"]
      <4>1. PICK g : g = cfg.engine
            OBVIOUS
      <4>2. g = [name |-> "exported", rest |-> "engine fields"]
            BY <3>1, <4>1 DEF Own, SnapshotConfig
      <4>3. g # NoEngine
        <5>1. g.name = "exported"
              BY <4>2
        <5>2. NoEngine.name = "none"
              BY DEF NoEngine, None
        <5> QED BY <5>1, <5>2
      <4>4. exportEnvelope("local") = [g EXCEPT !.name = "local"]
            BY <4>1, <4>3 DEF exportEnvelope
      <4>5. [g EXCEPT !.name = "local"] = [name |-> "local", rest |-> "engine fields"]
        <5>1. PICK n0, x, r : n0 = "exported" /\ x = "local" /\ r = "engine fields"
              OBVIOUS
        <5>2. g = [name |-> n0, rest |-> r]
              BY <4>2, <5>1
        <5>3. [g EXCEPT !.name = x] = [name |-> x, rest |-> r]
              BY <5>2, Renamed
        <5> QED BY <5>1, <5>3
      <4> QED BY <4>4, <4>5
    <3> QED BY <3>2, <3>5, <3>6, <3>7
  <2> QED BY <2>1, <2>2 DEF PushedIsPullable
<1>2. Init => NoRefusal
      BY DEF Init, NoRefusal, Allowed
<1>3. FInv /\ NoRefusal /\ [Next]_vars => NoRefusal'
      BY NoRefusalStep
<1> QED BY <1>1, <1>2, <1>3, FormatInvariant, PTL DEF Spec

-----------------------------------------------------------------------------
(* What Stream makes of any manifest it accepts.                           *)

\* The chunk list of a file that was split may be short, but it is there.
LEMMA KnownMeta ==
    ASSUME Known, NEW k \in DOMAIN export, NEW y, y = Meta(cfg, export[k].name)
    PROVE  /\ IsMeta(y, k) /\ count(export[k]) \in Nat \ {0}
           /\ y.chunks # <<>> <=> count(export[k]) >= 2
<1>1. export \in Exports /\ mode \in PushModes /\ FilesOK(cfg.files)
      BY DEF Known
<1>2. export[k].name \in DOMAIN cfg.files /\ y = cfg.files[export[k].name]
      BY <1>1 DEF FilesOK, Meta
<1>3. PICK j \in DOMAIN export : export[j].name = export[k].name /\ IsMeta(y, j)
      BY <1>1, <1>2 DEF FilesOK
<1>4. IsMeta(y, k)
      BY <1>1, <1>3, ExportType
<1>5. PICK n : n = count(export[k]) /\ n \in Nat \ {0}
      BY <1>1, ExportType, CountType
<1>6. ASSUME n >= 2 PROVE y.chunks # <<>>
  <2>1. PICK all : all = FileMeta(export[k]).chunks
        OBVIOUS
  <2>2. all = [i \in 1..n |-> Descriptor(export[k], i).digest]
        BY <1>5, <1>6, <2>1, FileMetaSays
  <2>3. PICK D : D = {Descriptor(export[k], i).digest : i \in 1..n}
        OBVIOUS
  <2>4. all \in Seq(D) /\ Len(all) = n
    <3>1. \A i \in 1..n : Descriptor(export[k], i).digest \in D
          BY <2>3
    <3> QED BY <1>5, <2>2, <3>1
  <2>5. Len(Tail(all)) = n - 1
        BY <1>6, <2>4
  <2>6. Len(<<>>) = 0
        OBVIOUS
  <2>7. y.chunks \in {all, Tail(all)}
        BY <1>4, <2>1 DEF IsMeta
  <2> QED BY <1>5, <1>6, <2>4, <2>5, <2>6, <2>7
<1>7. ASSUME y.chunks # <<>> PROVE n >= 2
      BY <1>1, <1>4, <1>5, <1>7, ChunkList
<1> QED BY <1>4, <1>5, <1>6, <1>7

\* If no file was left out or written twice, a layer has an entry exactly if it is
\* the first one with its title.
LEMMA EmitsFirst ==
    ASSUME Known, writer \notin Partial, NEW p \in DOMAIN m.layers
    PROVE  Emits(p) <=> \A j \in 1..(p - 1) : m.layers[j].title # m.layers[p].title
<1>1. PICK S : m.layers \in Seq(S)
      BY DEF Known, LayersOK, AllLayers
<1>2. ASSUME NEW j \in 1..(p - 1), m.layers[j].title = m.layers[p].title
      PROVE  IsEncoded(m.layers[j]) /\ IsEncoded(m.layers[p])
  <2>1. j \in DOMAIN m.layers /\ j # p
    <3>1. PICK z : z = Len(m.layers) /\ z \in Nat /\ DOMAIN m.layers = 1..z
          BY <1>1
    <3> QED BY <3>1
  <2>2. m.layers[p] \in ToSet(m.layers)
        BY DEF ToSet
  <2>3. PICK k \in DOMAIN export : m.layers[p].title = export[k].name
        BY <2>2, ValidLayer
  <2>4. count(export[k]) >= 2
        BY <1>2, <2>1, <2>3 DEF Known, LayersOK, OnePerFile
  <2>5. Meta(cfg, export[k].name).chunks # <<>>
        BY <2>4, KnownMeta
  <2> QED BY <1>2, <2>3, <2>5 DEF IsEncoded
<1> QED BY <1>2 DEF Emits

\* The plan has the entry of every layer that has one, and no other.
LEMMA PlanCounts ==
    ASSUME NEW S, m.layers \in Seq(S)
    PROVE  /\ Len(Planned) = Cardinality({p \in DOMAIN m.layers : Emits(p)})
           /\ \A p \in DOMAIN m.layers : Emits(p) => Entry(m.layers[p]) \in ToSet(Planned)
<1>1. PICK plan : IsPlan(plan) /\ Planned = plan[Len(m.layers)]
      BY PlanUnfolds
<1>2. PICK n : n = Len(m.layers)
      OBVIOUS
<1>3. n \in Nat /\ DOMAIN m.layers = 1..n
      BY <1>2
<1>4. \A i \in 0..n : plan[i] = IF i = 0 THEN <<>>
                                ELSE IF Emits(i) THEN Append(plan[i - 1], Entry(m.layers[i]))
                                ELSE plan[i - 1]
      BY <1>1, <1>2 DEF IsPlan
<1>5. PICK X : X = {Entry(m.layers[j]) : j \in 1..n}
      OBVIOUS
<1> DEFINE F(i) == {p \in 1..i : Emits(p)}
           Good == {i \in Nat : i <= n => /\ plan[i] \in Seq(X) /\ IsFiniteSet(F(i))
                                          /\ Len(plan[i]) = Cardinality(F(i))
                                          /\ \A p \in F(i) : Entry(m.layers[p]) \in ToSet(plan[i])}
<1>6. 0 \in Good
  <2>1. F(0) = {}
        OBVIOUS
  <2>2. IsFiniteSet({}) /\ Cardinality({}) = 0
        BY FS_EmptySet
  <2>3. plan[0] = <<>>
        BY <1>3, <1>4
  <2>4. plan[0] \in Seq(X) /\ Len(plan[0]) = 0
        BY <2>3
  <2> HIDE DEF F
  <2> QED BY <2>1, <2>2, <2>4
<1>7. ASSUME NEW i \in Nat, i \in Good PROVE i + 1 \in Good
  <2> SUFFICES ASSUME i + 1 <= n
               PROVE  /\ plan[i + 1] \in Seq(X) /\ IsFiniteSet(F(i + 1))
                      /\ Len(plan[i + 1]) = Cardinality(F(i + 1))
                      /\ \A p \in F(i + 1) : Entry(m.layers[p]) \in ToSet(plan[i + 1])
      OBVIOUS
  <2>1. PICK j, s : j = i + 1 /\ s = plan[i]
        OBVIOUS
  <2>2. j \in 1..n /\ j \in 0..n /\ j # 0 /\ j - 1 = i /\ i <= n
        BY <1>3, <2>1
  <2>3. /\ s \in Seq(X) /\ IsFiniteSet(F(i)) /\ Len(s) = Cardinality(F(i))
        /\ \A p \in F(i) : Entry(m.layers[p]) \in ToSet(s)
        BY <1>7, <2>1, <2>2
  <2>4. CASE Emits(j)
    <3>1. PICK e : e = Entry(m.layers[j])
          OBVIOUS
    <3>2. e \in X /\ plan[j] = Append(s, e)
          BY <1>4, <1>5, <2>1, <2>2, <2>4, <3>1
    <3>3. F(j) = F(i) \cup {j} /\ j \notin F(i)
          BY <2>1, <2>2, <2>4
    <3> HIDE DEF F
    <3>4. IsFiniteSet(F(j)) /\ Cardinality(F(j)) = Cardinality(F(i)) + 1
          BY <2>3, <3>3, FS_AddElement
    <3>5. PICK t : t = Append(s, e)
          OBVIOUS
    <3>6. /\ t \in Seq(X) /\ Len(t) = Len(s) + 1 /\ t[Len(s) + 1] = e
          /\ \A x \in 1..Len(s) : t[x] = s[x]
          BY <2>3, <3>2, <3>5
    <3>7. DOMAIN s = 1..Len(s) /\ DOMAIN t = 1..(Len(s) + 1) /\ Len(s) \in Nat
          BY <2>3, <3>6
    <3>8. \A p \in F(j) : Entry(m.layers[p]) \in ToSet(t)
      <4>1. e \in ToSet(t)
        <5>1. Len(s) + 1 \in DOMAIN t
              BY <3>7
        <5> QED BY <3>6, <5>1 DEF ToSet
      <4>2. ASSUME NEW x \in ToSet(s) PROVE x \in ToSet(t)
        <5>1. PICK z \in DOMAIN s : x = s[z]
              BY DEF ToSet
        <5>2. z \in DOMAIN t /\ t[z] = x
              BY <3>6, <3>7, <5>1
        <5> QED BY <5>2 DEF ToSet
      <4> QED BY <2>3, <3>1, <3>3, <4>1, <4>2
    <3>9. plan[j] = t
          BY <3>2, <3>5
    <3>10. Len(t) = Cardinality(F(j))
          BY <2>3, <3>4, <3>6
    <3> QED BY <2>1, <3>4, <3>6, <3>8, <3>9, <3>10
  <2>5. CASE ~Emits(j)
    <3>1. plan[j] = s
          BY <1>4, <2>1, <2>2, <2>5
    <3>2. F(j) = F(i)
          BY <2>1, <2>2, <2>5
    <3> HIDE DEF F
    <3> QED BY <2>1, <2>3, <3>1, <3>2
  <2> QED BY <2>4, <2>5
<1> HIDE DEF Good
<1>8. n \in Good
      BY <1>3, <1>6, <1>7, Induction
<1>9. /\ Len(plan[n]) = Cardinality(F(n))
      /\ \A p \in F(n) : Entry(m.layers[p]) \in ToSet(plan[n])
  <2> HIDE DEF F
  <2> QED BY <1>3, <1>8 DEF Good
<1> QED BY <1>1, <1>2, <1>3, <1>9

\* Every title of a layer has an entry.
LEMMA TitleEmits ==
    ASSUME NEW S, m.layers \in Seq(S), NEW p \in DOMAIN m.layers
    PROVE  \E q \in DOMAIN m.layers : Emits(q) /\ m.layers[q].title = m.layers[p].title
<1>1. PICK n, t : n = Len(m.layers) /\ t = m.layers[p].title
      OBVIOUS
<1>2. n \in Nat /\ DOMAIN m.layers = 1..n
      BY <1>1
<1> DEFINE Good == {i \in Nat : \A x \in 1..n : x <= i /\ m.layers[x].title = t =>
                      \E q \in 1..n : Emits(q) /\ m.layers[q].title = t}
<1>3. 0 \in Good
      OBVIOUS
<1>4. ASSUME NEW i \in Nat, i \in Good PROVE i + 1 \in Good
  <2> SUFFICES ASSUME NEW x \in 1..n, x <= i + 1, m.layers[x].title = t
               PROVE  \E q \in 1..n : Emits(q) /\ m.layers[q].title = t
      OBVIOUS
  <2>1. CASE Emits(x)
        BY <2>1
  <2>2. CASE ~Emits(x)
    <3>1. PICK j \in 1..(x - 1) : m.layers[j].title = m.layers[x].title
          BY <2>2 DEF Emits
    <3>2. j \in 1..n /\ j <= i
          BY <1>2
    <3> QED BY <1>4, <3>1, <3>2
  <2> QED BY <2>1, <2>2
<1> HIDE DEF Good
<1>5. n \in Good
      BY <1>2, <1>3, <1>4, Induction
<1>6. p \in 1..n /\ p <= n
      BY <1>2
<1> QED BY <1>1, <1>2, <1>5, <1>6 DEF Good

\* Then every file of the export has one entry.
LEMMA OneEntryEach ==
    ASSUME Known, writer \notin Partial
    PROVE  /\ Len(Planned) = Len(export)
           /\ \A k \in DOMAIN export : \E p \in DOMAIN m.layers :
                Emits(p) /\ m.layers[p].title = export[k].name
<1>1. PICK S : m.layers \in Seq(S)
      BY DEF Known, LayersOK, AllLayers
<1>2. PICK n, N : n = Len(m.layers) /\ N = Len(export)
      OBVIOUS
<1>3. n \in Nat /\ DOMAIN m.layers = 1..n
      BY <1>1, <1>2
<1>4. N \in Nat /\ DOMAIN export = 1..N /\ \A j, k \in 1..N : export[j].name = export[k].name => j = k
      BY <1>2, ExportType DEF Known
<1>5. ASSUME NEW p \in 1..n PROVE \E k \in 1..N : m.layers[p].title = export[k].name
  <2>1. m.layers[p] \in ToSet(m.layers)
        BY <1>3 DEF ToSet
  <2> QED BY <1>4, <2>1, ValidLayer
<1>6. ASSUME NEW k \in 1..N PROVE \E p \in 1..n : Emits(p) /\ m.layers[p].title = export[k].name
  <2>1. PICK p \in 1..n : m.layers[p].title = export[k].name
    <3>1. \A p \in DOMAIN m.layers : m.layers[p].title # NoTitle
          BY DEF Known, LayersValid
    <3> QED BY <1>3, <1>4, <3>1 DEF Known, LayersOK, OnePerFile
  <2> QED BY <1>1, <1>3, <2>1, TitleEmits
<1> DEFINE E == {p \in 1..n : Emits(p)}
           f == [p \in E |-> CHOOSE k \in 1..N : m.layers[p].title = export[k].name]
<1>7. ASSUME NEW p \in E PROVE f[p] \in 1..N /\ m.layers[p].title = export[f[p]].name
      BY <1>5
<1>8. ASSUME NEW p \in E, NEW q \in E, f[p] = f[q] PROVE p = q
  <2>1. m.layers[p].title = m.layers[q].title
        BY <1>7, <1>8
  <2>2. ASSUME NEW x \in E, NEW y \in E, m.layers[x].title = m.layers[y].title PROVE ~(x < y)
    <3> SUFFICES ASSUME x < y PROVE FALSE
        OBVIOUS
    <3>1. x \in 1..(y - 1) /\ y \in DOMAIN m.layers /\ Emits(y)
          BY <1>3
    <3> QED BY <2>2, <3>1, EmitsFirst
  <2>3. ~(p < q) /\ ~(q < p)
        BY <2>1, <2>2
  <2> QED BY <1>3, <2>3
<1>9. ASSUME NEW k \in 1..N PROVE \E p \in E : f[p] = k
  <2>1. PICK p \in 1..n : Emits(p) /\ m.layers[p].title = export[k].name
        BY <1>6
  <2>2. p \in E
        BY <2>1
  <2>3. export[f[p]].name = export[k].name /\ f[p] \in 1..N
        BY <1>7, <2>1, <2>2
  <2> HIDE DEF f, E
  <2> QED BY <1>4, <2>2, <2>3
<1>10. E \subseteq 1..n /\ f \in [E -> 1..N]
  <2>1. DOMAIN f = E /\ f = [p \in E |-> f[p]]
        OBVIOUS
  <2>2. E \subseteq 1..n
        OBVIOUS
  <2> HIDE DEF f, E
  <2> QED BY <1>7, <2>1, <2>2
<1>11. PICK D : D = 1..N
      OBVIOUS
<1>12. ExistsBijection(E, D)
  <2> HIDE DEF f, E
  <2>1. f \in Injection(E, D)
        BY <1>8, <1>10, <1>11 DEF Injection, IsInjective
  <2>2. f \in Surjection(E, D)
        BY <1>9, <1>10, <1>11 DEF Surjection
  <2> QED BY <2>1, <2>2 DEF ExistsBijection, Bijection
<1>13. IsFiniteSet(1..n) /\ Cardinality(D) = N
  <2>1. 1 \in Int /\ n \in Int /\ N \in Int /\ N - 1 + 1 = N
        BY <1>3, <1>4
  <2>2. Cardinality(1..N) = IF 1 > N THEN 0 ELSE N - 1 + 1
        BY <2>1, FS_Interval
  <2>3. Cardinality(1..N) = N
        BY <1>4, <2>2
  <2>4. IsFiniteSet(1..n)
        BY <2>1, FS_Interval
  <2> QED BY <1>11, <2>3, <2>4
<1>14. Cardinality(E) = N
  <2> HIDE DEF f, E
  <2>1. IsFiniteSet(E)
        BY <1>10, <1>13, FS_Subset
  <2>2. Cardinality(D) = Cardinality(E)
        BY <1>12, <2>1, FS_Bijection
  <2> QED BY <1>13, <2>2
<1>15. Len(Planned) = N
      BY <1>1, <1>3, <1>14, PlanCounts
<1> QED BY <1>2, <1>3, <1>4, <1>6, <1>15

\* A function on 1..n is a sequence of n elements.
LEMMA IsSequence ==
    ASSUME NEW V, NEW n \in Nat, NEW s \in [1..n -> V]
    PROVE  s \in Seq(V) /\ Len(s) = n
  OBVIOUS

\* Without its first sequence, if that is not empty, the whole is shorter.
LEMMA TailIsShorter ==
    ASSUME NEW T, NEW s \in Seq(Seq(T)), Len(s) >= 1, Len(s[1]) # 0
    PROVE  Len(FlattenSeq(Tail(s))) # Len(FlattenSeq(s))
<1>1. PICK n, t : n = Len(s) /\ t = Tail(s)
      OBVIOUS
<1>2. PICK V : V = Seq(T)
      OBVIOUS
<1>3. s \in Seq(V) /\ s # <<>> /\ n \in Nat \ {0}
      BY <1>1, <1>2
<1>4. t \in Seq(V) /\ Len(t) = n - 1 /\ \A i \in 1..(n - 1) : t[i] = s[i + 1]
      BY <1>1, <1>3
<1>5. t \in Seq(Seq(T)) /\ s[1] \in Seq(T)
      BY <1>2, <1>3, <1>4
<1>6. PICK off : Offsets(s, off)
      BY OffsetsExist
<1>7. PICK cut : Offsets(t, cut)
      BY <1>5, OffsetsExist
<1>8. /\ off \in [0..n -> Nat] /\ off[0] = 0
      /\ \A i \in 1..n : off[i] = off[i - 1] + Len(s[i])
      BY <1>1, <1>6 DEF Offsets
<1>9. /\ cut \in [0..(n - 1) -> Nat] /\ cut[0] = 0
      /\ \A i \in 1..(n - 1) : cut[i] = cut[i - 1] + Len(t[i])
      BY <1>4, <1>7 DEF Offsets
<1>10. PICK l : l = Len(s[1])
      OBVIOUS
<1>11. l \in Nat \ {0} /\ off[1] = l
  <2>1. l \in Nat \ {0}
        BY <1>5, <1>10
  <2>2. 1 \in 1..n /\ 1 - 1 = 0
        BY <1>3
  <2>3. off[1] = 0 + l
        BY <1>8, <1>10, <2>2
  <2> QED BY <2>1, <2>3
<1> DEFINE Good == {i \in Nat : i <= n - 1 => off[i + 1] = l + cut[i]}
<1>12. 0 \in Good
  <2>1. off[0 + 1] = l + cut[0]
        BY <1>9, <1>11
  <2> QED BY <2>1
<1>13. ASSUME NEW i \in Nat, i \in Good PROVE i + 1 \in Good
  <2> SUFFICES ASSUME i + 1 <= n - 1 PROVE off[(i + 1) + 1] = l + cut[i + 1]
      OBVIOUS
  <2>1. PICK j, k : j = i + 1 /\ k = (i + 1) + 1
        OBVIOUS
  <2>2. /\ j \in 1..(n - 1) /\ j - 1 = i /\ k \in 1..n /\ k - 1 = j /\ j + 1 = k
        /\ i \in 0..(n - 1) /\ i <= n - 1
        BY <1>3, <2>1
  <2>3. off[k] = off[j] + Len(s[k]) /\ cut[j] = cut[i] + Len(t[j]) /\ t[j] = s[k]
        BY <1>4, <1>8, <1>9, <2>2
  <2>4. off[j] = l + cut[i] /\ cut[i] \in Nat
        BY <1>9, <1>13, <2>1, <2>2
  <2>5. PICK z : z = Len(s[k])
        OBVIOUS
  <2>6. z \in Nat
        BY <1>1, <2>2, <2>5
  <2>7. off[k] = (l + cut[i]) + z /\ cut[j] = cut[i] + z
        BY <2>3, <2>4, <2>5
  <2> QED BY <1>11, <2>1, <2>4, <2>6, <2>7
<1> HIDE DEF Good
<1>14. Nat \subseteq Good
      BY <1>12, <1>13, Induction
<1>15. PICK z : z = n - 1
      OBVIOUS
<1>16. z \in Nat /\ z <= n - 1 /\ z + 1 = n /\ z \in 0..(n - 1)
      BY <1>3, <1>15
<1>17. off[n] = l + cut[z] /\ cut[z] \in Nat
  <2>1. off[z + 1] = l + cut[z]
        BY <1>14, <1>16 DEF Good
  <2> QED BY <1>9, <1>16, <2>1
<1>18. Len(FlattenSeq(s)) = off[n]
      BY <1>1, <1>6, FlattenLays DEF Laid
<1>19. Len(FlattenSeq(t)) = cut[z]
      BY <1>4, <1>5, <1>7, <1>15, FlattenLays DEF Laid
<1>20. off[n] # cut[z]
      BY <1>11, <1>17
<1> QED BY <1>1, <1>18, <1>19, <1>20

\* Without its first chunk a file that was split is shorter.
LEMMA TailOfFile ==
    ASSUME export \in Exports, mode \in PushModes, NEW k \in DOMAIN export, NEW P,
           P = [i \in 1..count(export[k]) |-> Part(export[k], i)], count(export[k]) >= 2
    PROVE  Len(FlattenSeq(Tail(P))) # Len(export[k].data)
<1>1. PICK f, c, n : f = export[k] /\ c = mode.chunk /\ n = count(f)
      OBVIOUS
<1>2. PICK U : f.data \in Seq(U)
      BY <1>1, FormatAssumption
<1>3. n \in Nat \ {0} /\ n >= 2 /\ c \in Nat \ {0} /\ Len(f.data) \in Nat \ {0} /\ Chunked(f)
  <2>1. Len(f.data) \in Nat
        BY <1>1, ExportType
  <2>2. n \in Nat \ {0} /\ n >= 2 /\ n # 1 /\ c \in Nat
        BY <1>1, <2>1, CountType
  <2>3. Chunked(f) /\ c # 0 /\ Len(f.data) # 0
        BY <1>1, <2>1, <2>2, CountType
  <2> QED BY <2>1, <2>2, <2>3
<1>4. \A i \in 1..n : Part(f, i) \in Seq(U)
      BY <1>1, <1>2, PartType
<1>5. P \in Seq(Seq(U)) /\ Len(P) = n
  <2>1. PICK V : V = Seq(U)
        OBVIOUS
  <2>2. P \in [1..n -> V]
        BY <1>1, <1>4, <2>1
  <2>3. P \in Seq(V) /\ Len(P) = n
        BY <1>3, <2>2, IsSequence
  <2> QED BY <2>1, <2>3
<1>6. Len(P[1]) # 0
  <2>1. PICK hi : hi = AtMost(1 * c, Len(f.data))
        OBVIOUS
  <2>2. hi \in 1..Len(f.data)
        BY <1>3, <2>1 DEF AtMost
  <2>3. P[1] = SubSeq(f.data, 1, hi)
    <3>1. 1 \in 1..n /\ (1 - 1) * c + 1 = 1
          BY <1>3
    <3>2. P[1] = Part(f, 1)
          BY <1>1, <3>1
    <3> QED BY <1>1, <1>3, <2>1, <3>1, <3>2 DEF Part
  <2>4. Len(SubSeq(f.data, 1, hi)) = hi
        BY <1>2, <2>2
  <2> QED BY <2>2, <2>3, <2>4
<1>7. FlattenSeq(P) = f.data
      BY <1>1, OwnParts
<1>8. Len(FlattenSeq(Tail(P))) # Len(FlattenSeq(P))
  <2>1. Len(P) >= 1
    <3>1. Len(P) = n
          BY <1>5, Zenon
    <3>2. n >= 1
          BY <1>3
    <3> QED BY <3>1, <3>2, Zenon
  <2> QED BY <1>5, <1>6, <2>1, TailIsShorter
<1> QED BY <1>1, <1>7, <1>8

\* The digests of a file's blobs.
Digests(k) == [i \in 1..count(export[k]) |-> Descriptor(export[k], i).digest]

\* The blobs an entry reads are those of its file, in order, or lack the first.
LEMMA KnownBlobs ==
    ASSUME Known, NEW p \in DOMAIN m.layers, NEW k \in DOMAIN export,
           IsEncoded(m.layers[p]) => Resolvable(m.layers[p]),
           m.layers[p].title = export[k].name, NEW e, e = Entry(m.layers[p])
    PROVE  \/ Blobs(e) = Digests(k)
           \/ /\ count(export[k]) >= 2 /\ Blobs(e) = Tail(Digests(k))
              /\ layerHeader(e).size = Len(export[k].data)
<1>7. PICK D : D = Digests(k)
      OBVIOUS
<1>1. PICK d, y, n : d = m.layers[p] /\ y = Meta(cfg, export[k].name) /\ n = count(export[k])
      OBVIOUS
<1>2. IsMeta(y, k) /\ n \in Nat \ {0} /\ (y.chunks # <<>> <=> n >= 2)
      BY <1>1, KnownMeta
<1>3. /\ e.meta = y /\ e.layer = d /\ (e.encoded <=> IsEncoded(d))
      /\ IsEncoded(d) => e.chunks = resolveEncodedFile(d)
      BY <1>1, EntrySays
<1>4. CASE n >= 2
  <2>1. y.chunks # <<>> /\ IsEncoded(d)
        BY <1>1, <1>2, <1>4 DEF IsEncoded
  <2>2. y.size > 0 /\ ToSet(y.chunks) \subseteq {x.digest : x \in ToSet(m.layers)}
        BY <1>1, <2>1 DEF Resolvable
  <2>3. PICK Q : y.chunks \in Seq(Q)
        BY <1>2, <2>1, ChunkList DEF Known
  <2>4. e.chunks = [i \in DOMAIN y.chunks |->
                      CHOOSE x \in ToSet(m.layers) : x.digest = y.chunks[i]]
    <3>1. Meta(cfg, d.title) = y
          BY <1>1
    <3>2. e.chunks = resolveEncodedFile(d)
          BY <1>3, <2>1
    <3>3. PICK N : N = Len(y.chunks)
          OBVIOUS
    <3>4. DOMAIN y.chunks = 1..N
          BY <2>3, <3>3
    <3>5. e.chunks = [i \in 1..N |-> CHOOSE x \in ToSet(m.layers) : x.digest = y.chunks[i]]
          BY <2>1, <3>1, <3>2, <3>4 DEF resolveEncodedFile
    <3> QED BY <3>4, <3>5
  <2>5. ASSUME NEW i \in DOMAIN y.chunks PROVE e.chunks[i].digest = y.chunks[i]
    <3>1. y.chunks[i] \in ToSet(y.chunks)
          BY DEF ToSet
    <3>2. \E x \in ToSet(m.layers) : x.digest = y.chunks[i]
          BY <2>2, <3>1
    <3>3. PICK x : x = CHOOSE z \in ToSet(m.layers) : z.digest = y.chunks[i]
          OBVIOUS
    <3>4. x.digest = y.chunks[i]
          BY <3>2, <3>3
    <3> QED BY <2>4, <3>3, <3>4
  <2>6. DOMAIN e.chunks = DOMAIN y.chunks
        BY <2>4
  <2>7. y.chunks = [i \in DOMAIN y.chunks |-> y.chunks[i]]
        BY <2>3
  <2>8. Blobs(e) = [i \in DOMAIN e.chunks |-> e.chunks[i].digest]
        BY <1>3, <2>1 DEF Blobs
  <2>9. Blobs(e) = y.chunks
        BY <2>5, <2>6, <2>7, <2>8
  <2>10. FileMeta(export[k]).chunks = D
        BY <1>1, <1>2, <1>4, <1>7, FileMetaSays DEF Digests
  <2>11. y.chunks \in {D, Tail(D)}
        BY <1>2, <2>10 DEF IsMeta
  <2>12. layerHeader(e).size = Len(export[k].data)
    <3>1. layerHeader(e).size = e.meta.size
          BY <1>3, <2>1 DEF layerHeader
    <3>2. y.size = Len(export[k].data)
          BY <1>2, <2>2 DEF IsMeta
    <3> QED BY <1>3, <3>1, <3>2
  <2> QED BY <1>1, <1>4, <1>7, <2>9, <2>11, <2>12
<1>5. CASE n < 2
  <2>1. n = 1 /\ y.chunks = <<>>
        BY <1>2, <1>5
  <2>2. d \in ToSet(m.layers)
        BY <1>1 DEF ToSet
  <2>3. PICK j \in DOMAIN export : \E i \in 1..count(export[j]) :
          d.digest = Descriptor(export[j], i).digest /\ d.title = export[j].name
        BY <2>2, ValidLayer
  <2>4. j = k
        BY <1>1, <2>3, ExportType DEF Known
  <2>5. d.digest = Descriptor(export[k], 1).digest
    <3>1. PICK i \in 1..count(export[k]) : d.digest = Descriptor(export[k], i).digest
          BY <2>3, <2>4
    <3>2. i = 1
          BY <1>1, <2>1
    <3> QED BY <3>1, <3>2
  <2>6. Blobs(e) = [i \in 1..1 |-> d.digest]
    <3>1. CASE IsEncoded(d)
      <4>1. e.chunks = <<d>>
            BY <1>1, <1>3, <2>1, <3>1 DEF resolveEncodedFile
      <4>2. DOMAIN e.chunks = 1..1 /\ e.chunks[1] = d
            BY <4>1
      <4>3. Blobs(e) = [i \in 1..1 |-> e.chunks[i].digest]
            BY <1>3, <3>1, <4>2 DEF Blobs
      <4> QED BY <4>2, <4>3
    <3>2. CASE ~IsEncoded(d)
      <4>1. Blobs(e) = <<d.digest>>
            BY <1>3, <3>2 DEF Blobs
      <4>2. <<d.digest>> = [i \in 1..1 |-> d.digest]
            OBVIOUS
      <4> QED BY <4>1, <4>2
    <3> QED BY <3>1, <3>2
  <2>7. D = [i \in 1..1 |-> Descriptor(export[k], i).digest]
        BY <1>1, <1>7, <2>1 DEF Digests
  <2>8. D = [i \in 1..1 |-> d.digest]
    <3>1. \A i \in 1..1 : Descriptor(export[k], i).digest = d.digest
          BY <2>5
    <3> QED BY <2>7, <3>1
  <2> QED BY <1>7, <2>6, <2>8
<1>6. n >= 2 \/ n < 2
      BY <1>2
<1> QED BY <1>4, <1>5, <1>6

\* An entry that passes the checks is its file, header included.
LEMMA KnownDelivers ==
    ASSUME Known, NEW p \in DOMAIN m.layers, NEW k \in DOMAIN export,
           IsEncoded(m.layers[p]) => Resolvable(m.layers[p]),
           m.layers[p].title = export[k].name, NEW e, e = Entry(m.layers[p]),
           SizeChecked(e), ~HeaderRefused(e)
    PROVE  e.title = export[k].name /\ Delivers(e, export[k])
<1>1. PICK f, n, d : f = export[k] /\ n = count(f) /\ d = m.layers[p]
      OBVIOUS
<1>2. export \in Exports /\ mode \in PushModes
      BY DEF Known
<1>3. e.meta = Meta(cfg, f.name) /\ e.layer = d /\ e.title = f.name
      BY <1>1, EntrySays
<1>4. IsMeta(e.meta, k) /\ n \in Nat \ {0}
      BY <1>1, <1>3, KnownMeta
<1>5. d.type.zstd <=> compress(f)
  <2>1. d \in ToSet(m.layers)
        BY <1>1 DEF ToSet
  <2>2. PICK j \in DOMAIN export : d.title = export[j].name /\ (d.type.zstd <=> compress(export[j]))
        BY <2>1, ValidLayer
  <2>3. j = k
        BY <1>1, <1>2, <2>2, ExportType
  <2> QED BY <1>1, <2>2, <2>3
<1>6. PICK D, P : /\ D = [i \in 1..n |-> Descriptor(f, i).digest]
                  /\ P = [i \in 1..n |-> Part(f, i)]
      OBVIOUS
<1>7. Blobs(e) = D
  <2>10. D = Digests(k)
        BY <1>1, <1>6 DEF Digests
  <2>11. \/ Blobs(e) = D
         \/ /\ count(export[k]) >= 2 /\ Blobs(e) = Tail(D)
            /\ layerHeader(e).size = Len(export[k].data)
        BY <2>10, KnownBlobs
  <2> SUFFICES ASSUME n >= 2, Blobs(e) = Tail(D), layerHeader(e).size = Len(f.data)
               PROVE  FALSE
      BY <1>1, <2>11, Zenon
  <2>1. PICK Q : Q = {D[i] : i \in 1..n}
        OBVIOUS
  <2>2. D \in Seq(Q) /\ Len(D) = n /\ D # <<>>
    <3>1. \A i \in 1..n : D[i] \in Q
          BY <2>1
    <3>2. D \in [1..n -> Q]
          BY <1>6, <3>1
    <3> QED BY <1>4, <3>2
  <2>3. PICK t : t = Tail(D)
        OBVIOUS
  <2>4. t \in Seq(Q) /\ Len(t) = n - 1 /\ \A i \in 1..(n - 1) : t[i] = D[i + 1]
        BY <2>2, <2>3
  <2>5. DOMAIN t = 1..(n - 1)
        BY <2>4
  <2>6. ASSUME NEW i \in 1..n PROVE D[i].data = Part(f, i)
    <3>1. D[i] = [enc |-> IF compress(f) THEN "zstd" ELSE "raw", data |-> Part(f, i)]
          BY <1>6, DescriptorSays
    <3> QED BY <3>1
  <2>7. [i \in DOMAIN t |-> t[i].data] = Tail(P)
    <3>1. PICK W : W = {Part(f, i) : i \in 1..n}
          OBVIOUS
    <3>2. P \in Seq(W) /\ Len(P) = n /\ P # <<>>
      <4>1. P \in [1..n -> W]
            BY <1>6, <3>1
      <4> QED BY <1>4, <4>1
    <3>3. PICK z : z = Tail(P)
          OBVIOUS
    <3>4. z \in Seq(W) /\ Len(z) = n - 1 /\ \A i \in 1..(n - 1) : z[i] = P[i + 1]
          BY <3>2, <3>3
    <3>5. z = [i \in 1..(n - 1) |-> z[i]]
          BY <3>4
    <3>6. ASSUME NEW i \in 1..(n - 1) PROVE t[i].data = z[i]
      <4>1. i + 1 \in 1..n
            BY <1>4
      <4>2. P[i + 1] = Part(f, i + 1)
            BY <1>6, <4>1
      <4> QED BY <2>4, <2>6, <3>4, <4>1, <4>2
    <3> QED BY <2>5, <3>3, <3>5, <3>6
  <2>8. Assembled(e) = FlattenSeq(Tail(P))
        BY <2>3, <2>7 DEF Assembled
  <2>9. Len(FlattenSeq(Tail(P))) # Len(f.data)
        BY <1>1, <1>2, <1>6, TailOfFile
  <2> QED BY <2>8, <2>9 DEF SizeChecked
<1>8. DecodedAsEncoded(e) /\ Assembled(e) = f.data
      BY <1>1, <1>2, <1>3, <1>5, <1>6, <1>7, ReadsAsWritten
<1>9. f.sparse = IF e.meta.sparse.map = NoSparse.map THEN NoSparse ELSE e.meta.sparse
      BY <1>1, <1>2, <1>4, SparseHeader DEF IsMeta, HeaderRefused
<1>10. e.meta.mode = f.mode
      BY <1>1, <1>4 DEF IsMeta
<1>11. PICK z : z = IF e.encoded THEN e.meta.size ELSE e.layer.size
      OBVIOUS
<1>12. layerHeader(e) = [name |-> f.name, size |-> z,
                         mode |-> IF f.mode = 0 THEN 640 ELSE f.mode, sparse |-> f.sparse]
      BY <1>3, <1>9, <1>10, <1>11 DEF layerHeader
<1>13. z = Len(f.data)
  <2>1. layerHeader(e).size = z
        BY <1>12
  <2> QED BY <1>8, <2>1 DEF SizeChecked
<1> QED BY <1>1, <1>3, <1>8, <1>12, <1>13 DEF Delivers

\* Whatever the export and the options, and whichever of the known differences there
\* is between this pusher and the writer of the manifest, an entry that passes the
\* checks is the file of its title, decoded as it was encoded, byte for byte and under
\* its own header; the titles are those of the layers; and every file of the export is
\* there once, unless the writer left out the only layer of a file or wrote it twice,
\* which nothing in Stream refuses.
THEOREM AcceptedIsAssembledRight == Spec => []NeverMisassembled
<1>1. FInv => NeverMisassembled
  <2> SUFFICES ASSUME FInv, pc = "streaming" PROVE NeverMisassembled
      BY DEF NeverMisassembled
  <2>1. Known /\ AllResolved /\ entries = Planned
        BY DEF FInv, Known
  <2>2. PICK S : m.layers \in Seq(S)
        BY <2>1 DEF Known, LayersOK, AllLayers
  <2>3. ToSet(entries) \subseteq PlanSet
    <3>1. PICK X : X = PlanSet
          OBVIOUS
    <3>2. entries \in Seq(X)
          BY <2>1, <2>2, <3>1, PlannedType DEF AllResolved
    <3>3. \A i \in DOMAIN entries : entries[i] \in X
          BY <3>2
    <3> QED BY <3>1, <3>3 DEF ToSet
  <2>4. ASSUME NEW e \in ToSet(entries)
        PROVE  \E p \in DOMAIN m.layers :
                 /\ e = Entry(m.layers[p]) /\ e.title = m.layers[p].title
                 /\ IsEncoded(m.layers[p]) => Resolvable(m.layers[p])
    <3>1. PICK p \in DOMAIN m.layers : /\ e = Entry(m.layers[p])
                                       /\ IsEncoded(m.layers[p]) => Resolvable(m.layers[p])
          BY <2>3 DEF PlanSet
    <3> QED BY <3>1, EntrySays
  <2>5. ASSUME NEW e \in ToSet(entries), SizeChecked(e), ~HeaderRefused(e)
        PROVE  \E k \in DOMAIN export : e.title = export[k].name /\ Delivers(e, export[k])
    <3>1. PICK p \in DOMAIN m.layers : /\ e = Entry(m.layers[p])
                                       /\ IsEncoded(m.layers[p]) => Resolvable(m.layers[p])
          BY <2>4
    <3>2. m.layers[p] \in ToSet(m.layers)
          BY DEF ToSet
    <3>3. PICK k \in DOMAIN export : m.layers[p].title = export[k].name
          BY <2>1, <3>2, ValidLayer
    <3>4. e.title = export[k].name /\ Delivers(e, export[k])
          BY <2>1, <2>5, <3>1, <3>3, KnownDelivers
    <3> QED BY <3>4
  <2>6. {e.title : e \in ToSet(entries)} = {d.title : d \in ToSet(m.layers)}
    <3>1. ASSUME NEW e \in ToSet(entries) PROVE \E d \in ToSet(m.layers) : e.title = d.title
          BY <2>4 DEF ToSet
    <3>2. ASSUME NEW d \in ToSet(m.layers) PROVE \E e \in ToSet(entries) : e.title = d.title
      <4>1. PICK p \in DOMAIN m.layers : d = m.layers[p]
            BY DEF ToSet
      <4>2. PICK q \in DOMAIN m.layers : Emits(q) /\ m.layers[q].title = d.title
            BY <2>2, <4>1, TitleEmits
      <4>3. Entry(m.layers[q]) \in ToSet(entries)
            BY <2>1, <2>2, <4>2, PlanCounts
      <4>4. Entry(m.layers[q]).title = d.title
            BY <4>2, EntrySays
      <4> QED BY <4>3, <4>4
    <3> QED BY <3>1, <3>2
  <2>7. ASSUME writer \notin Partial
        PROVE  /\ Len(entries) = Len(export)
               /\ {d.title : d \in ToSet(m.layers)} = {f.name : f \in ToSet(export)}
    <3>1. Len(entries) = Len(export)
          BY <2>1, <2>7, OneEntryEach
    <3>2. ASSUME NEW d \in ToSet(m.layers) PROVE \E f \in ToSet(export) : d.title = f.name
          BY <2>1, ValidLayer DEF ToSet
    <3>3. ASSUME NEW f \in ToSet(export) PROVE \E d \in ToSet(m.layers) : d.title = f.name
          BY <2>1, <2>7, OneEntryEach DEF ToSet
    <3> QED BY <3>1, <3>2, <3>3
  <2> QED BY <2>5, <2>6, <2>7 DEF NeverMisassembled, Partial
<1> QED BY <1>1, FormatInvariant, PTL
=============================================================================
