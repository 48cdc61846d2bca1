-------------------------- MODULE CloudImageProofs --------------------------
(***************************************************************************)
(* Proofs about BlobSize and CloudImage: the checker for every announced   *)
(* size, every real size and every buffer the caller may read with; the    *)
(* image for any number of parts in any order.                             *)
(***************************************************************************)
EXTENDS CloudImage, FiniteSetTheorems, TLAPS

-----------------------------------------------------------------------------
(* The checker.                                                            *)

\* The bytes handed out and the bytes left account for the whole blob, the
\* limit for the announced size.
Accounts == /\ size \in Int /\ total \in Nat /\ left \in Nat /\ N \in Int
            /\ delivered \in Nat
            /\ seen \in {"more", "eof", "error"}
            /\ N = size - delivered
            /\ IF size >= 0 THEN N >= 0 ELSE delivered = 0
            /\ seen = "more" /\ ~done => left = total - delivered

\* A verdict "exact" was right, and so was one against the blob.
Exact == done \/ seen = "eof" => /\ delivered = total
                                 /\ size >= 0 => delivered = size

IInv == Accounts /\ NoFalseAlarm /\ (~ZeroReads => Exact)

\* What finish concludes about b remaining bytes under a limit, in a state
\* that accounts for them.
LEMMA Finish ==
    ASSUME NEW b \in Nat, NEW limit \in Int, NEW verdict,
           finish(b, limit, verdict)
    PROVE  /\ left' \in Nat
           /\ verdict = "short" => limit > 0
           /\ verdict = "long" => b > 0 /\ limit <= 0
           /\ verdict = "failed" => failed'
           /\ verdict = "exact" /\ ~ZeroReads => b = 0 /\ limit <= 0
           /\ verdict \in Verdicts
<1>1. CASE limit > 0
  BY <1>1 DEF finish, Verdicts
<1>2. CASE limit <= 0
  <2>1. PICK probe \in Returns(b, 1) :
            /\ left' = b - probe.n
            /\ failed' = (failed \/ probe.err = "fail")
            /\ verdict = IF probe.n > 0 THEN "long"
                         ELSE IF probe.err = "fail" THEN "failed" ELSE "exact"
    BY <1>2 DEF finish
  <2>2. /\ probe.n \in 0..1 /\ probe.n <= b /\ probe.err \in {"nil", "eof", "fail"}
        /\ probe.err = "eof" => probe.n = b
        /\ probe.err = "nil" /\ probe.n = 0 => ZeroReads
    BY DEF Returns
  <2>3. CASE probe.n > 0
    BY <1>2, <2>1, <2>2, <2>3 DEF Verdicts
  <2>4. CASE probe.n = 0 /\ probe.err = "fail"
    <3>1. failed'
      BY <2>1, <2>4, Zenon
    <3>2. left' = b /\ verdict = "failed"
      BY <2>1, <2>4
    <3> QED
      BY <3>1, <3>2 DEF Verdicts
  <2>5. CASE probe.n = 0 /\ probe.err # "fail"
    BY <1>2, <2>1, <2>2, <2>5 DEF Verdicts
  <2> QED
    BY <2>2, <2>3, <2>4, <2>5
<1> QED
  BY <1>1, <1>2

\* What ReadBody does with what the body returned.
BodyRead(r) ==
    /\ N' = N - r.n /\ delivered' = delivered + r.n
    /\ \/ /\ r.err = "nil"
          /\ left' = left - r.n /\ UNCHANGED <<done, failed, seen>>
       \/ /\ r.err = "fail"
          /\ left' = left - r.n /\ failed' = TRUE
          /\ seen' = "error" /\ UNCHANGED done
       \/ /\ r.err = "eof"
          /\ \E verdict \in Verdicts : /\ finish(left - r.n, N - r.n, verdict)
                                       /\ Conclude(r.n, verdict)

\* Every read of the caller preserves the accounts.
LEMMA NextIInv == IInv /\ [Next]_vars => IInv'
<1> SUFFICES ASSUME IInv, [Next]_vars PROVE IInv'
  OBVIOUS
<1> USE DEF IInv, Accounts, Exact, NoFalseAlarm
<1>1. CASE ReadDone
  BY <1>1 DEF ReadDone
<1>2. CASE ReadLimit
  <2>1. PICK verdict \in Verdicts : finish(left, N, verdict) /\ Conclude(0, verdict)
    BY <1>2 DEF ReadLimit
  <2>2. /\ seen = "more" /\ ~done /\ N <= 0
        /\ UNCHANGED <<size, total, N, delivered>>
    BY <1>2 DEF ReadLimit
  <2>3. /\ left' \in Nat
        /\ verdict = "short" => N > 0
        /\ verdict = "long" => left > 0 /\ N <= 0
        /\ verdict = "failed" => failed'
        /\ verdict = "exact" /\ ~ZeroReads => left = 0 /\ N <= 0
    BY <2>1, Finish
  <2>4. CASE verdict = "exact"
    BY <2>1, <2>2, <2>3, <2>4 DEF Conclude
  <2>5. CASE verdict # "exact"
    BY <2>1, <2>2, <2>3, <2>5 DEF Conclude, Verdicts
  <2> QED
    BY <2>4, <2>5
<1>3. CASE ReadBody
  <2>0. PICK len \in 1..MaxRead :
         \E r \in Returns(left, IF len <= N THEN len ELSE N) : BodyRead(r)
    BY <1>3 DEF ReadBody, BodyRead
  <2>1. PICK r \in Returns(left, IF len <= N THEN len ELSE N) : BodyRead(r)
    BY <2>0
  <2>2. seen = "more" /\ ~done /\ N > 0 /\ UNCHANGED <<size, total>>
    BY <1>3 DEF ReadBody
  <2>3. /\ r.n \in Nat /\ r.n <= N /\ r.n <= left
        /\ r.err = "eof" => r.n = left
    BY <2>2, BoundsAssumption DEF Returns
  <2>4. CASE r.err = "nil"
    BY <2>1, <2>2, <2>3, <2>4 DEF BodyRead
  <2>5. CASE r.err = "fail"
    BY <2>1, <2>2, <2>3, <2>5 DEF BodyRead
  <2>6. CASE r.err = "eof"
    <3>1. PICK verdict \in Verdicts : /\ finish(left - r.n, N - r.n, verdict)
                                      /\ Conclude(r.n, verdict)
      BY <2>1, <2>6 DEF BodyRead
    <3>2. left - r.n = 0 /\ N - r.n \in Int
      BY <2>3, <2>6
    <3>3. /\ left' \in Nat
          /\ verdict = "short" => N - r.n > 0
          /\ verdict # "long"
          /\ verdict = "failed" => failed'
          /\ verdict = "exact" /\ ~ZeroReads => N - r.n <= 0
      BY <3>1, <3>2, Finish
    <3>4. delivered' = delivered + r.n /\ N' = N - r.n
      BY <2>1 DEF BodyRead
    <3>5. CASE verdict = "exact"
      BY <2>2, <2>3, <2>6, <3>1, <3>2, <3>3, <3>4, <3>5 DEF Conclude
    <3>6. CASE verdict # "exact"
      BY <2>2, <2>3, <2>6, <3>1, <3>3, <3>4, <3>6 DEF Conclude, Verdicts
    <3> QED
      BY <3>5, <3>6
  <2> QED
    BY <2>1, <2>4, <2>5, <2>6 DEF BodyRead
<1>4. CASE Ended \/ UNCHANGED vars
  BY <1>4 DEF Ended, vars
<1> QED
  BY <1>1, <1>2, <1>3, <1>4 DEF Next

\* The accounts balance in every state of every read.
THEOREM Invariance == Spec => []IInv
<1>1. Init => IInv
  BY BoundsAssumption DEF Init, IInv, Accounts, Exact, NoFalseAlarm
<1> QED
  BY <1>1, NextIInv, PTL DEF Spec

\* Over a body that never returns 0, nil, a blob that is read to its end
\* without an error has exactly the announced size (ociutil.go:20).
THEOREM SizeEnforced == ASSUME ~ZeroReads PROVE Spec => []ExactSize
<1>1. IInv => ExactSize
  BY DEF IInv, Exact, ExactSize
<1> QED
  BY <1>1, Invariance, PTL

\* Over any body, a caller is handed no more than was announced.
THEOREM NothingBeyond == Spec => []NeverBeyond
<1>1. IInv => NeverBeyond
  BY DEF IInv, Accounts, NeverBeyond
<1> QED
  BY <1>1, Invariance, PTL

\* Over any body, a blob of the right size is refused only if its body failed.
THEOREM GoodBlobsPass == Spec => []NoFalseAlarm
<1>1. IInv => NoFalseAlarm
  BY DEF IInv
<1> QED
  BY <1>1, Invariance, PTL

-----------------------------------------------------------------------------
(* Sorting by title.                                                       *)

\* Of two titles at most one sorts before the other.
LEMMA Asymmetry ==
    ASSUME NEW a \in Seq(Nat), NEW b \in Seq(Nat), Before(a, b) PROVE ~Before(b, a)
<1> SUFFICES ASSUME Before(b, a) PROVE FALSE
  OBVIOUS
<1>1. PICK n \in 0..Len(a) : /\ n < Len(b) /\ SubSeq(a, 1, n) = SubSeq(b, 1, n)
                             /\ n < Len(a) => a[n + 1] < b[n + 1]
  BY DEF Before
<1>2. PICK m \in 0..Len(b) : /\ m < Len(a) /\ SubSeq(b, 1, m) = SubSeq(a, 1, m)
                             /\ m < Len(b) => b[m + 1] < a[m + 1]
  BY DEF Before
<1>3. /\ \A k \in 1..n : a[k] = b[k]
      /\ \A k \in 1..m : a[k] = b[k]
  <2>1. ASSUME NEW j \in Nat, j <= Len(a), j <= Len(b), SubSeq(a, 1, j) = SubSeq(b, 1, j),
               NEW k \in 1..j
        PROVE  a[k] = b[k]
    <3>1. SubSeq(a, 1, j)[k] = a[k] /\ SubSeq(b, 1, j)[k] = b[k]
      BY <2>1
    <3> QED
      BY <2>1, <3>1
  <2> QED
    BY <1>1, <1>2, <2>1
<1>4. /\ n + 1 \in 1..Len(b) /\ m + 1 \in 1..Len(a)
  BY <1>1, <1>2
<1>5. CASE n < m
  BY <1>1, <1>2, <1>3, <1>4, <1>5
<1>6. CASE m < n
  BY <1>1, <1>2, <1>3, <1>4, <1>6
<1>7. CASE n = m
  BY <1>1, <1>2, <1>4, <1>7
<1> QED
  BY <1>1, <1>2, <1>5, <1>6, <1>7

\* A strictly increasing map of 1..n to itself moves nothing: the values up to i
\* need i places, and so do those from i on.
LEMMA Identity ==
    ASSUME NEW n \in Nat, NEW q \in [1..n -> 1..n],
           \A i, j \in 1..n : i < j => q[i] < q[j],
           NEW i \in 1..n
    PROVE  q[i] = i
<1>1. \A j, k \in 1..n : q[j] = q[k] => j = k
  OBVIOUS
<1>2. i <= q[i]
  <2> DEFINE f == [j \in 1..i |-> q[j]]
  <2>1. f \in [1..i -> 1..q[i]]
    <3>1. ASSUME NEW j \in 1..i PROVE q[j] \in 1..q[i]
      <4>1. j \in 1..n /\ (j < i \/ j = i)
        OBVIOUS
      <4>2. q[j] \in 1..n /\ q[i] \in 1..n /\ q[j] <= q[i]
        BY <4>1
      <4> QED
        BY <4>2
    <3> QED
      BY <3>1
  <2>2. \A j, k \in 1..i : f[j] = f[k] => j = k
    <3>1. \A j \in 1..i : j \in 1..n /\ f[j] = q[j]
      OBVIOUS
    <3> QED
      BY <1>1, <3>1
  <2>3. f \in Injection(1..i, 1..q[i])
    BY <2>1, <2>2 DEF Injection, IsInjective
  <2>4. Cardinality(1..i) <= Cardinality(1..q[i])
    BY <2>3, FS_Injection, FS_Interval
  <2> QED
    BY <2>4, FS_Interval
<1>3. q[i] <= i
  <2> DEFINE f == [j \in i..n |-> q[j]]
  <2>1. f \in [i..n -> q[i]..n]
    <3>1. ASSUME NEW j \in i..n PROVE q[j] \in q[i]..n
      <4>1. j \in 1..n /\ (i < j \/ j = i)
        OBVIOUS
      <4>2. q[j] \in 1..n /\ q[i] \in 1..n /\ q[i] <= q[j]
        BY <4>1
      <4> QED
        BY <4>2
    <3> QED
      BY <3>1
  <2>2. \A j, k \in i..n : f[j] = f[k] => j = k
    BY <1>1
  <2>3. f \in Injection(i..n, q[i]..n)
    BY <2>1, <2>2 DEF Injection, IsInjective
  <2>4. Cardinality(i..n) <= Cardinality(q[i]..n)
    BY <2>3, FS_Injection, FS_Interval
  <2>5. Cardinality(i..n) = n - i + 1 /\ Cardinality(q[i]..n) = n - q[i] + 1
    BY FS_Interval
  <2> QED
    BY <2>4, <2>5
<1> QED
  BY <1>2, <1>3

\* How diskLayers orders two disks.
Earlier(layers, i, j) == \/ Before(layers[i].title, layers[j].title)
                         \/ layers[i].title = layers[j].title /\ i < j

\* p lists the disks in that order.
Sorts(layers, n, p) ==
    /\ p \in [1..n -> Disks(layers)]
    /\ \A i, j \in 1..n : i < j => Earlier(layers, p[i], p[j])

\* part assigns each part of the disk its layer, in the order of the titles.
Parts(x, part) ==
    /\ part \in [DOMAIN x.disk -> Disks(x.layers)]
    /\ \A d \in Disks(x.layers) : \E i \in DOMAIN x.disk : part[i] = d
    /\ \A i \in DOMAIN x.disk : x.layers[part[i]].digest = x.disk[i]
    /\ \A i, j \in DOMAIN x.disk :
         i < j => Before(x.layers[part[i]].title, x.layers[part[j]].title)

\* There are as many disk layers as parts, each the layer of one.
LEMMA PartsCount ==
    ASSUME NEW x \in Images, NEW part, Parts(x, part)
    PROVE  /\ Cardinality(Disks(x.layers)) = Len(x.disk)
           /\ \A d \in Disks(x.layers) : ~Before(x.layers[d].title, x.layers[d].title)
<1> DEFINE m == Len(x.disk)
           D == Disks(x.layers)
<1>1. m \in Nat /\ DOMAIN x.disk = 1..m
  BY LayersAssumption
<1>2. \A d \in D : x.layers[d].title \in Seq(Nat)
  BY LayersAssumption DEF Disks
<1>3. /\ part \in [1..m -> D]
      /\ \A d \in D : \E i \in 1..m : part[i] = d
      /\ \A i, j \in 1..m :
           i < j => Before(x.layers[part[i]].title, x.layers[part[j]].title)
  BY <1>1 DEF Parts
<1>4. \A d \in D : ~Before(x.layers[d].title, x.layers[d].title)
  BY <1>2, Asymmetry
<1>5. \A i, j \in 1..m : part[i] = part[j] => i = j
  <2> SUFFICES ASSUME NEW i \in 1..m, NEW j \in 1..m, part[i] = part[j], i # j PROVE FALSE
    OBVIOUS
  <2>1. part[i] \in D /\ part[j] \in D
    BY <1>3
  <2>2. i < j \/ j < i
    BY <1>1
  <2> QED
    BY <1>3, <1>4, <2>1, <2>2
<1>6. Cardinality(D) = m
  <2>1. part \in Bijection(1..m, D)
    <3>1. part \in Injection(1..m, D)
      BY <1>3, <1>5 DEF Injection, IsInjective
    <3>2. part \in Surjection(1..m, D)
      BY <1>3 DEF Surjection
    <3> QED
      BY <3>1, <3>2 DEF Bijection
  <2>2. ExistsBijection(1..m, D)
    BY <2>1 DEF ExistsBijection
  <2>3. IsFiniteSet(1..m) /\ Cardinality(1..m) = m
    BY <1>1, FS_Interval
  <2> QED
    BY <2>2, <2>3, FS_Bijection
<1> QED
  BY <1>4, <1>6

\* There is only one way to sort the disk layers.
LEMMA SortIsUnique ==
    ASSUME NEW x \in Images, NEW part, Parts(x, part),
           NEW n, n = Cardinality(Disks(x.layers)), NEW p, Sorts(x.layers, n, p)
    PROVE  n = Len(x.disk) /\ p = part
<1> DEFINE m == Len(x.disk)
           D == Disks(x.layers)
<1>1. m \in Nat /\ DOMAIN x.disk = 1..m
  BY LayersAssumption
<1>2. \A d \in D : x.layers[d].title \in Seq(Nat)
  BY LayersAssumption DEF Disks
<1>3. /\ part \in [1..m -> D]
      /\ \A d \in D : \E i \in 1..m : part[i] = d
      /\ \A i, j \in 1..m :
           i < j => Before(x.layers[part[i]].title, x.layers[part[j]].title)
  BY <1>1 DEF Parts
<1>4. \A d \in D : ~Before(x.layers[d].title, x.layers[d].title)
  BY PartsCount
<1>6. n = m
  BY PartsCount
<1>7. p \in [1..m -> D] /\ \A i, j \in 1..m : i < j => Earlier(x.layers, p[i], p[j])
  BY <1>6 DEF Sorts
<1> DEFINE q == [i \in 1..m |-> CHOOSE k \in 1..m : part[k] = p[i]]
<1>8. \A i \in 1..m : q[i] \in 1..m /\ part[q[i]] = p[i]
  BY <1>3, <1>7
<1>9. q \in [1..m -> 1..m]
  BY <1>8
<1>10. ASSUME NEW i \in 1..m, NEW j \in 1..m, i < j PROVE q[i] < q[j]
  <2> SUFFICES ASSUME ~(q[i] < q[j]) PROVE FALSE
    OBVIOUS
  <2> HIDE DEF q
  <2>1. q[i] \in 1..m /\ q[j] \in 1..m /\ (q[j] < q[i] \/ q[i] = q[j])
    BY <1>1, <1>8
  <2>2. p[i] \in D /\ p[j] \in D /\ Earlier(x.layers, p[i], p[j])
    BY <1>7, <1>10
  <2>3. CASE q[i] = q[j]
    <3>1. p[i] = p[j]
      BY <1>8, <2>3
    <3>2. p[i] \in Nat
      <4>1. DOMAIN x.layers = 1..Len(x.layers) /\ Len(x.layers) \in Nat
        BY LayersAssumption
      <4> QED
        BY <2>2, <4>1 DEF Disks
    <3> QED
      BY <1>4, <2>2, <3>1, <3>2 DEF Earlier
  <2>4. CASE q[j] < q[i]
    <3>1. Before(x.layers[p[j]].title, x.layers[p[i]].title)
      BY <1>3, <1>8, <2>1, <2>4
    <3>2. ~Before(x.layers[p[i]].title, x.layers[p[j]].title)
      BY <1>2, <2>2, <3>1, Asymmetry
    <3>3. x.layers[p[i]].title # x.layers[p[j]].title
      BY <1>4, <2>2, <3>1
    <3> QED
      BY <2>2, <3>2, <3>3 DEF Earlier
  <2> QED
    BY <2>1, <2>3, <2>4
<1>11. \A i \in 1..m : q[i] = i
  <2> HIDE DEF q
  <2> QED
    BY <1>1, <1>9, <1>10, Identity
<1>12. \A i \in 1..m : p[i] = part[i]
  <2> HIDE DEF q
  <2> QED
    BY <1>8, <1>11
<1> QED
  BY <1>3, <1>6, <1>7, <1>12

\* diskLayers gives the layers of the parts, in the order of the disk.
LEMMA DisksInOrder ==
    ASSUME NEW x \in Images
    PROVE  \E part : /\ Parts(x, part)
                     /\ diskLayers(x.layers) = [i \in 1..Len(x.disk) |-> x.layers[part[i]]]
<1> DEFINE n == Cardinality(Disks(x.layers))
<1>1. PICK part : Parts(x, part)
  BY TitlesAssumption DEF Parts
<1>2. DOMAIN x.disk = 1..Len(x.disk) /\ Len(x.disk) \in Nat
  BY LayersAssumption
<1>3. n = Len(x.disk)
  BY <1>1, <1>2, PartsCount
<1>4. Sorts(x.layers, n, part)
  BY <1>1, <1>2, <1>3 DEF Sorts, Parts, Earlier
<1> DEFINE order == CHOOSE p \in [1..n -> Disks(x.layers)] :
                      \A i, j \in 1..n : i < j => Earlier(x.layers, p[i], p[j])
<1>5. Sorts(x.layers, n, order)
  BY <1>4 DEF Sorts
<1>6. order = part
  BY <1>1, <1>5, SortIsUnique
<1>7. diskLayers(x.layers) = [i \in 1..n |-> x.layers[order[i]]]
  BY DEF diskLayers, Earlier
<1>8. diskLayers(x.layers) = [i \in 1..Len(x.disk) |-> x.layers[part[i]]]
  <2> HIDE DEF n, order
  <2> QED
    BY <1>3, <1>6, <1>7, Zenon
<1> QED
  BY <1>1, <1>8, Zenon

-----------------------------------------------------------------------------
(* The image.                                                              *)

LayerSet(x) == {x.layers[i] : i \in DOMAIN x.layers}
Written(x) == [digest : {l.digest : l \in LayerSet(x)}, bytes : Nat]

\* The parts written are the first ones of the disk, whole; those still to copy
\* are the others.  Accounts and Exact are about the one being copied.
Progress ==
    /\ image \in Images
    /\ result = "new" => out = <<>> /\ ~copying
    /\ copying => result = "running"
    /\ result \in {"running", "ok"} =>
         /\ todo \in Seq(LayerSet(image)) /\ out \in Seq(Written(image))
         /\ Len(out) + Len(todo) = Len(image.disk)
         /\ \A i \in 1..Len(todo) : todo[i] = diskLayers(image.layers)[Len(out) + i]
         /\ \A i \in 1..Len(out) :
              /\ out[i].digest = image.disk[i]
              /\ ~ZeroReads => out[i].bytes = diskLayers(image.layers)[i].total
         /\ result = "ok" => Len(todo) = 0
         /\ copying => Len(todo) > 0 /\ total = todo[1].total

ImageInv == IInv /\ Progress

\* What diskLayers returns.
LEMMA DisksAreLayers ==
    ASSUME NEW x \in Images
    PROVE  /\ diskLayers(x.layers) \in Seq(LayerSet(x))
           /\ Len(diskLayers(x.layers)) = Len(x.disk) /\ Len(x.disk) \in Nat
           /\ \A i \in 1..Len(x.disk) : diskLayers(x.layers)[i].digest = x.disk[i]
<1>1. PICK part : /\ Parts(x, part)
                  /\ diskLayers(x.layers) = [i \in 1..Len(x.disk) |-> x.layers[part[i]]]
  BY DisksInOrder
<1>2. Len(x.disk) \in Nat /\ DOMAIN x.disk = 1..Len(x.disk)
  BY LayersAssumption
<1>3. \A i \in 1..Len(x.disk) : /\ x.layers[part[i]] \in LayerSet(x)
                                /\ x.layers[part[i]].digest = x.disk[i]
  BY <1>1, <1>2 DEF Parts, Disks, LayerSet
<1> QED
  BY <1>1, <1>2, <1>3

\* A layer has a size and a blob, and its digest can be written.
LEMMA LayerTypes ==
    ASSUME NEW x \in Images, NEW l \in LayerSet(x), NEW n \in Nat
    PROVE  /\ l.size \in Int /\ l.total \in Nat
           /\ [digest |-> l.digest, bytes |-> n] \in Written(x)
<1>1. l.size \in Int /\ l.total \in Nat
  BY LayersAssumption DEF LayerSet
<1>2. l.digest \in {k.digest : k \in LayerSet(x)}
  OBVIOUS
<1> QED
  BY <1>1, <1>2 DEF Written

\* Nothing is copied in the beginning.
LEMMA ImageInitInv == ASSUME ImageInit PROVE ImageInv
<1>1. IInv
  BY DEF ImageInit, IInv, Accounts, Exact, NoFalseAlarm
<1>2. Progress
  BY DEF ImageInit, Progress
<1> QED
  BY <1>1, <1>2 DEF ImageInv

\* The selection of the layers.
LEMMA StreamStep == ASSUME ImageInv, Stream PROVE ImageInv'
<1>1. IInv'
  BY NextIInv DEF ImageInv, Stream
<1>2. Progress'
  <2>1. /\ image \in Images /\ out = <<>> /\ ~copying /\ todo' = diskLayers(image.layers)
        /\ UNCHANGED <<image, copying, out>> /\ result' \in {"running", "error"}
    BY DEF ImageInv, Progress, Stream
  <2>2. /\ diskLayers(image.layers) \in Seq(LayerSet(image))
        /\ Len(diskLayers(image.layers)) = Len(image.disk) /\ Len(image.disk) \in Nat
    BY <2>1, DisksAreLayers
  <2>3. out \in Seq(Written(image)) /\ Len(out) = 0
    BY <2>1
  <2>4. \A i \in 1..Len(todo') : Len(out) + i = i
    BY <2>1, <2>2, <2>3
  <2> QED
    BY <2>1, <2>2, <2>3, <2>4 DEF Progress
<1> QED
  BY <1>1, <1>2 DEF ImageInv

\* A layer is opened, or its blob cannot be read.
LEMMA OpenStep == ASSUME ImageInv, OpenBlob \/ OpenErr PROVE ImageInv'
<1>1. CASE OpenBlob
  <2>1. /\ image \in Images /\ result = "running" /\ todo \in Seq(LayerSet(image)) /\ todo # <<>>
    BY <1>1 DEF ImageInv, Progress, OpenBlob
  <2>2. Len(todo) > 0 /\ todo[1] \in LayerSet(image)
    BY <2>1
  <2>3. todo[1].size \in Int /\ todo[1].total \in Nat
    BY <2>1, <2>2, LayerTypes
  <2>4. IInv'
    BY <1>1, <2>3 DEF OpenBlob, IInv, Accounts, Exact, NoFalseAlarm
  <2>5. Progress'
    BY <1>1, <2>1, <2>2 DEF ImageInv, Progress, OpenBlob
  <2> QED
    BY <2>4, <2>5 DEF ImageInv
<1>2. CASE OpenErr
  <2>1. IInv'
    BY <1>2, NextIInv DEF ImageInv, OpenErr
  <2>2. Progress'
    BY <1>2 DEF ImageInv, Progress, OpenErr
  <2> QED
    BY <2>1, <2>2 DEF ImageInv
<1> QED
  BY <1>1, <1>2

\* A read of the body, through the checker.
LEMMA CopyStep == ASSUME ImageInv, Copy PROVE ImageInv'
<1>1. IInv'
  BY NextIInv DEF ImageInv, Copy, Next
<1>2. UNCHANGED total
  BY DEF Copy, ReadDone, ReadLimit, ReadBody
<1>3. Progress'
  BY <1>2 DEF ImageInv, Progress, Copy, imageVars
<1> QED
  BY <1>1, <1>3 DEF ImageInv

\* The copy of a layer breaks off.
LEMMA CopyErrStep == ASSUME ImageInv, CopyErr PROVE ImageInv'
<1>1. IInv'
  BY NextIInv DEF ImageInv, CopyErr
<1>2. Progress'
  BY DEF ImageInv, Progress, CopyErr
<1> QED
  BY <1>1, <1>2 DEF ImageInv

\* A layer is done: it was the next part of the disk, and the checker has seen
\* all of it.
LEMMA CopyDoneStep == ASSUME ImageInv, CopyDone PROVE ImageInv'
<1>1. IInv'
  BY NextIInv DEF ImageInv, CopyDone
<1> DEFINE w == [digest |-> todo[1].digest, bytes |-> delivered]
<1>2. /\ image \in Images /\ result = "running" /\ copying
      /\ todo \in Seq(LayerSet(image)) /\ out \in Seq(Written(image))
      /\ Len(out) + Len(todo) = Len(image.disk)
      /\ \A i \in 1..Len(todo) : todo[i] = diskLayers(image.layers)[Len(out) + i]
      /\ \A i \in 1..Len(out) :
           /\ out[i].digest = image.disk[i]
           /\ ~ZeroReads => out[i].bytes = diskLayers(image.layers)[i].total
      /\ Len(todo) > 0 /\ total = todo[1].total
  BY DEF ImageInv, Progress, CopyDone
<1>3. /\ out' = Append(out, w) /\ todo' = Tail(todo) /\ ~copying' /\ image' = image
      /\ result' = IF Len(todo) = 1 THEN "ok" ELSE "running"
  BY DEF CopyDone
<1>4. todo[1] \in LayerSet(image) /\ todo[1] = diskLayers(image.layers)[Len(out) + 1]
  BY <1>2
<1>5. delivered \in Nat /\ (~ZeroReads => delivered = total)
  BY DEF ImageInv, IInv, Accounts, Exact, CopyDone
<1>6. w \in Written(image)
  BY <1>2, <1>4, <1>5, LayerTypes
<1>7. todo[1].digest = image.disk[Len(out) + 1]
  <2>1. Len(out) + 1 \in 1..Len(image.disk)
    BY <1>2
  <2> QED
    BY <1>2, <1>4, <2>1, DisksAreLayers
<1>8. w.digest = todo[1].digest /\ w.bytes = delivered
  OBVIOUS
<1> HIDE DEF w
<1>9. /\ todo' \in Seq(LayerSet(image)) /\ Len(todo') = Len(todo) - 1
      /\ \A i \in 1..Len(todo') : i + 1 \in 1..Len(todo) /\ todo'[i] = todo[i + 1]
      /\ out' \in Seq(Written(image)) /\ Len(out') = Len(out) + 1
      /\ out'[Len(out) + 1] = w /\ \A i \in 1..Len(out) : out'[i] = out[i]
  BY <1>2, <1>3, <1>6
<1>10. \A i \in 1..Len(todo') : todo'[i] = diskLayers(image.layers)[Len(out') + i]
  <2> TAKE i \in 1..Len(todo')
  <2>1. Len(out) + (i + 1) = Len(out') + i
    BY <1>2, <1>9
  <2> QED
    BY <1>2, <1>9, <2>1
<1>11. \A i \in 1..Len(out') :
         /\ out'[i].digest = image.disk[i]
         /\ ~ZeroReads => out'[i].bytes = diskLayers(image.layers)[i].total
  <2> TAKE i \in 1..Len(out')
  <2>1. CASE i \in 1..Len(out)
    BY <1>2, <1>9, <2>1
  <2>2. CASE i = Len(out) + 1
    BY <1>2, <1>4, <1>5, <1>7, <1>8, <1>9, <2>2
  <2> QED
    BY <1>2, <1>9, <2>1, <2>2
<1>12. Len(out') + Len(todo') = Len(image.disk) /\ (result' = "ok" => Len(todo') = 0)
  <2>1. Len(todo) \in Nat /\ Len(out) \in Nat
    BY <1>2
  <2>2. Len(out') + Len(todo') = Len(out) + Len(todo)
    BY <1>9, <2>1
  <2>3. result' = "ok" => Len(todo) = 1
    BY <1>3
  <2>4. Len(out) + Len(todo) = Len(image.disk) /\ Len(todo') = Len(todo) - 1
    BY <1>2, <1>9
  <2> QED
    BY <2>1, <2>2, <2>3, <2>4
<1>13. Progress'
  BY <1>2, <1>3, <1>9, <1>10, <1>11, <1>12 DEF Progress
<1> QED
  BY <1>1, <1>13 DEF ImageInv

\* The invariant holds in every state of a stream.
THEOREM ImageInvariance == ImageSpec => []ImageInv
<1>1. ImageInv /\ [ImageNext]_<<imageVars, vars>> => ImageInv'
  <2> SUFFICES ASSUME ImageInv, [ImageNext]_<<imageVars, vars>> PROVE ImageInv'
    OBVIOUS
  <2>1. CASE UNCHANGED <<imageVars, vars>>
    <3>1. IInv'
      BY <2>1, NextIInv DEF ImageInv
    <3>2. Progress'
      BY <2>1 DEF ImageInv, Progress, imageVars, vars
    <3> QED
      BY <3>1, <3>2 DEF ImageInv
  <2> QED
    BY <2>1, StreamStep, OpenStep, CopyStep, CopyErrStep, CopyDoneStep DEF ImageNext, Returned
<1> QED
  BY <1>1, ImageInitInv, PTL DEF ImageSpec

\* A stream that succeeds has written the whole disk, every part once, in order
\* and with all its bytes, for any number of parts and any order of the manifest
\* (cloudimg.go:49), if no body returns 0, nil.
THEOREM ImageIsWhole == ASSUME ~ZeroReads PROVE ImageSpec => []ImageWhole
<1>1. ImageInv => ImageWhole
  <2> SUFFICES ASSUME ImageInv, result = "ok" PROVE ImageWhole
    BY DEF ImageWhole
  <2>1. /\ image \in Images /\ out \in Seq(Written(image)) /\ Len(out) = Len(image.disk)
        /\ \A i \in 1..Len(out) :
             /\ out[i].digest = image.disk[i]
             /\ out[i].bytes = diskLayers(image.layers)[i].total
    BY DEF ImageInv, Progress
  <2>2. /\ diskLayers(image.layers) \in Seq(LayerSet(image))
        /\ Len(diskLayers(image.layers)) = Len(image.disk) /\ Len(image.disk) \in Nat
        /\ \A i \in 1..Len(image.disk) : diskLayers(image.layers)[i].digest = image.disk[i]
    BY <2>1, DisksAreLayers
  <2>3. [i \in DOMAIN out |-> out[i].digest] = image.disk
    <3>1. image.disk = [i \in 1..Len(image.disk) |-> image.disk[i]]
      <4>1. ASSUME NEW S, NEW s \in Seq(S) PROVE s = [i \in 1..Len(s) |-> s[i]]
        OBVIOUS
      <4>2. PICK S : image.disk \in Seq(S)
        BY <2>1, LayersAssumption
      <4> QED
        BY <4>1, <4>2
    <3>2. DOMAIN out = 1..Len(image.disk)
      BY <2>1
    <3>3. \A i \in 1..Len(image.disk) : out[i].digest = image.disk[i]
      BY <2>1
    <3> QED
      BY <3>1, <3>2, <3>3
  <2>4. ASSUME NEW i \in DOMAIN out, NEW k \in DOMAIN image.layers,
               out[i].digest = image.layers[k].digest
        PROVE  out[i].bytes = image.layers[k].total
    <3>1. PICK j \in DOMAIN image.layers : diskLayers(image.layers)[i] = image.layers[j]
      BY <2>1, <2>2 DEF LayerSet
    <3>2. image.layers[j].digest = image.layers[k].digest
      BY <2>1, <2>2, <2>4, <3>1
    <3>3. image.layers[j].total = image.layers[k].total
      BY <2>1, <3>2, LayersAssumption
    <3> QED
      BY <2>1, <3>1, <3>3
  <2> QED
    BY <2>3, <2>4 DEF ImageWhole
<1> QED
  BY <1>1, ImageInvariance, PTL

\* Every layer of an image that is read to its end has the size its descriptor
\* announces, if no body returns 0, nil.
THEOREM LayersAreExact == ASSUME ~ZeroReads PROVE ImageSpec => []ExactSize
<1>1. ImageInv => ExactSize
  BY DEF ImageInv, IInv, Exact, ExactSize
<1> QED
  BY <1>1, ImageInvariance, PTL

\* A layer of the announced size is refused only if its body failed.
THEOREM GoodLayersPass == ImageSpec => []NoFalseAlarm
<1>1. ImageInv => NoFalseAlarm
  BY DEF ImageInv, IInv
<1> QED
  BY <1>1, ImageInvariance, PTL
=============================================================================
