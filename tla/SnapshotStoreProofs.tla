------------------------- MODULE SnapshotStoreProofs -------------------------
(***************************************************************************)
(* Proofs about SnapshotStore for any pods, policies and snapshots and any *)
(* number of faults, and about the names of VMName.                        *)
(***************************************************************************)
EXTENDS SnapshotStore, SequenceTheorems, TLAPS

-----------------------------------------------------------------------------
(* The inductive invariant.                                                *)

Snapshots == 0..taken

TypeOK ==
    /\ pod \in Pods
    /\ taken \in 0..Len(Layers)
    /\ vm \in Snapshots /\ hib \in Snapshots /\ saved \in Snapshots
    /\ tags \in [Tags -> Snapshots]
    /\ push \in [pc : {"idle", "check", "put", "send"}, tag : Tags \cup {"none"},
                todo : SUBSET AllBlobs, blob : AllBlobs \cup {"none"}]
    /\ wake \in [snap : Snapshots, todo : SUBSET AllBlobs]
    /\ faults \in Nat

\* A tag names a snapshot all of whose layers are stored.
TagsInv == \A t \in Tags : tags[t] # Absent => Layers[tags[t]] \subseteq blobs

\* A push is of the snapshot taken last.  What it has ticked off, and what its
\* session has sent, is stored; garbage collection waits for it.  A body that is
\* about to be sent is at its start.
PushInv ==
    \/ push = idle
    \/ /\ push.pc \in {"check", "put", "send"} /\ taken > 0
       /\ push.todo \subseteq Layers[taken] /\ Layers[taken] \ push.todo \subseteq blobs
       /\ push.pc \in {"put", "send"} => push.blob \in push.todo
       /\ push.pc = "send" => body = "start"
       /\ sent \subseteq blobs
       /\ \/ push.tag = "hibernate" /\ phase = "running"
          \/ /\ push.tag = "latest" /\ phase = "deleting"
             /\ ShouldSnapshotVM(policy, pod.role)

\* What the VM went to sleep with is what its tag names until it wakes.
WakeInv ==
    /\ phase \in {"running", "hibernated", "released", "deleting", "gone"}
    /\ phase = "running" => vm = hib
    /\ phase \in {"hibernated", "released"} => tags["hibernate"] = hib /\ hib # Absent
    /\ \/ wake = asleep
       \/ phase = "released" /\ wake.snap = hib /\ wake.todo \subseteq Layers[hib]

\* Only a pod whose policy says so has a routine snapshot, and it is kept.
PolicyInv ==
    /\ tags["latest"] = saved
    /\ ~ShouldSnapshotVM(policy, pod.role) => saved = Absent
    /\ \A t \in cleaned : phase = "gone" /\ tags[t] = Absent

IInv == TypeOK /\ TagsInv /\ PushInv /\ WakeInv /\ PolicyInv

-----------------------------------------------------------------------------
(* Names.                                                                  *)

Names == Seq(Word)

\* Separators and short names are names.
LEMMA ShortNames ==
    /\ <<"-">> \in Names /\ <<"vk", "-">> \in Names
    /\ \A w \in Word : <<"-", w>> \in Names /\ <<w, "-">> \in Names /\ <<w>> \in Names
    /\ \A v, w : Len(<<v, w>>) = 2 /\ <<v, w>>[1] = v /\ <<v, w>>[2] = w
  <1>1. ASSUME NEW S, NEW v \in S, NEW w \in S PROVE <<v>> \in Seq(S) /\ <<v, w>> \in Seq(S)
    OBVIOUS
  <1>2. "-" \in Word /\ "vk" \in Word
    BY NumeralAssumption
  <1>3. \A v, w : Len(<<v, w>>) = 2 /\ <<v, w>>[1] = v /\ <<v, w>>[2] = w
    OBVIOUS
  <1> QED
    BY <1>1, <1>2, <1>3, Zenon DEF Names

\* A function on 1..n is a sequence.
LEMMA FunctionIsSeq ==
    ASSUME NEW S, NEW n \in Nat, NEW f \in [1..n -> S]
    PROVE  f \in Seq(S) /\ Len(f) = n
  OBVIOUS

\* What names put together are made of.
LEMMA Joined ==
    ASSUME NEW p \in Names, NEW q \in Names
    PROVE  /\ p \o q \in Names /\ Len(p \o q) = Len(p) + Len(q)
           /\ Len(p) \in Nat /\ Len(q) \in Nat
           /\ \A i \in 1..Len(p) : (p \o q)[i] = p[i]
           /\ \A i \in 1..Len(q) : (p \o q)[Len(p) + i] = q[i]
  <1>1. Len(p) \in Nat /\ Len(q) \in Nat
    BY LenProperties DEF Names
  <1>2. /\ p \o q \in Names /\ Len(p \o q) = Len(p) + Len(q)
        /\ \A i \in 1..Len(p) + Len(q) :
             (p \o q)[i] = IF i <= Len(p) THEN p[i] ELSE q[i - Len(p)]
    BY ConcatProperties DEF Names
  <1>3. ASSUME NEW i \in 1..Len(p) PROVE (p \o q)[i] = p[i]
    BY <1>1, <1>2
  <1>4. ASSUME NEW i \in 1..Len(q) PROVE (p \o q)[Len(p) + i] = q[i]
    <2>1. Len(p) + i \in 1..Len(p) + Len(q) /\ ~(Len(p) + i <= Len(p))
          /\ (Len(p) + i) - Len(p) = i
      BY <1>1
    <2> QED
      BY <1>2, <2>1
  <1> QED
    BY <1>1, <1>2, <1>3, <1>4

\* A name with its dots replaced is a name of the same length.
LEMMA DashedName ==
    ASSUME NEW s \in Names
    PROVE  /\ Dashed(s) \in Names /\ Len(Dashed(s)) = Len(s)
           /\ \A i \in 1..Len(s) : Dashed(s)[i] = IF s[i] = "." THEN "-" ELSE s[i]
  <1>1. Len(s) \in Nat /\ DOMAIN s = 1..Len(s) /\ \A i \in 1..Len(s) : s[i] \in Word
    BY LenProperties, ElementOfSeq DEF Names
  <1>2. /\ Dashed(s) = [i \in 1..Len(s) |-> IF s[i] = "." THEN "-" ELSE s[i]]
        /\ \A i \in 1..Len(s) : Dashed(s)[i] \in Word
    BY <1>1, NumeralAssumption DEF Dashed
  <1>3. Dashed(s) \in [1..Len(s) -> Word]
    BY <1>2
  <1>4. Dashed(s) \in Names /\ Len(Dashed(s)) = Len(s)
    BY <1>1, <1>3, FunctionIsSeq, Zenon DEF Names
  <1> QED
    BY <1>2, <1>4

\* A slot is appended to a set's name before or after the dots are replaced.
LEMMA DashedSlot ==
    ASSUME NEW s \in Names, NEW w \in Word, w # "."
    PROVE  Dashed(s \o <<"-", w>>) = Dashed(s) \o <<"-", w>>
  <1> DEFINE n == Len(s)
             q == <<"-", w>>
             full == s \o q
             right == Dashed(s) \o q
  <1>1. q \in Names /\ Len(q) = 2 /\ q[1] = "-" /\ q[2] = w
    BY ShortNames
  <1> HIDE DEF q
  <1>2. /\ full \in Names /\ Len(full) = n + 2 /\ n \in Nat
        /\ \A i \in 1..n : full[i] = s[i]
        /\ \A i \in 1..2 : full[n + i] = q[i]
    <2>1. /\ full \in Names /\ Len(full) = Len(s) + Len(q) /\ Len(s) \in Nat
          /\ \A i \in 1..Len(s) : full[i] = s[i]
          /\ \A i \in 1..Len(q) : full[Len(s) + i] = q[i]
      BY <1>1, Joined, Zenon
    <2> QED
      BY <1>1, <2>1, Zenon
  <1>3. /\ right \in Names /\ Len(right) = n + 2
        /\ \A i \in 1..n : right[i] = Dashed(s)[i]
        /\ \A i \in 1..2 : right[n + i] = q[i]
    <2>1. Dashed(s) \in Names /\ Len(Dashed(s)) = n
      BY DashedName
    <2>2. /\ right \in Names /\ Len(right) = Len(Dashed(s)) + Len(q)
          /\ \A i \in 1..Len(Dashed(s)) : right[i] = Dashed(s)[i]
          /\ \A i \in 1..Len(q) : right[Len(Dashed(s)) + i] = q[i]
      BY <1>1, <2>1, Joined, Zenon
    <2> QED
      BY <1>1, <2>1, <2>2, Zenon
  <1>4. \A i \in 1..n : Dashed(s)[i] = IF s[i] = "." THEN "-" ELSE s[i]
    BY DashedName
  <1> HIDE DEF full, right
  <1>5. /\ Dashed(full) \in Names /\ Len(Dashed(full)) = n + 2
        /\ \A i \in 1..n + 2 : Dashed(full)[i] = IF full[i] = "." THEN "-" ELSE full[i]
    BY <1>2, DashedName
  <1> HIDE DEF n
  <1>6. ASSUME NEW i \in 1..n + 2 PROVE Dashed(full)[i] = right[i]
    <2>1. CASE i \in 1..n
      BY <1>2, <1>3, <1>4, <1>5, <2>1
    <2>2. CASE i = n + 1
      BY <1>1, <1>2, <1>3, <1>5, <2>2
    <2>3. CASE i = n + 2
      BY <1>1, <1>2, <1>3, <1>5, <2>3
    <2> QED
      BY <1>2, <2>1, <2>2, <2>3
  <1>7. Dashed(full) = right
    BY <1>3, <1>5, <1>6, SeqEqual DEF Names
  <1> QED
    BY <1>7 DEF full, right, q

Cat(p, q) == p \o q

\* Names are put together in any grouping.
LEMMA Grouping ==
    ASSUME NEW p \in Names, NEW q \in Names, NEW r \in Names
    PROVE  Cat(Cat(p, q), r) = Cat(p, Cat(q, r)) /\ Cat(p, q) \in Names
  BY ConcatAssociative, ConcatProperties DEF Names, Cat

\* Two words are one word after the other.
LEMMA TwoWords == ASSUME NEW v \in Word, NEW w \in Word PROVE <<v, w>> = Cat(<<v>>, <<w>>)
  <1> DEFINE p == <<v>>
             q == <<w>>
             t == <<v, w>>
  <1>2. p \in Seq(Word) /\ q \in Seq(Word) /\ t \in Seq(Word)
    OBVIOUS
  <1>3. Len(t) = 2 /\ t[1] = v /\ t[2] = w
    OBVIOUS
  <1>4. Len(p) = 1 /\ Len(q) = 1 /\ p[1] = v /\ q[1] = w
    OBVIOUS
  <1> HIDE DEF p, q, t
  <1>5. /\ Cat(p, q) \in Seq(Word) /\ Len(Cat(p, q)) = 2
        /\ Cat(p, q)[1] = v /\ Cat(p, q)[2] = w
    BY <1>2, <1>4, ConcatProperties, SMTT(30) DEF Cat
  <1>6. t = Cat(p, q)
    BY <1>2, <1>3, <1>5, SeqEqual, SMTT(30)
  <1> QED
    BY <1>6 DEF p, q, t

\* And taken apart again.
LEMMA Cancel ==
    ASSUME NEW p \in Names, NEW q \in Names, NEW r \in Names, p \o q = p \o r
    PROVE  q = r
  <1>1. /\ Len(p \o q) = Len(p) + Len(q) /\ Len(p \o r) = Len(p) + Len(r)
        /\ Len(p) \in Nat /\ Len(q) \in Nat /\ Len(r) \in Nat
        /\ \A i \in 1..Len(q) : (p \o q)[Len(p) + i] = q[i]
        /\ \A i \in 1..Len(r) : (p \o r)[Len(p) + i] = r[i]
    BY Joined
  <1>2. Len(q) = Len(r) /\ \A i \in 1..Len(q) : q[i] = r[i]
    BY <1>1
  <1> QED
    BY <1>2, SeqEqual DEF Names

\* A name with a word in it is not empty.
LEMMA NotEmpty == ASSUME NEW r, Len(r) > 0 PROVE r # <<>>
  OBVIOUS

\* The rest of a name begins where it is cut.
LEMMA RestOf ==
    ASSUME NEW t \in Names, NEW m \in 1..Len(t), NEW r, r = SubSeq(t, m, Len(t))
    PROVE  r # <<>> /\ r[1] = t[m]
  <1> DEFINE k == Len(t)
  <1>1. k \in Nat /\ \A i \in m..k : t[i] \in Word
    BY ElementOfSeq, LenProperties DEF Names
  <1>2. m \in 1..k /\ r = SubSeq(t, m, k)
    OBVIOUS
  <1> HIDE DEF k
  <1>3. Len(r) = (IF m <= k THEN k - m + 1 ELSE 0)
    BY <1>1, <1>2, SubSeqProperties
  <1>4. \A i \in 1..k - m + 1 : r[i] = t[m + i - 1]
    BY <1>1, <1>2, SubSeqProperties
  <1>5. Len(r) > 0
    BY <1>1, <1>2, <1>3
  <1>6. 1 \in 1..k - m + 1 /\ m + 1 - 1 = m
    BY <1>1, <1>2
  <1>7. r[1] = t[m]
    BY <1>4, <1>6
  <1> QED
    BY <1>5, <1>7, NotEmpty

Rest(p, t) == SubSeq(t, Len(p) + 1, Len(t))
Pair(v, w) == <<v, w>>

\* What strings.CutPrefix leaves of a name that is a prefix and two words.
LEMMA CutPrefix ==
    ASSUME NEW p \in Names, NEW v \in Word, NEW w \in Word, Pair(v, w) \in Names,
           NEW t, t = Cat(p, Pair(v, w))
    PROVE  IsPrefix(p, t) /\ Rest(p, t) # <<>> /\ Rest(p, t)[1] = v
  <1> DEFINE n == Len(p)
             q == Pair(v, w)
  <1>0. Len(q) = 2 /\ q[1] = v
    BY ShortNames DEF Pair
  <1>1. /\ t \in Names /\ Len(t) = n + Len(q) /\ n \in Nat
        /\ \A i \in 1..n : t[i] = p[i]
        /\ \A i \in 1..Len(q) : t[n + i] = q[i]
    BY Joined, Zenon DEF Cat
  <1> HIDE DEF n, q
  <1>2. Len(t) = n + 2 /\ n + 1 \in 1..Len(t) /\ n \in 0..Len(t) /\ t[n + 1] = v
    BY <1>0, <1>1
  <1>3. SubSeq(p, 1, n) = p
    BY SubSeqFull DEF n, Names
  <1>4. SubSeq(t, 1, n) = p
    <2> DEFINE u == SubSeq(t, 1, n)
    <2>1. u \in Seq(Word) /\ Len(u) = n /\ \A i \in 1..n : u[i] = t[i]
      BY <1>1, <1>2, SubSeqProperties DEF Names
    <2> HIDE DEF u
    <2>2. Len(p) = n /\ p \in Seq(Word)
      BY DEF n, Names
    <2>3. u = p
      BY <1>1, <2>1, <2>2, SeqEqual
    <2> QED
      BY <2>3 DEF u
  <1>5. SubSeq(t, n + 1, Len(t)) # <<>> /\ SubSeq(t, n + 1, Len(t))[1] = v
    <2> DEFINE r == SubSeq(t, n + 1, Len(t))
    <2>1. r # <<>> /\ r[1] = t[n + 1]
      BY <1>1, <1>2, RestOf
    <2> HIDE DEF r
    <2> QED
      BY <1>2, <2>1 DEF r
  <1>6. Len(p) <= Len(t)
    BY <1>1, <1>2 DEF n
  <1> QED
    BY <1>3, <1>4, <1>5, <1>6 DEF IsPrefix, Rest, n

\* ExtractAgentSlot reads the slot a VM was named for.
LEMMA SlotOfAgent ==
    ASSUME NEW ns \in Names, NEW set \in Names, NEW slot \in DOMAIN Itoa
    PROVE  ExtractAgentSlot(ns, set, VMNameForDeployment(ns, set, slot)) = slot
  <1> DEFINE w == Itoa[slot]
             name == VMNameForDeployment(ns, set, slot)
             prefix == AgentVMNamePrefix(ns, set)
             head == <<"vk", "-">> \o ns \o <<"-">>
             D == Dashed(set)
             rest == SubSeq(name.text, Len(prefix) + 1, Len(name.text))
  <1>1. w \in DOMAIN Atoi /\ w # "." /\ Atoi[w] = slot /\ w \in Word /\ "-" \in Word
    BY NumeralAssumption
  <1>2. <<"-">> \in Names /\ <<"vk", "-">> \in Names /\ <<"-", w>> \in Names /\ <<w, "-">> \in Names
    BY <1>1, ShortNames
  <1>3. D \in Names
    BY DashedName
  <1>4. head \in Names
    BY <1>2, Joined
  <1>5. prefix = head \o D \o <<"-">>
    BY DEF AgentVMNamePrefix
  <1>6. name.text = head \o Dashed(set \o <<"-", w>>) \o <<"-">>
    BY DEF VMNameForDeployment, VMNameForPod
  <1>7. Dashed(set \o <<"-", w>>) = D \o <<"-", w>>
    BY <1>1, DashedSlot
  <1> HIDE DEF head, D
  <1>8. prefix \in Names
    BY <1>2, <1>3, <1>4, <1>5, Joined
  <1>9. name.text = Cat(prefix, <<w, "-">>)
    <2> DEFINE d == <<"-">>
               x == <<w>>
    <2>1. d \in Names /\ x \in Names
      BY <1>1, ShortNames
    <2>2. <<"-", w>> = Cat(d, x) /\ <<w, "-">> = Cat(x, d)
      BY <1>1, TwoWords, Zenon
    <2>3. /\ name.text = Cat(Cat(head, Cat(D, Cat(d, x))), d)
          /\ prefix = Cat(Cat(head, D), d)
      BY <1>5, <1>6, <1>7, <2>2, Zenon DEF Cat
    <2> HIDE DEF d, x, prefix
    <2>4. name.text = Cat(prefix, Cat(x, d))
      BY <1>3, <1>4, <2>1, <2>3, Grouping
    <2> QED
      BY <2>2, <2>4, Zenon
  <1> HIDE DEF prefix, w
  <1>10. IsPrefix(prefix, name.text) /\ rest # <<>> /\ rest[1] = w
    <2> PICK t : t = name.text
      OBVIOUS
    <2>1. t = Cat(prefix, Pair(w, "-")) /\ Pair(w, "-") \in Names
      BY <1>2, <1>9, Zenon DEF Pair
    <2> HIDE DEF name
    <2> PICK d : d = "-"
      OBVIOUS
    <2>2. t = Cat(prefix, Pair(w, d)) /\ Pair(w, d) \in Names /\ w \in Word /\ d \in Word
      BY <1>1, <2>1
    <2>3. IsPrefix(prefix, t) /\ Rest(prefix, t) # <<>> /\ Rest(prefix, t)[1] = w
      BY <1>8, <2>2, CutPrefix
    <2> QED
      BY <2>3, Zenon DEF Rest
  <1>11. ExtractAgentSlot(ns, set, name) =
          IF /\ IsPrefix(prefix, name.text) /\ rest # <<>> /\ rest[1] \in DOMAIN Atoi
             /\ VMNameForDeployment(ns, set, Atoi[rest[1]]) = name
          THEN Atoi[rest[1]] ELSE -1
    BY DEF ExtractAgentSlot, prefix
  <1> HIDE DEF rest
  <1> QED
    BY <1>1, <1>10, <1>11, Zenon

\* And it reads no slot from the name of a toolbox that is no number, whatever
\* that name begins with: the hash of the name tells them apart.
LEMMA SlotOfToolbox ==
    ASSUME NEW ns \in Names, NEW set \in Names, NEW toolbox \in Names,
           \A n \in DOMAIN Itoa : toolbox # <<Itoa[n]>>
    PROVE  ExtractAgentSlot(ns, set, VMNameForPod(ns, ToolboxPodName(set, toolbox))) = -1
  <1> DEFINE name == VMNameForPod(ns, ToolboxPodName(set, toolbox))
  <1>1. ASSUME NEW n \in DOMAIN Itoa PROVE VMNameForDeployment(ns, set, n) # name
    <2> DEFINE w == Itoa[n]
               d == <<"-">>
               x == <<w>>
               a == set \o <<"-", w>>
               b == set \o d \o toolbox
    <2> SUFFICES ASSUME VMNameForDeployment(ns, set, n) = name PROVE FALSE
      OBVIOUS
    <2>1. a = b
      <3>1. VMNameForDeployment(ns, set, n).hash = name.hash
        OBVIOUS
      <3>2. VMNameForDeployment(ns, set, n).hash = <<ns, a>>
        BY DEF VMNameForDeployment, VMNameForPod
      <3>3. name.hash = <<ns, b>>
        BY DEF VMNameForPod, ToolboxPodName
      <3> HIDE DEF a, b, name
      <3> QED
        BY <3>1, <3>2, <3>3
    <2>2. w \in Word /\ "-" \in Word
      BY NumeralAssumption
    <2>3. d \in Names /\ x \in Names /\ <<"-", w>> = Cat(d, x)
      BY <2>2, ShortNames, TwoWords, Zenon
    <2> HIDE DEF d, x, w
    <2>4. a = (set \o d) \o x
      <3>1. Cat(set, Cat(d, x)) = Cat(Cat(set, d), x)
        BY <2>3, Grouping, ZenonT(30)
      <3> QED
        BY <2>3, <3>1, Zenon DEF Cat
    <2>5. set \o d \in Names
      BY <2>3, Joined, Zenon
    <2>6. (set \o d) \o x = (set \o d) \o toolbox
      BY <2>1, <2>4, Zenon
    <2>7. x = toolbox
      BY <2>3, <2>5, <2>6, Cancel
    <2> QED
      BY <2>7 DEF x, w
  <1> HIDE DEF name
  <1>2. ExtractAgentSlot(ns, set, name) = -1
    BY <1>1, NumeralAssumption, Zenon DEF ExtractAgentSlot
  <1> QED
    BY <1>2 DEF name

\* Every pod's role is the one both programs read from its VM's name: from the
\* pod, as vk-cocoon does, or from the set, as the operator does.
LEMMA RoleIsRead ==
    ASSUME TypeOK
    PROVE  /\ RoleForPod(pod, vmName) = pod.role
           /\ InferRoleFromAgentSlot(ExtractAgentSlot(pod.ns, pod.set, vmName)) = pod.role
  <1> DEFINE slot == ExtractAgentSlot(pod.ns, pod.set, vmName)
  <1>1. /\ pod.ns \in Names /\ pod.set \in Names /\ pod.toolbox \in Names
        /\ CocoonSetOwnerName(pod.owners) = pod.set
    BY PodsAssumption DEF TypeOK, Names
  <1>2. InferRoleFromAgentSlot(slot) = pod.role
    <2>1. CASE /\ pod.slot \in DOMAIN Itoa
               /\ pod.role = IF pod.slot = 0 THEN RoleMain ELSE RoleSubAgent
      <3>1. pod.slot \in Nat
        BY <2>1, NumeralAssumption
      <3>2. vmName = VMNameForDeployment(pod.ns, pod.set, pod.slot)
        BY <3>1 DEF vmName
      <3>3. slot = pod.slot
        BY <1>1, <2>1, <3>2, SlotOfAgent
      <3> HIDE DEF slot
      <3> QED
        BY <2>1, <3>1, <3>3 DEF InferRoleFromAgentSlot
    <2>2. CASE /\ pod.slot = -1 /\ pod.role = RoleToolbox
               /\ \A n \in DOMAIN Itoa : pod.toolbox # <<Itoa[n]>>
      <3>1. vmName = VMNameForPod(pod.ns, ToolboxPodName(pod.set, pod.toolbox))
        BY <2>2 DEF vmName
      <3>2. slot = -1
        BY <1>1, <2>2, <3>1, SlotOfToolbox
      <3> HIDE DEF slot
      <3> QED
        BY <2>2, <3>2 DEF InferRoleFromAgentSlot
    <2> QED
      BY <2>1, <2>2, PodsAssumption DEF TypeOK
  <1> QED
    BY <1>1, <1>2, Zenon DEF RoleForPod

-----------------------------------------------------------------------------
(* The invariant, action by action.                                        *)

\* The layers of a snapshot are blobs.
LEMMA LayersAreBlobs ==
    /\ Len(Layers) \in Nat
    /\ \A k \in 1..Len(Layers) : Layers[k] \in SUBSET AllBlobs
  BY LayersAssumption, LenProperties, ElementOfSeq

\* A new pod runs from its image; the registry is empty.
LEMMA InitIInv == ASSUME Init PROVE IInv
  <1>1. TypeOK
    BY LayersAreBlobs DEF Init, TypeOK, Snapshots, idle, asleep, Absent, Tags
  <1>2. TagsInv
    BY DEF Init, TagsInv
  <1>3. PolicyInv
    BY DEF Init, PolicyInv, Tags, Absent
  <1> QED
    BY <1>1, <1>2, <1>3 DEF Init, IInv, PushInv, WakeInv

\* A push begins: nothing is ticked off, and its session has sent nothing.
LEMMA PushStartStep ==
    ASSUME IInv, NEW tag \in Tags, PushStart(tag) PROVE IInv'
  <1>1. /\ UNCHANGED <<pod, policy, phase, vm, hib, blobs, tags, wake, saved, cleaned,
                       body, faults>>
        /\ taken' = taken + 1 /\ taken < Len(Layers)
        /\ push'.pc = "check" /\ push'.tag = tag /\ push'.todo = Layers[taken + 1]
        /\ push'.blob = "none" /\ sent' = {}
    BY DEF PushStart, podVars, UploadSession
  <1>2. taken' \in 1..Len(Layers) /\ Layers[taken'] \in SUBSET AllBlobs /\ Snapshots \subseteq Snapshots'
    BY <1>1, LayersAreBlobs DEF IInv, TypeOK, Snapshots
  <1>3. push' \in [pc : {"idle", "check", "put", "send"}, tag : Tags \cup {"none"},
                   todo : SUBSET AllBlobs, blob : AllBlobs \cup {"none"}]
    BY <1>1, <1>2 DEF PushStart
  <1>4. TypeOK'
    BY <1>1, <1>2, <1>3 DEF IInv, TypeOK
  <1>5. \/ phase = "running" /\ tag = "hibernate"
        \/ phase = "deleting" /\ tag = "latest" /\ ShouldSnapshotVM(policy, pod.role)
    BY RoleIsRead DEF PushStart, IInv
  <1>6. PushInv'
    BY <1>1, <1>2, <1>5 DEF PushInv
  <1>7. TagsInv' /\ WakeInv' /\ PolicyInv'
    BY <1>1 DEF IInv, TagsInv, WakeInv, PolicyInv
  <1> QED
    BY <1>4, <1>6, <1>7 DEF IInv

\* A blob is ticked off when the registry says it is there; a request that fails
\* ends the push.
LEMMA CheckBlobStep ==
    ASSUME IInv, NEW b \in push.todo, CheckBlob(b) PROVE IInv'
  <1>1. PICK answer \in Answers(b \in blobs) :
          /\ Count(answer)
          /\ push' = IF Found(answer).err # "nil" THEN idle
                     ELSE IF Found(answer).has THEN [push EXCEPT !.todo = @ \ {b}]
                     ELSE [push EXCEPT !.pc = "put", !.blob = b]
    BY DEF CheckBlob
  <1>2. UNCHANGED <<pod, policy, phase, vm, hib, blobs, tags, taken, sent, wake, saved,
                    cleaned>> /\ push.pc = "check"
    BY DEF CheckBlob, podVars
  <1>3. answer \in {"ok", "404", "fault"} /\ (answer = "ok" => b \in blobs)
    BY <1>1 DEF Answers
  <1>4. faults' \in Nat
    BY <1>1 DEF Count, IInv, TypeOK
  <1>5. \/ push' = idle
        \/ push' = [push EXCEPT !.todo = @ \ {b}] /\ b \in blobs
        \/ push' = [push EXCEPT !.pc = "put", !.blob = b]
    BY <1>1, <1>3 DEF Found, ignoreNotFound, isNotFound
  <1>6. TypeOK'
    <2>1. push' \in [pc : {"idle", "check", "put", "send"}, tag : Tags \cup {"none"},
                     todo : SUBSET AllBlobs, blob : AllBlobs \cup {"none"}]
      <3>1. b \in AllBlobs
        BY DEF IInv, TypeOK
      <3>2. CASE push' = idle
        BY <3>2 DEF idle
      <3>3. CASE push' = [push EXCEPT !.todo = @ \ {b}]
        BY <3>3 DEF IInv, TypeOK
      <3>4. CASE push' = [push EXCEPT !.pc = "put", !.blob = b]
        BY <3>1, <3>4 DEF IInv, TypeOK
      <3> QED
        BY <1>5, <3>2, <3>3, <3>4
    <2> QED
      BY <1>2, <1>4, <2>1 DEF IInv, TypeOK, Snapshots
  <1>7. PushInv'
    <2>1. push # idle
      BY <1>2 DEF idle
    <2>2. CASE push' = idle
      BY <2>2 DEF PushInv, idle
    <2>3. CASE push' = [push EXCEPT !.todo = @ \ {b}] /\ b \in blobs
      BY <1>2, <2>1, <2>3 DEF IInv, TypeOK, PushInv
    <2>4. CASE push' = [push EXCEPT !.pc = "put", !.blob = b]
      BY <1>2, <2>1, <2>4 DEF IInv, TypeOK, PushInv
    <2> QED
      BY <1>5, <2>2, <2>3, <2>4
  <1>8. TagsInv' /\ WakeInv' /\ PolicyInv'
    BY <1>2 DEF IInv, TagsInv, WakeInv, PolicyInv
  <1> QED
    BY <1>6, <1>7, <1>8 DEF IInv

\* An attempt begins: the blob is known to be there, or the body is rewound.
LEMMA PutBlobStep == ASSUME IInv, PutBlob PROVE IInv'
  <1>1. /\ UNCHANGED <<pod, policy, phase, vm, hib, blobs, tags, taken, wake, saved, cleaned,
                       faults>>
        /\ push.pc = "put"
    BY DEF PutBlob, podVars
  <1>2. push # idle
    BY <1>1 DEF idle
  <1>3. TagsInv' /\ WakeInv' /\ PolicyInv'
    BY <1>1 DEF IInv, TagsInv, WakeInv, PolicyInv
  <1>4. CASE push.blob \in sent \cup blobs
    <2>1. push' = [push EXCEPT !.pc = "check", !.todo = @ \ {push.blob}]
          /\ sent' = sent \cup {push.blob}
      BY <1>4 DEF PutBlob, Ticked
    <2>2. push.blob \in blobs /\ sent' \subseteq blobs
      BY <1>2, <1>4, <2>1 DEF IInv, PushInv
    <2>3. TypeOK'
      BY <1>1, <2>1 DEF IInv, TypeOK, Snapshots
    <2>4. PushInv'
      BY <1>1, <1>2, <2>1, <2>2 DEF IInv, TypeOK, PushInv
    <2> QED
      BY <1>3, <2>3, <2>4 DEF IInv
  <1>5. CASE push.blob \notin sent \cup blobs
    <2>1. push' = [push EXCEPT !.pc = "send"] /\ sent' = sent /\ body' = "start"
      BY <1>5 DEF PutBlob, Compressed
    <2>2. TypeOK'
      BY <1>1, <2>1 DEF IInv, TypeOK, Snapshots
    <2>3. PushInv'
      BY <1>1, <1>2, <2>1 DEF IInv, TypeOK, PushInv
    <2> QED
      BY <1>3, <2>2, <2>3 DEF IInv
  <1> QED
    BY <1>4, <1>5

\* A body is sent from its start, whatever the attempts before it read: the registry
\* stores it.
LEMMA SendBlobStep ==
    ASSUME IInv, SendBlob
    PROVE  IInv' /\ push'.pc = "check"
  <1>1. /\ UNCHANGED <<pod, policy, phase, vm, hib, tags, taken, wake, saved, cleaned, faults>>
        /\ push.pc = "send"
    BY DEF SendBlob, podVars
  <1>2. push # idle
    BY <1>1 DEF idle
  <1>3. body = "start"
    BY <1>1, <1>2 DEF IInv, PushInv
  <1>4. /\ blobs' = blobs \cup {push.blob} /\ sent' = sent \cup {push.blob}
        /\ push' = [push EXCEPT !.pc = "check", !.todo = @ \ {push.blob}]
    BY <1>3 DEF SendBlob, Ticked
  <1>5. TypeOK' /\ push'.pc = "check"
    BY <1>1, <1>4 DEF IInv, TypeOK, Snapshots
  <1>6. TagsInv'
    BY <1>1, <1>4 DEF IInv, TagsInv
  <1>7. PushInv'
    BY <1>1, <1>2, <1>4 DEF IInv, TypeOK, PushInv
  <1>8. WakeInv' /\ PolicyInv'
    BY <1>1 DEF IInv, WakeInv, PolicyInv
  <1> QED
    BY <1>5, <1>6, <1>7, <1>8 DEF IInv

\* An attempt breaks off: the blob may be stored, or not.
LEMMA PutBlobBrokenStep == ASSUME IInv, PutBlobBroken PROVE IInv'
  <1>1. /\ UNCHANGED <<pod, policy, phase, vm, hib, tags, taken, sent, wake, saved, cleaned>>
        /\ push' \in {[push EXCEPT !.pc = "put"], idle} /\ faults' = faults + 1
        /\ push.pc \in {"put", "send"}
    BY DEF PutBlobBroken, podVars
  <1>2. blobs \subseteq blobs'
    BY DEF PutBlobBroken
  <1>3. TypeOK'
    <2>1. push' \in [pc : {"idle", "check", "put", "send"}, tag : Tags \cup {"none"},
                     todo : SUBSET AllBlobs, blob : AllBlobs \cup {"none"}]
      BY <1>1 DEF IInv, TypeOK, idle
    <2> QED
      BY <1>1, <2>1 DEF IInv, TypeOK, Snapshots
  <1>4. TagsInv'
    BY <1>1, <1>2 DEF IInv, TagsInv
  <1>5. PushInv'
    <2>1. CASE push' = idle
      BY <2>1 DEF PushInv, idle
    <2>2. CASE push' = [push EXCEPT !.pc = "put"]
      <3>1. push # idle
        BY <1>1 DEF idle
      <3> QED
        BY <1>1, <1>2, <2>2, <3>1 DEF IInv, TypeOK, PushInv
    <2> QED
      BY <1>1, <2>1, <2>2
  <1>6. WakeInv' /\ PolicyInv'
    BY <1>1 DEF IInv, WakeInv, PolicyInv
  <1> QED
    BY <1>3, <1>4, <1>5, <1>6 DEF IInv

\* The manifest arrives when everything it refers to is stored.
LEMMA PutManifestStep == ASSUME IInv, PutManifest PROVE IInv'
  <1>1. /\ UNCHANGED <<pod, policy, vm, blobs, taken, wake, cleaned, body, faults>>
        /\ push.pc = "check" /\ push.todo = {} /\ push' = idle
        /\ tags' = [tags EXCEPT ![push.tag] = taken]
    BY DEF PutManifest, podVars
  <1>2. push # idle
    BY <1>1 DEF idle
  <1>3. /\ taken > 0 /\ Layers[taken] \subseteq blobs
        /\ \/ push.tag = "hibernate" /\ phase = "running"
           \/ push.tag = "latest" /\ phase = "deleting" /\ ShouldSnapshotVM(policy, pod.role)
    BY <1>1, <1>2 DEF IInv, PushInv
  <1>4. taken \in Snapshots
    BY DEF IInv, TypeOK, Snapshots
  <1>5. TypeOK'
    BY <1>1, <1>4 DEF IInv, TypeOK, Snapshots, idle, PutManifest
  <1>6. TagsInv'
    BY <1>1, <1>3 DEF IInv, TypeOK, TagsInv
  <1>7. PushInv'
    BY <1>1 DEF PushInv, idle
  <1>8. CASE push.tag = "hibernate"
    <2>1. /\ phase' = "hibernated" /\ hib' = taken /\ saved' = saved
          /\ tags'["hibernate"] = taken /\ tags'["latest"] = tags["latest"]
      BY <1>1, <1>8 DEF PutManifest, IInv, TypeOK, Tags
    <2>2. wake' = asleep
      BY <1>1, <1>3, <1>8 DEF IInv, WakeInv
    <2>3. WakeInv'
      BY <1>3, <1>4, <2>1, <2>2 DEF WakeInv, Snapshots, Absent, asleep
    <2>4. PolicyInv'
      BY <1>1, <1>3, <1>8, <2>1 DEF IInv, PolicyInv
    <2> QED
      BY <1>5, <1>6, <1>7, <2>3, <2>4 DEF IInv
  <1>9. CASE push.tag = "latest"
    <2>1. /\ phase' = phase /\ hib' = hib /\ saved' = taken
          /\ tags'["hibernate"] = tags["hibernate"] /\ tags'["latest"] = taken
      BY <1>1, <1>9 DEF PutManifest, IInv, TypeOK, Tags
    <2>2. WakeInv'
      BY <1>1, <2>1 DEF IInv, WakeInv
    <2>3. PolicyInv'
      BY <1>1, <1>3, <1>9, <2>1 DEF IInv, PolicyInv
    <2> QED
      BY <1>5, <1>6, <1>7, <2>2, <2>3 DEF IInv
  <1> QED
    BY <1>3, <1>8, <1>9

\* Its answer is lost: the tag may name the new snapshot, which is complete; a VM
\* that was to hibernate runs on.
LEMMA PutManifestBrokenStep == ASSUME IInv, PutManifestBroken PROVE IInv'
  <1>1. /\ UNCHANGED <<pod, policy, phase, vm, hib, blobs, taken, wake, cleaned, body>>
        /\ push.pc = "check" /\ push.todo = {} /\ push' = idle /\ faults' = faults + 1
    BY DEF PutManifestBroken, podVars
  <1>2. push # idle
    BY <1>1 DEF idle
  <1>3. /\ taken > 0 /\ Layers[taken] \subseteq blobs
        /\ \/ push.tag = "hibernate" /\ phase = "running"
           \/ push.tag = "latest" /\ phase = "deleting" /\ ShouldSnapshotVM(policy, pod.role)
    BY <1>1, <1>2 DEF IInv, PushInv
  <1>4. taken \in Snapshots
    BY DEF IInv, TypeOK, Snapshots
  <1>5. PushInv'
    BY <1>1 DEF PushInv, idle
  <1>6. CASE UNCHANGED <<tags, saved>>
    <2>1. TypeOK' /\ TagsInv' /\ WakeInv' /\ PolicyInv'
      BY <1>1, <1>6 DEF IInv, TypeOK, Snapshots, idle, TagsInv, WakeInv, PolicyInv
    <2> QED
      BY <1>5, <2>1 DEF IInv
  <1>7. CASE /\ tags' = [tags EXCEPT ![push.tag] = taken]
             /\ saved' = IF push.tag = "latest" THEN taken ELSE saved
    <2>1. TypeOK'
      <3>1. tags' \in [Tags -> Snapshots] /\ saved' \in Snapshots
        BY <1>4, <1>7 DEF IInv, TypeOK
      <3> QED
        BY <1>1, <3>1 DEF IInv, TypeOK, Snapshots, idle
    <2>2. TagsInv'
      BY <1>1, <1>3, <1>7 DEF IInv, TypeOK, TagsInv
    <2>3. /\ tags'["latest"] = (IF push.tag = "latest" THEN taken ELSE tags["latest"])
          /\ tags'["hibernate"] = (IF push.tag = "hibernate" THEN taken ELSE tags["hibernate"])
      BY <1>7 DEF IInv, TypeOK, Tags
    <2>4. WakeInv'
      BY <1>1, <1>3, <2>3 DEF IInv, WakeInv
    <2>5. PolicyInv'
      BY <1>1, <1>3, <1>7, <2>3 DEF IInv, PolicyInv
    <2> QED
      BY <1>5, <2>1, <2>2, <2>4, <2>5 DEF IInv
  <1> QED
    BY <1>6, <1>7 DEF PutManifestBroken

\* vk-cocoon restarts: the push is gone.
LEMMA CrashStep == ASSUME IInv, Crash PROVE IInv'
  <1>1. /\ UNCHANGED <<pod, policy, phase, vm, hib, blobs, tags, taken, sent, wake, saved,
                       cleaned, body>>
        /\ push' = idle /\ faults' = faults + 1
    BY DEF Crash, podVars
  <1>2. TypeOK'
    BY <1>1 DEF IInv, TypeOK, Snapshots, idle
  <1>3. TagsInv' /\ PushInv' /\ WakeInv' /\ PolicyInv'
    BY <1>1 DEF IInv, TagsInv, PushInv, WakeInv, PolicyInv, idle
  <1> QED
    BY <1>2, <1>3 DEF IInv

\* A released VM has a hibernate tag, so its wake never boots it from the image.
LEMMA WakeManifestStep == ASSUME IInv, WakeManifest PROVE IInv'
  <1>1. /\ UNCHANGED <<pod, policy, hib, blobs, tags, push, taken, sent, saved, cleaned, body>>
        /\ phase = "released"
    BY DEF WakeManifest, podVars
  <1>2. PICK answer \in Answers(tags["hibernate"] # Absent) :
          /\ Count(answer)
          /\ \/ /\ GetManifest(answer) = "nil"
                /\ wake' = [snap |-> tags["hibernate"], todo |-> Layers[tags["hibernate"]]]
                /\ UNCHANGED <<phase, vm>>
             \/ /\ GetManifest(answer) = "ErrManifestNotFound"
                /\ phase' = "running" /\ vm' = Absent /\ UNCHANGED wake
             \/ GetManifest(answer) = "error" /\ UNCHANGED <<phase, vm, wake>>
    BY DEF WakeManifest
  <1>3. tags["hibernate"] = hib /\ hib # Absent
    BY <1>1 DEF IInv, WakeInv
  <1>4. answer \in {"ok", "fault"}
    BY <1>2, <1>3 DEF Answers
  <1>5. /\ UNCHANGED <<phase, vm>>
        /\ \/ wake'.snap = hib /\ wake'.todo = Layers[hib]
              /\ wake' = [snap |-> hib, todo |-> Layers[hib]]
           \/ wake' = wake
    BY <1>2, <1>3, <1>4 DEF GetManifest, isNotFound
  <1>6. faults' \in Nat
    BY <1>2 DEF Count, IInv, TypeOK
  <1>7. TypeOK'
    <2>1. Layers[hib] \in SUBSET AllBlobs
      BY <1>3, LayersAreBlobs DEF IInv, TypeOK, Snapshots, Absent
    <2>2. wake' \in [snap : Snapshots, todo : SUBSET AllBlobs]
      BY <1>5, <2>1 DEF IInv, TypeOK
    <2> QED
      BY <1>1, <1>5, <1>6, <2>2 DEF IInv, TypeOK, Snapshots
  <1>8. WakeInv'
    BY <1>1, <1>5 DEF IInv, WakeInv, asleep
  <1>9. TagsInv' /\ PushInv' /\ PolicyInv'
    BY <1>1, <1>5 DEF IInv, TagsInv, PushInv, PolicyInv, idle
  <1> QED
    BY <1>7, <1>8, <1>9 DEF IInv

\* The layers of what is being restored are there.
LEMMA WakeBlobStep ==
    ASSUME IInv, NEW b \in wake.todo, WakeBlob(b) PROVE IInv'
  <1>1. /\ UNCHANGED <<pod, policy, vm, hib, blobs, tags, push, taken, sent, saved, cleaned, body>>
        /\ phase = "released"
    BY DEF WakeBlob, podVars
  <1>2. PICK answer \in Answers(b \in blobs) :
          /\ Count(answer)
          /\ wake' = IF answer = "ok" THEN [wake EXCEPT !.todo = @ \ {b}] ELSE asleep
          /\ phase' = IF answer = "404" THEN "broken" ELSE phase
    BY DEF WakeBlob
  <1>3. wake # asleep
    BY DEF asleep
  <1>4. /\ tags["hibernate"] = hib /\ hib # Absent
        /\ wake.snap = hib /\ wake.todo \subseteq Layers[hib]
    BY <1>1, <1>3 DEF IInv, WakeInv
  <1>5. b \in blobs
    BY <1>4 DEF IInv, TagsInv, Tags
  <1>6. answer # "404"
    BY <1>2, <1>5 DEF Answers
  <1>7. phase' = phase /\ wake' \in {[wake EXCEPT !.todo = @ \ {b}], asleep}
    BY <1>2, <1>6
  <1>8. faults' \in Nat
    BY <1>2 DEF Count, IInv, TypeOK
  <1>9. TypeOK'
    <2>1. wake' \in [snap : Snapshots, todo : SUBSET AllBlobs]
      BY <1>7 DEF IInv, TypeOK, Snapshots, asleep, Absent
    <2> QED
      BY <1>1, <1>8, <2>1 DEF IInv, TypeOK, Snapshots
  <1>10. WakeInv'
    BY <1>1, <1>4, <1>7 DEF IInv, TypeOK, WakeInv, asleep
  <1>11. TagsInv' /\ PushInv' /\ PolicyInv'
    BY <1>1, <1>7 DEF IInv, TagsInv, PushInv, PolicyInv, idle
  <1> QED
    BY <1>9, <1>10, <1>11 DEF IInv

\* The VM that wakes has the memory it went to sleep with.
LEMMA WakeDoneStep == ASSUME IInv, WakeDone PROVE IInv'
  <1>1. /\ UNCHANGED <<pod, policy, hib, blobs, tags, push, taken, sent, saved, cleaned,
                       body, faults>>
        /\ phase = "released" /\ phase' = "running" /\ vm' = wake.snap /\ wake' = asleep
        /\ wake.snap # Absent
    BY DEF WakeDone, podVars
  <1>2. wake.snap = hib
    BY <1>1 DEF IInv, WakeInv, asleep
  <1>3. TypeOK'
    BY <1>1, <1>2 DEF IInv, TypeOK, Snapshots, asleep, Absent
  <1>4. push = idle
    BY <1>1 DEF IInv, PushInv
  <1>5. PushInv' /\ WakeInv'
    BY <1>1, <1>2, <1>4 DEF PushInv, WakeInv, idle, asleep
  <1>6. TagsInv' /\ PolicyInv'
    BY <1>1 DEF IInv, TagsInv, PolicyInv
  <1> QED
    BY <1>3, <1>5, <1>6 DEF IInv

\* The operator releases a VM only when its tag is there.
LEMMA ProbeStep == ASSUME IInv, Probe PROVE IInv'
  <1>1. /\ UNCHANGED <<pod, policy, vm, hib, blobs, tags, push, taken, sent, wake, saved,
                       cleaned, body>>
        /\ phase = "hibernated"
    BY DEF Probe, podVars
  <1>2. phase' \in {"hibernated", "released"} /\ faults' \in Nat
    BY <1>1 DEF Probe, Count, IInv, TypeOK
  <1>3. push = idle /\ wake = asleep
    BY <1>1 DEF IInv, PushInv, WakeInv
  <1>4. TypeOK'
    BY <1>1, <1>2 DEF IInv, TypeOK, Snapshots
  <1>5. PushInv' /\ WakeInv'
    BY <1>1, <1>2, <1>3 DEF IInv, PushInv, WakeInv, idle, asleep
  <1>6. TagsInv' /\ PolicyInv'
    BY <1>1, <1>2 DEF IInv, TagsInv, PolicyInv
  <1> QED
    BY <1>4, <1>5, <1>6 DEF IInv

\* A pod is deleted only while nothing is pushed or pulled.
LEMMA DeletePodStep == ASSUME IInv, DeletePod PROVE IInv'
  <1>1. UNCHANGED <<pod, policy, vm, hib, blobs, tags, push, taken, sent, wake, saved,
                    cleaned, body, faults>>
    BY DEF DeletePod, podVars
  <1>2. phase # "gone" => cleaned = {}
    BY DEF IInv, PolicyInv
  <1>3. push = idle /\ wake = asleep /\ phase' \in {"deleting", "gone"} /\ cleaned = {}
    BY <1>2 DEF DeletePod, IInv, WakeInv
  <1>4. TypeOK'
    BY <1>1 DEF IInv, TypeOK, Snapshots
  <1>5. PushInv' /\ WakeInv'
    BY <1>1, <1>3 DEF PushInv, WakeInv, idle, asleep
  <1>6. TagsInv' /\ PolicyInv'
    BY <1>1, <1>3 DEF IInv, TagsInv, PolicyInv
  <1> QED
    BY <1>4, <1>5, <1>6 DEF IInv

\* The operator finds "latest" to be garbage exactly when vk-cocoon never
\* publishes it.
LEMMA GarbageIsRight ==
    ASSUME TypeOK
    PROVE  /\ "hibernate" \in Garbage
           /\ "latest" \in Garbage <=> ~ShouldSnapshotVM(policy, pod.role)
  <1>1. Garbage = {"hibernate"} \cup
                  (IF ShouldSnapshotVM(policy, pod.role) THEN {} ELSE {"latest"})
    BY RoleIsRead, Zenon DEF Garbage
  <1> QED
    BY <1>1

\* A tag is ticked off only when it is gone.
LEMMA CleanupStep ==
    ASSUME IInv, NEW tag \in Tags, Cleanup(tag) PROVE IInv'
  <1>1. /\ UNCHANGED <<pod, policy, phase, vm, hib, blobs, push, taken, sent, wake, saved, body>>
        /\ phase = "gone" /\ tag \in Garbage
    BY DEF Cleanup, podVars
  <1>2. PICK answer \in Answers(tags[tag] # Absent) :
         /\ Count(answer)
         /\ \/ answer # "404" /\ tags' = [tags EXCEPT ![tag] = Absent]
            \/ answer # "ok" /\ UNCHANGED tags
         /\ cleaned' = IF DeleteManifest(answer) = "nil" THEN cleaned \cup {tag}
                       ELSE cleaned
    BY DEF Cleanup
  <1>3. answer \in {"ok", "404", "fault"} /\ (answer = "404" => tags[tag] = Absent)
    BY <1>2 DEF Answers
  <1>4. tags' \in [Tags -> Snapshots] /\ faults' \in Nat
        /\ \A t \in Tags : tags'[t] \in {tags[t], Absent}
    BY <1>2 DEF Count, IInv, TypeOK, Snapshots, Absent
  <1>5. tags["latest"] = Absent => tags'["latest"] = Absent
    BY <1>4 DEF Tags
  <1>6. tag = "hibernate" => tags'["latest"] = tags["latest"]
    BY <1>2 DEF IInv, TypeOK, Tags
  <1>7. tag = "latest" => saved = Absent /\ tags["latest"] = Absent
    BY <1>1, GarbageIsRight DEF IInv, PolicyInv
  <1>8. tags'["latest"] = saved'
    BY <1>1, <1>5, <1>6, <1>7 DEF IInv, PolicyInv, Tags
  <1>9. DeleteManifest(answer) = "nil" => answer \in {"ok", "404"}
    BY <1>3 DEF DeleteManifest, ignoreNotFound, isNotFound
  <1>10. DeleteManifest(answer) = "nil" => tags'[tag] = Absent
    BY <1>2, <1>3, <1>9 DEF IInv, TypeOK
  <1>11. ASSUME NEW t \in cleaned' PROVE phase' = "gone" /\ tags'[t] = Absent
    <2>1. CASE t \in cleaned
      <3>1. tags[t] = Absent
        BY <2>1 DEF IInv, PolicyInv
      <3>2. CASE tags' = tags
        BY <1>1, <3>1, <3>2
      <3>3. CASE tags' = [tags EXCEPT ![tag] = Absent]
        BY <1>1, <3>1, <3>3 DEF IInv, TypeOK
      <3> QED
        BY <1>2, <3>2, <3>3
    <2>2. CASE t \notin cleaned
      BY <1>1, <1>2, <1>10, <1>11, <2>2
    <2> QED
      BY <2>1, <2>2
  <1>12. PolicyInv'
    BY <1>1, <1>8, <1>11 DEF IInv, PolicyInv
  <1>13. TypeOK'
    BY <1>1, <1>4 DEF IInv, TypeOK, Snapshots
  <1>14. TagsInv'
    BY <1>1, <1>4 DEF IInv, TagsInv
  <1>15. PushInv' /\ WakeInv'
    BY <1>1 DEF IInv, PushInv, WakeInv, idle, asleep
  <1> QED
    BY <1>12, <1>13, <1>14, <1>15 DEF IInv

\* Referenced is what the tags name.
LEMMA ReferencedBlobs ==
    ASSUME NEW t \in Tags, tags[t] # Absent
    PROVE  Layers[tags[t]] \subseteq Referenced
  BY DEF Referenced

\* A blob that is collected is one that no tag names, and no push is under way.
LEMMA DropBlobStep ==
    ASSUME IInv, NEW b \in blobs, DropBlob(b) PROVE IInv'
  <1>1. /\ UNCHANGED <<pod, policy, phase, vm, hib, tags, push, taken, sent, wake, saved,
                       cleaned, body, faults>>
        /\ b \notin Referenced /\ push = idle /\ blobs' = blobs \ {b}
    BY DEF DropBlob, podVars
  <1>2. TypeOK'
    BY <1>1 DEF IInv, TypeOK, Snapshots
  <1>3. TagsInv'
    <2> SUFFICES ASSUME NEW t \in Tags, tags'[t] # Absent
                 PROVE  Layers[tags'[t]] \subseteq blobs'
      BY DEF TagsInv
    <2>1. Layers[tags[t]] \subseteq blobs /\ b \notin Layers[tags[t]]
      BY <1>1, ReferencedBlobs DEF IInv, TagsInv
    <2> QED
      BY <1>1, <2>1
  <1>4. PushInv' /\ WakeInv' /\ PolicyInv'
    BY <1>1 DEF IInv, PushInv, WakeInv, PolicyInv, idle, asleep
  <1> QED
    BY <1>2, <1>3, <1>4 DEF IInv

-----------------------------------------------------------------------------
(* The theorems.                                                           *)

\* The invariant holds in every state of every behaviour.
THEOREM Invariance == Spec => []IInv
  <1>1. Init => IInv
    BY InitIInv
  <1>2. IInv /\ [Next]_vars => IInv'
    <2> SUFFICES ASSUME IInv, [Next]_vars PROVE IInv'
      OBVIOUS
    <2>1. CASE UNCHANGED vars
      <3>1. UNCHANGED <<pod, policy, phase, vm, hib, blobs, tags, push, taken, sent, wake,
                        saved, cleaned, body, faults>>
        BY <2>1 DEF vars
      <3>2. TypeOK'
        BY <3>1 DEF IInv, TypeOK, Snapshots
      <3>3. TagsInv' /\ PushInv' /\ WakeInv' /\ PolicyInv'
        BY <3>1 DEF IInv, TagsInv, PushInv, WakeInv, PolicyInv, idle, asleep
      <3> QED
        BY <3>2, <3>3 DEF IInv
    <2> QED
      BY <2>1, PushStartStep, CheckBlobStep, PutBlobStep, SendBlobStep, PutBlobBrokenStep, PutManifestStep,
         PutManifestBrokenStep, CrashStep, WakeManifestStep, WakeBlobStep, WakeDoneStep,
         ProbeStep, DeletePodStep, CleanupStep, DropBlobStep DEF Next
  <1> QED
    BY <1>1, <1>2, PTL DEF Spec

\* A tag names a manifest all of whose blobs are stored, whatever was collected,
\* broken off, lost or left over by a crash before (oci.go, putBlobIfMissing).
THEOREM TagsAreComplete == Spec => []TagsComplete
  <1>1. IInv => TagsComplete
    BY DEF IInv, TagsInv, TagsComplete, Referenced
  <1> QED
    BY <1>1, Invariance, PTL

\* A VM whose hibernation was verified wakes with the memory it went to sleep
\* with; no answer of the registry makes it boot afresh (GetManifest, isNotFound).
THEOREM StateIsKept == Spec => []NoStateLost
  <1>1. IInv => NoStateLost
    BY DEF IInv, WakeInv, NoStateLost
  <1> QED
    BY <1>1, Invariance, PTL

\* A push that is under way ends with its manifest published or by a fault of that
\* very moment, for any number of broken attempts before it and whatever the registry
\* has stored or dropped (streamLayer.Compressed, putBlobIfMissing, ignoreNotFound).
THEOREM PushesFailByFault == Spec => PushFailsOnlyByFault
  <1> DEFINE Ends == push.pc # "idle" /\ push'.pc = "idle" =>
                       faults' = faults + 1 \/ tags' = [tags EXCEPT ![push.tag] = taken]
  <1>1. IInv /\ [Next]_vars => [Ends]_vars
    <2> SUFFICES ASSUME IInv, Next, push.pc # "idle", push'.pc = "idle"
                 PROVE  faults' = faults + 1 \/ tags' = [tags EXCEPT ![push.tag] = taken]
      OBVIOUS
    <2>1. ASSUME NEW tag \in Tags, PushStart(tag) PROVE FALSE
      BY <2>1 DEF PushStart
    <2>2. ASSUME NEW b \in push.todo, CheckBlob(b) PROVE faults' = faults + 1
      <3>1. PICK answer \in Answers(b \in blobs) :
              /\ Count(answer)
              /\ push' = IF Found(answer).err # "nil" THEN idle
                         ELSE IF Found(answer).has THEN [push EXCEPT !.todo = @ \ {b}]
                         ELSE [push EXCEPT !.pc = "put", !.blob = b]
        BY <2>2 DEF CheckBlob
      <3>2. push.pc = "check"
        BY <2>2 DEF CheckBlob
      <3>3. answer \in {"ok", "404", "fault"}
        BY <3>1 DEF Answers
      <3>4. CASE answer = "fault"
        BY <3>1, <3>4 DEF Count
      <3>5. CASE answer = "ok"
        <4>1. push' = [push EXCEPT !.todo = @ \ {b}]
          BY <3>1, <3>5 DEF Found
        <4> QED
          BY <3>2, <4>1 DEF IInv, TypeOK
      <3>6. CASE answer = "404"
        <4>1. push' = [push EXCEPT !.pc = "put", !.blob = b]
          BY <3>1, <3>6 DEF Found, ignoreNotFound, isNotFound
        <4> QED
          BY <4>1 DEF IInv, TypeOK
      <3> QED
        BY <3>3, <3>4, <3>5, <3>6
    <2>3. CASE PutBlob
      <3>1. push' = [push EXCEPT !.pc = "check", !.todo = @ \ {push.blob}]
            \/ push' = [push EXCEPT !.pc = "send"]
        BY <2>3 DEF PutBlob, Ticked
      <3> QED
        BY <3>1 DEF IInv, TypeOK
    <2>4. CASE SendBlob
      BY <2>4, SendBlobStep
    <2>5. CASE PutManifest
      BY <2>5 DEF PutManifest
    <2>6. CASE PutBlobBroken \/ PutManifestBroken \/ Crash
      BY <2>6 DEF PutBlobBroken, PutManifestBroken, Crash
    <2>7. ASSUME UNCHANGED push PROVE FALSE
      BY <2>7
    <2>8. CASE WakeManifest \/ WakeDone \/ Probe \/ DeletePod \/ UNCHANGED vars
      BY <2>7, <2>8 DEF WakeManifest, WakeDone, Probe, DeletePod, vars
    <2>9. ASSUME NEW b, WakeBlob(b) \/ DropBlob(b) PROVE FALSE
      BY <2>7, <2>9 DEF WakeBlob, DropBlob
    <2>10. ASSUME NEW tag \in Tags, Cleanup(tag) PROVE FALSE
      BY <2>7, <2>10 DEF Cleanup
    <2> QED
      BY <2>1, <2>2, <2>3, <2>4, <2>5, <2>6, <2>8, <2>9, <2>10 DEF Next
  <1> HIDE DEF Ends
  <1>2. Spec => [][Ends]_vars
    BY <1>1, Invariance, PTL DEF Spec
  <1> QED
    BY <1>2, PTL DEF PushFailsOnlyByFault, Ends

\* For every pod whose toolbox name is no number: the tags left behind are those
\* the policy keeps for the role it was created with (ExtractAgentSlot,
\* RoleForPod, ShouldSnapshotVM).
THEOREM PolicyIsHonoured == Spec => []PolicyHonoured
  <1>1. IInv => PolicyHonoured
    <2> SUFFICES ASSUME IInv PROVE PolicyHonoured
      OBVIOUS
    <2>1. ~ShouldSnapshotVM(policy, pod.role) => tags["latest"] = Absent
      BY DEF IInv, PolicyInv
    <2>2. ASSUME Over, phase = "gone"
          PROVE  tags["hibernate"] = Absent /\ tags["latest"] = saved
      <3>1. Garbage \subseteq cleaned
        BY <2>2 DEF Over
      <3>2. "hibernate" \in cleaned
        BY <3>1, GarbageIsRight DEF IInv
      <3> QED
        BY <3>2 DEF IInv, PolicyInv
    <2> QED
      BY <2>1, <2>2 DEF PolicyHonoured
  <1> QED
    BY <1>1, Invariance, PTL
=============================================================================
