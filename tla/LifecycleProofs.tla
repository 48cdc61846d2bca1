--------------------------- MODULE LifecycleProofs ---------------------------
(***************************************************************************)
(* Proofs about Lifecycle for any number of generations and of faults.     *)
(***************************************************************************)
EXTENDS Lifecycle, TLAPS

-----------------------------------------------------------------------------
(* The inductive invariant.                                                *)

\* Generation n of the CocoonSet, or a CocoonHibernation under it, asked for
\* hibernation or for wake.
Wanted(d, n, hibernate) == \E r \in d : r.gen = n /\ r.hibernate = hibernate

\* A stamped generation exists, and the request beside it was made under that
\* generation: both are written by one patch.  An operator that patches a stale
\* base gives up the second part.
Asked(d, g, a) ==
    /\ a["generation"] \in {None, <<"text">>} \cup {FormatInt(n) : n \in 1..g}
    /\ ~StaleBase /\ ReadCocoonSetGeneration(a) > 0 =>
         Wanted(d, ReadCocoonSetGeneration(a), ReadHibernateState(a))

\* A report is about a generation that exists, a completion is one that was asked
\* for, and only a failure has a reason.
Honest(d, g, state, n, message) ==
    /\ n \in 0..g
    /\ ~StaleBase /\ n > 0 /\ state \in {<<"ready">>, <<"hibernated">>} =>
         \E h \in BOOLEAN : Wanted(d, n, h) /\ state = <<Goal(h)>>
    /\ message = IF state = <<"failed">> THEN <<"reason", n>> ELSE None

\* The annotations of a pod.
PodInv(d, g, a) ==
    /\ DOMAIN a = Keys /\ a = [k \in Keys |-> a[k]]
    /\ a["observed"] \in {None} \cup {FormatInt(n) : n \in 0..g}
    /\ Asked(d, g, a)
    /\ Honest(d, g, a["state"], readInt64Annotation(a, "observed"), a["message"])

\* Every request is a request of a generation there was.
UserInv ==
    /\ want \in [gen : Nat \ {0}, hibernate : BOOLEAN]
    /\ want \in asked

\* The operator is the only writer of the request: a copy that had its last patch
\* in it stays fresh on it.
OpInv ==
    \/ op = idle
    \/ /\ op.pc = "patch"
       /\ op.want \in asked /\ op.want.gen \in 1..gen /\ op.want.hibernate \in BOOLEAN
       /\ DOMAIN op.obj = Keys /\ op.obj = [k \in Keys |-> op.obj[k]]
       /\ ~StaleBase => \A k \in RequestKeys : op.obj[k] = annos[k]

\* vk-cocoon works on a request that was made, and its report is about it.
VkInv ==
    /\ Asked(asked, gen, seen)
    /\ job.gen \in 0..gen /\ job.hibernate \in BOOLEAN
    /\ ~StaleBase /\ job.gen > 0 => Wanted(asked, job.gen, job.hibernate)
    /\ \/ status = NoStatus
       \/ /\ status.gen = job.gen
          /\ status.state \in {<<Goal(job.hibernate)>>, <<Underway(job.hibernate)>>, <<"failed">>}
          /\ Honest(asked, gen, status.state, status.gen, status.message)

IInv == UserInv /\ PodInv(asked, gen, annos) /\ OpInv /\ VkInv

-----------------------------------------------------------------------------
(* What the annotations say.                                               *)

\* readInt64Annotation reads back what FormatInt wrote, and 0 from anything
\* that is no number.
LEMMA IntRead ==
    ASSUME NEW a, NEW key, NEW n \in Nat
    PROVE  /\ a[key] = FormatInt(n) => readInt64Annotation(a, key) = n
           /\ a[key] \in {None, <<"text">>} => readInt64Annotation(a, key) = 0
  <1>1. Len(<<"decimal", n>>) = 2 /\ <<"decimal", n>>[2] = n
    OBVIOUS
  <1>2. Len(<<"text">>) = 1 /\ Len(<< >>) = 0
    OBVIOUS
  <1>3. ASSUME a[key] = FormatInt(n) PROVE readInt64Annotation(a, key) = n
    BY <1>1, <1>3, Zenon DEF FormatInt, readInt64Annotation
  <1>4. ASSUME a[key] \in {None, <<"text">>} PROVE readInt64Annotation(a, key) = 0
    <2>1. Len(a[key]) \in {0, 1}
      BY <1>2, <1>4, Zenon DEF None
    <2> QED
      BY <2>1 DEF readInt64Annotation
  <1> QED
    BY <1>3, <1>4

\* The request of a pod is for the generation it is stamped with: none, or one
\* that exists.
LEMMA AskedGeneration ==
    ASSUME NEW d, NEW g \in Nat, NEW a, Asked(d, g, a)
    PROVE  ReadCocoonSetGeneration(a) \in 0..g
  <1>1. CASE a["generation"] \in {None, <<"text">>}
    BY <1>1, IntRead DEF ReadCocoonSetGeneration
  <1> QED
    BY <1>1, IntRead DEF ReadCocoonSetGeneration, Asked

\* What was asked for, and honestly reported, stays so when something else is
\* asked for.
LEMMA Grow ==
    ASSUME NEW d, NEW e, d \subseteq e, NEW g \in Nat, NEW f \in Nat, g <= f
    PROVE  /\ \A n, h : Wanted(d, n, h) => Wanted(e, n, h)
           /\ \A a : Asked(d, g, a) => Asked(e, f, a)
           /\ \A s, n, m : Honest(d, g, s, n, m) => Honest(e, f, s, n, m)
           /\ \A a : PodInv(d, g, a) => PodInv(e, f, a)
  <1>0. 1..g \subseteq 1..f /\ 0..g \subseteq 0..f
    OBVIOUS
  <1>1. \A n, h : Wanted(d, n, h) => Wanted(e, n, h)
    BY Zenon DEF Wanted
  <1>2. ASSUME NEW a, Asked(d, g, a) PROVE Asked(e, f, a)
    <2>1. a["generation"] \in {None, <<"text">>} \cup {FormatInt(n) : n \in 1..f}
      BY <1>0, <1>2 DEF Asked
    <2> QED
      BY <1>1, <1>2, <2>1, Zenon DEF Asked
  <1>3. ASSUME NEW s, NEW n, NEW m, Honest(d, g, s, n, m) PROVE Honest(e, f, s, n, m)
    BY <1>0, <1>1, <1>3, Zenon DEF Honest
  <1>4. ASSUME NEW a, PodInv(d, g, a) PROVE PodInv(e, f, a)
    <2>1. a["observed"] \in {None} \cup {FormatInt(n) : n \in 0..f}
      BY <1>0, <1>4 DEF PodInv
    <2> QED
      BY <1>2, <1>3, <1>4, <2>1, Zenon DEF PodInv
  <1> QED
    BY <1>1, <1>2, <1>3, <1>4

\* vk-cocoon's patch sets its three keys and no other.
LEMMA MergedReport ==
    ASSUME NEW a, NEW s, NEW b, b = Merged(a, Annotations(s))
    PROVE  /\ DOMAIN b = Keys /\ b = [k \in Keys |-> b[k]]
           /\ b["state"] = s.state /\ b["observed"] = FormatInt(s.gen)
           /\ b["message"] = s.message
           /\ b["generation"] = a["generation"] /\ b["hibernate"] = a["hibernate"]
  <1> DEFINE p == Annotations(s)
  <1>1. /\ DOMAIN p = {"state", "observed", "message"}
        /\ p["state"] = s.state /\ p["observed"] = FormatInt(s.gen)
        /\ p["message"] = s.message
    BY DEF Annotations
  <1> HIDE DEF p
  <1>2. b = [k \in Keys |-> IF k \in DOMAIN p THEN p[k] ELSE a[k]]
    BY DEF Merged, p
  <1> QED
    BY <1>1, <1>2 DEF Keys, RequestKeys

\* The operator's patch leaves vk-cocoon's keys alone.  It writes a key of the
\* request or leaves it as it is; made from a copy with the current request, it
\* leaves the generation together with its request.
LEMMA MergedRequest ==
    ASSUME NEW a, NEW o, NEW on, NEW n, NEW b,
           DOMAIN o = Keys, o = [k \in Keys |-> o[k]],
           b = Merged(a, buildMergePatch(o,
                   StampCocoonSetGeneration(HibernateState(o, on), n)))
    PROVE  /\ DOMAIN b = Keys /\ b = [k \in Keys |-> b[k]]
           /\ b["generation"] \in {FormatInt(n), a["generation"]}
           /\ (\A k \in RequestKeys : o[k] = a[k]) =>
                /\ b["generation"] = FormatInt(n)
                /\ b["hibernate"] = IF on THEN <<"true">> ELSE None
           /\ \A k \in {"state", "observed", "message"} : b[k] = a[k]
  <1> DEFINE m == StampCocoonSetGeneration(HibernateState(o, on), n)
             p == MergeFrom(o, m)
  <1>1. /\ m["generation"] = FormatInt(n)
        /\ m["hibernate"] = IF on THEN <<"true">> ELSE None
        /\ \A k \in {"state", "observed", "message"} : m[k] = o[k]
    BY DEF StampCocoonSetGeneration, HibernateState, Keys, RequestKeys
  <1> HIDE DEF m
  <1>2. /\ DOMAIN p = {k \in Keys : o[k] # m[k]}
        /\ \A k \in DOMAIN p : p[k] = m[k]
    BY DEF MergeFrom
  <1>3. b = [k \in Keys |-> IF k \in DOMAIN p THEN p[k] ELSE a[k]]
    BY DEF Merged, buildMergePatch, m
  <1> HIDE DEF p
  <1> QED
    BY <1>1, <1>2, <1>3 DEF Keys, RequestKeys

\* What a pod asks for depends on the two keys of the request alone.
LEMMA SameRequest ==
    ASSUME NEW d, NEW g, NEW a, NEW b, Asked(d, g, a),
           b["generation"] = a["generation"], b["hibernate"] = a["hibernate"]
    PROVE  Asked(d, g, b)
  <1>1. ReadCocoonSetGeneration(b) = ReadCocoonSetGeneration(a)
    BY Zenon DEF ReadCocoonSetGeneration, readInt64Annotation
  <1>2. ReadHibernateState(b) = ReadHibernateState(a)
    BY Zenon DEF ReadHibernateState
  <1> QED
    BY <1>1, <1>2, Zenon DEF Asked

\* A pod stays well annotated when vk-cocoon patches an honest report into it.
LEMMA ReportKeepsPod ==
    ASSUME NEW d, NEW g \in Nat, NEW a, PodInv(d, g, a), NEW s,
           Honest(d, g, s.state, s.gen, s.message)
    PROVE  PodInv(d, g, Merged(a, Annotations(s)))
  <1> PICK b : b = Merged(a, Annotations(s))
    OBVIOUS
  <1>1. /\ DOMAIN b = Keys /\ b = [k \in Keys |-> b[k]]
        /\ b["state"] = s.state /\ b["observed"] = FormatInt(s.gen)
        /\ b["message"] = s.message
        /\ b["generation"] = a["generation"] /\ b["hibernate"] = a["hibernate"]
    BY MergedReport
  <1>2. s.gen \in 0..g /\ s.gen \in Nat
    BY DEF Honest
  <1>3. readInt64Annotation(b, "observed") = s.gen
    <2> b["observed"] = FormatInt(s.gen) /\ s.gen \in Nat
      BY <1>1, <1>2
    <2> QED
      BY IntRead, Zenon
  <1>4. b["observed"] \in {None} \cup {FormatInt(n) : n \in 0..g}
    BY <1>1, <1>2, Zenon
  <1>5. Asked(d, g, b)
    BY <1>1, SameRequest DEF PodInv
  <1>6. Honest(d, g, b["state"], readInt64Annotation(b, "observed"), b["message"])
    BY <1>1, <1>3, Zenon
  <1>7. PodInv(d, g, b)
    BY <1>1, <1>4, <1>5, <1>6, Zenon DEF PodInv
  <1> QED
    BY <1>7

\* And when the operator patches a generation with its request into it.
LEMMA RequestKeepsPod ==
    ASSUME NEW d, NEW g \in Nat, NEW a, PodInv(d, g, a), NEW o,
           NEW n \in 1..g, NEW on \in BOOLEAN, Wanted(d, n, on),
           DOMAIN o = Keys, o = [k \in Keys |-> o[k]],
           ~StaleBase => \A k \in RequestKeys : o[k] = a[k]
    PROVE  PodInv(d, g, Merged(a, buildMergePatch(o,
                            StampCocoonSetGeneration(HibernateState(o, on), n))))
  <1> PICK b : b = Merged(a, buildMergePatch(o,
                         StampCocoonSetGeneration(HibernateState(o, on), n)))
    OBVIOUS
  <1>1. /\ DOMAIN b = Keys /\ b = [k \in Keys |-> b[k]]
        /\ b["generation"] \in {FormatInt(n), a["generation"]}
        /\ ~StaleBase => /\ b["generation"] = FormatInt(n)
                      /\ b["hibernate"] = IF on THEN <<"true">> ELSE None
        /\ \A k \in {"state", "observed", "message"} : b[k] = a[k]
    BY MergedRequest
  <1>2. n \in Nat /\ n > 0
    OBVIOUS
  <1>3. b["generation"] \in {None, <<"text">>} \cup {FormatInt(i) : i \in 1..g}
    BY <1>1, Zenon DEF PodInv, Asked
  <1>4. None # <<"true">>
    BY DEF None
  <1>5. ASSUME ~StaleBase
        PROVE  Wanted(d, ReadCocoonSetGeneration(b), ReadHibernateState(b))
    <2>1. ReadCocoonSetGeneration(b) = n
      BY <1>1, <1>2, <1>5, IntRead DEF ReadCocoonSetGeneration
    <2>2. ReadHibernateState(b) = on
      <3>1. CASE on = TRUE
        BY <1>1, <1>5, <3>1, Zenon DEF ReadHibernateState
      <3>2. CASE on = FALSE
        BY <1>1, <1>4, <1>5, <3>2, Zenon DEF ReadHibernateState
      <3> QED
        BY <3>1, <3>2
    <2> QED
      BY <2>1, <2>2, Zenon
  <1>6. Asked(d, g, b)
    BY <1>3, <1>5, Zenon DEF Asked
  <1>7. readInt64Annotation(b, "observed") = readInt64Annotation(a, "observed")
    BY <1>1, Zenon DEF readInt64Annotation
  <1>8. Honest(d, g, b["state"], readInt64Annotation(b, "observed"), b["message"])
    BY <1>1, <1>7, Zenon DEF PodInv
  <1>9. b["observed"] \in {None} \cup {FormatInt(i) : i \in 0..g}
    BY <1>1, Zenon DEF PodInv
  <1>10. PodInv(d, g, b)
    BY <1>1, <1>6, <1>8, <1>9, Zenon DEF PodInv
  <1> QED
    BY <1>10

-----------------------------------------------------------------------------
(* The invariant, action by action.                                        *)

\* A new pod reports nothing and has been asked for nothing.
LEMMA InitIInv == ASSUME Init PROVE IInv
  <1>1. UserInv /\ gen = 1
    <2>1. want \in [gen : {1}, hibernate : BOOLEAN] /\ want \in asked
      BY DEF Init
    <2> QED
      BY <2>1 DEF UserInv, gen
  <1>2. /\ DOMAIN annos = Keys /\ annos = [k \in Keys |-> annos[k]]
        /\ annos["generation"] \in {None, <<"text">>}
        /\ \A k \in Keys \ {"generation"} : annos[k] = None
    BY DEF Init, Unstamped, Keys, RequestKeys
  <1>3. ReadCocoonSetGeneration(annos) = 0
    BY <1>2, IntRead DEF ReadCocoonSetGeneration
  <1>4. annos["observed"] = None /\ annos["state"] = None /\ annos["message"] = None
    BY <1>2 DEF Keys
  <1>5. readInt64Annotation(annos, "observed") = 0
    BY <1>4, IntRead
  <1>6. Asked(asked, gen, annos)
    BY <1>2, <1>3 DEF Asked
  <1>7. None # <<"failed">>
    BY DEF None
  <1>8. Honest(asked, gen, annos["state"], readInt64Annotation(annos, "observed"),
               annos["message"])
    BY <1>1, <1>4, <1>5, <1>7 DEF Honest
  <1>9. PodInv(asked, gen, annos)
    BY <1>2, <1>4, <1>6, <1>8, Zenon DEF PodInv
  <1>10. Asked(asked, gen, seen)
    <2>1. seen["generation"] = annos["generation"] /\ seen["hibernate"] = annos["hibernate"]
      BY DEF Init, Request, RequestKeys
    <2> QED
      BY <1>6, <2>1, SameRequest
  <1>11. VkInv
    BY <1>1, <1>10 DEF Init, VkInv, NoJob
  <1>12. OpInv
    BY DEF Init, OpInv
  <1> QED
    BY <1>1, <1>9, <1>11, <1>12, Zenon DEF IInv

\* A request is added to those that were made, under the same generation or a
\* later one.
LEMMA AskStep ==
    ASSUME IInv, want' \in [gen : Nat \ {0}, hibernate : BOOLEAN], gen <= gen',
           asked' = asked \cup {want'},
           UNCHANGED <<annos, op, seen, job, status>>
    PROVE  IInv'
  <1>1. gen \in Nat /\ gen' \in Nat
    BY DEF IInv, UserInv, gen
  <1>2. /\ \A n, h : Wanted(asked, n, h) => Wanted(asked', n, h)
        /\ \A a : Asked(asked, gen, a) => Asked(asked', gen', a)
        /\ \A s, n, m : Honest(asked, gen, s, n, m) => Honest(asked', gen', s, n, m)
        /\ \A a : PodInv(asked, gen, a) => PodInv(asked', gen', a)
    BY <1>1, Grow
  <1>3. UserInv'
    BY DEF UserInv
  <1>4. PodInv(asked', gen', annos')
    BY <1>2, Zenon DEF IInv
  <1>5. OpInv'
    <2>1. 1..gen \subseteq 1..gen' /\ asked \subseteq asked'
      BY <1>1
    <2> QED
      BY <2>1, Zenon DEF IInv, OpInv, idle
  <1>6. VkInv'
    <2>1. 0..gen \subseteq 0..gen'
      BY <1>1
    <2> QED
      BY <1>2, <2>1, Zenon DEF IInv, VkInv
  <1> QED
    BY <1>3, <1>4, <1>5, <1>6, Zenon DEF IInv

\* A user edits the CocoonSet.
LEMMA EditStep == ASSUME IInv, EditCocoonSet PROVE IInv'
  <1>1. PICK h \in BOOLEAN : want' = [gen |-> gen + 1, hibernate |-> h]
    BY DEF EditCocoonSet
  <1>2. gen \in Nat \ {0} /\ gen' = gen + 1
    BY <1>1 DEF IInv, UserInv, gen
  <1> QED
    BY <1>1, <1>2, AskStep DEF EditCocoonSet, vkVars

\* A CocoonHibernation asks something else of the pod.
LEMMA HibernationStep == ASSUME IInv, RequestHibernation PROVE IInv'
  <1>1. /\ want' \in [gen : Nat \ {0}, hibernate : BOOLEAN]
        /\ gen' = gen /\ gen \in Nat
    BY DEF RequestHibernation, IInv, UserInv, gen
  <1> QED
    BY <1>1, AskStep DEF RequestHibernation, vkVars

\* The operator's copy catches up with the pod.
LEMMA OperatorSyncStep == ASSUME IInv, OperatorSync PROVE IInv'
  <1>1. UNCHANGED <<want, asked, annos, op, seen, job, status>>
    BY DEF OperatorSync, userVars, vkVars
  <1>2. gen' = gen
    BY <1>1 DEF gen
  <1>3. OpInv'
    BY <1>1, <1>2, Zenon DEF IInv, OpInv, idle
  <1>4. VkInv'
    BY <1>1, <1>2, Zenon DEF IInv, VkInv
  <1>5. UserInv'
    BY <1>1, Zenon DEF IInv, UserInv
  <1> QED
    BY <1>1, <1>2, <1>3, <1>4, <1>5, Zenon DEF IInv

\* The operator takes a pod to patch: if its copy has its own last patch in it,
\* the request it starts from is the pod's.
LEMMA OperatorGetStep == ASSUME IInv, OperatorGet PROVE IInv'
  <1>1. UNCHANGED <<want, asked, annos, seen, job, status>>
    BY DEF OperatorGet, userVars, vkVars
  <1>2. op'.pc = "patch" /\ op'.want = want /\ op'.obj = Merged(annos, cache)
    BY DEF OperatorGet
  <1>3. /\ gen' = gen /\ want \in asked
        /\ want.gen \in 1..gen /\ want.hibernate \in BOOLEAN
    BY <1>1 DEF IInv, UserInv, gen
  <1>4. PICK o : o = Merged(annos, cache)
    OBVIOUS
  <1>5. DOMAIN o = Keys /\ o = [k \in Keys |-> o[k]]
    BY <1>4 DEF Merged
  <1>6. ASSUME ~StaleBase PROVE \A k \in RequestKeys : o[k] = annos[k]
    <2>1. cache = [k \in RequestKeys |-> annos[k]]
      BY <1>6 DEF OperatorGet, Request
    <2> QED
      BY <1>4, <2>1 DEF Merged, Keys
  <1>7. OpInv'
    <2>1. op'.obj = o
      BY <1>2, <1>4
    <2> QED
      BY <1>1, <1>2, <1>3, <1>5, <1>6, <2>1, Zenon DEF OpInv
  <1>8. VkInv'
    BY <1>1, <1>3, Zenon DEF IInv, VkInv
  <1>9. UserInv'
    BY <1>1, Zenon DEF IInv, UserInv
  <1> QED
    BY <1>1, <1>3, <1>7, <1>8, <1>9, Zenon DEF IInv

\* The operator's patch, carried out or not, leaves a request of one generation.
LEMMA OperatorPatchStep == ASSUME IInv, OperatorPatch PROVE IInv'
  <1>1. UNCHANGED <<want, asked, seen, job, status>> /\ op' = idle
    BY DEF OperatorPatch, userVars, vkVars
  <1>2. gen' = gen /\ gen \in Nat
    BY <1>1 DEF IInv, UserInv, gen
  <1>3. op # idle
    BY DEF OperatorPatch, idle
  <1>4. /\ op.want \in asked /\ op.want.gen \in 1..gen /\ op.want.hibernate \in BOOLEAN
        /\ DOMAIN op.obj = Keys /\ op.obj = [k \in Keys |-> op.obj[k]]
        /\ ~StaleBase => \A k \in RequestKeys : op.obj[k] = annos[k]
    BY <1>3, Zenon DEF IInv, OpInv
  <1>5. Wanted(asked, op.want.gen, op.want.hibernate)
    BY <1>4, Zenon DEF Wanted
  <1>6. PodInv(asked, gen, Merged(annos, buildMergePatch(op.obj,
            StampCocoonSetGeneration(HibernateState(op.obj, op.want.hibernate),
                                     op.want.gen))))
    <2> PICK n \in 1..gen, on \in BOOLEAN : n = op.want.gen /\ on = op.want.hibernate
      BY <1>4
    <2> Wanted(asked, n, on)
      BY <1>5
    <2>1. PodInv(asked, gen, Merged(annos, buildMergePatch(op.obj,
              StampCocoonSetGeneration(HibernateState(op.obj, on), n))))
      BY <1>2, <1>4, RequestKeepsPod DEF IInv
    <2> QED
      BY <2>1
  <1>7. PodInv(asked, gen, annos')
    BY <1>6 DEF OperatorPatch, Mutated, IInv
  <1>8. VkInv'
    BY <1>1, <1>2, Zenon DEF IInv, VkInv
  <1>9. OpInv'
    BY <1>1, Zenon DEF IInv, OpInv, idle
  <1>10. UserInv'
    BY <1>1, Zenon DEF IInv, UserInv
  <1> QED
    BY <1>1, <1>2, <1>7, <1>8, <1>9, <1>10, Zenon DEF IInv

\* vk-cocoon's copy catches up with the pod.
LEMMA VkSyncStep == ASSUME IInv, VkSync PROVE IInv'
  <1>1. UNCHANGED <<want, asked, annos, op, job, status>> /\ seen' = Request(annos)
    BY DEF VkSync, userVars
  <1>2. gen' = gen
    BY <1>1 DEF gen
  <1>3. Asked(asked', gen', seen')
    <2>1. /\ seen'["generation"] = annos["generation"]
          /\ seen'["hibernate"] = annos["hibernate"]
      BY <1>1 DEF Request, RequestKeys
    <2>2. Asked(asked, gen, seen')
      BY <2>1, SameRequest DEF IInv, PodInv
    <2> QED
      BY <1>1, <1>2, <2>2
  <1>4. VkInv'
    BY <1>1, <1>2, <1>3, Zenon DEF IInv, VkInv
  <1>5. OpInv'
    BY <1>1, <1>2, Zenon DEF IInv, OpInv, idle
  <1>6. UserInv'
    BY <1>1, Zenon DEF IInv, UserInv
  <1> QED
    BY <1>1, <1>2, <1>4, <1>5, <1>6, Zenon DEF IInv

\* The three reports vk-cocoon makes of its job are honest ones.
LEMMA HonestReports ==
    ASSUME NEW d, NEW g, NEW n \in 0..g, NEW h \in BOOLEAN,
           ~StaleBase /\ n > 0 => Wanted(d, n, h)
    PROVE  /\ Honest(d, g, <<Goal(h)>>, n, None)
           /\ Honest(d, g, <<Underway(h)>>, n, None)
           /\ Honest(d, g, <<"failed">>, n, <<"reason", n>>)
  <1>1. /\ <<Goal(h)>> # <<"failed">> /\ <<Underway(h)>> # <<"failed">>
        /\ <<Underway(h)>> \notin {<<"ready">>, <<"hibernated">>}
        /\ <<"failed">> \notin {<<"ready">>, <<"hibernated">>}
    BY DEF Goal, Underway
  <1> QED
    BY <1>1, Zenon DEF Honest

\* vk-cocoon takes up the request its copy holds.  A completion it keeps
\* reporting is the one the new request asks for.
LEMMA VkObserveStep == ASSUME IInv, VkObserve PROVE IInv'
  <1> DEFINE n == ReadCocoonSetGeneration(seen)
             h == ReadHibernateState(seen)
             st == IF status.state = <<Goal(h)>> THEN Goal(h) ELSE Underway(h)
  <1>1. UNCHANGED <<want, asked, annos, op, seen>>
    BY DEF VkObserve, userVars
  <1>2. job' = [gen |-> n, hibernate |-> h] /\ status' = LifecycleStatus(st, n, None)
    BY DEF VkObserve
  <1>3. gen' = gen /\ gen \in Nat
    BY <1>1 DEF IInv, UserInv, gen
  <1>4. n \in 0..gen
    BY <1>3, AskedGeneration DEF IInv, VkInv
  <1>5. h \in BOOLEAN /\ (~StaleBase /\ n > 0 => Wanted(asked, n, h))
    BY Zenon DEF IInv, VkInv, Asked, ReadHibernateState
  <1> HIDE DEF n, h
  <1>6. st \in {Goal(h), Underway(h)}
    OBVIOUS
  <1>7. Honest(asked, gen, <<st>>, n, None)
    <2>1. /\ Honest(asked, gen, <<Goal(h)>>, n, None)
          /\ Honest(asked, gen, <<Underway(h)>>, n, None)
      BY <1>4, <1>5, HonestReports
    <2> QED
      BY <1>6, <2>1, Zenon
  <1> HIDE DEF st
  <1>8. job'.gen = n /\ job'.hibernate = h
    BY <1>2
  <1>9. status'.gen = n /\ status'.state = <<st>> /\ status'.message = None
    BY <1>2 DEF LifecycleStatus
  <1>10. VkInv'
    <2>1. Asked(asked', gen', seen')
      BY <1>1, <1>3 DEF IInv, VkInv
    <2>2. job'.gen \in 0..gen' /\ job'.hibernate \in BOOLEAN
      BY <1>3, <1>4, <1>5, <1>8, Zenon
    <2>3. ~StaleBase /\ job'.gen > 0 => Wanted(asked', job'.gen, job'.hibernate)
      BY <1>1, <1>5, <1>8, Zenon
    <2>4. status'.state \in {<<Goal(job'.hibernate)>>, <<Underway(job'.hibernate)>>,
                             <<"failed">>}
      BY <1>6, <1>8, <1>9, Zenon
    <2>5. Honest(asked', gen', status'.state, status'.gen, status'.message)
      BY <1>1, <1>3, <1>7, <1>9, Zenon
    <2> QED
      BY <1>8, <1>9, <2>1, <2>2, <2>3, <2>4, <2>5, Zenon DEF VkInv
  <1>11. OpInv'
    BY <1>1, <1>3, Zenon DEF IInv, OpInv, idle
  <1>12. UserInv'
    BY <1>1, Zenon DEF IInv, UserInv
  <1> QED
    BY <1>1, <1>3, <1>10, <1>11, <1>12, Zenon DEF IInv

\* A job ends, well or with a reason of its own.
LEMMA VkFinishStep == ASSUME IInv, VkFinish PROVE IInv'
  <1>1. UNCHANGED <<want, asked, annos, op, seen, job>>
    BY DEF VkFinish, userVars
  <1>2. \/ status' = LifecycleStatus(Goal(job.hibernate), job.gen, None)
        \/ status' = LifecycleStatus("failed", job.gen, <<"reason", job.gen>>)
    BY DEF VkFinish
  <1>3. gen' = gen
    BY <1>1 DEF gen
  <1>4. /\ Honest(asked, gen, <<Goal(job.hibernate)>>, job.gen, None)
        /\ Honest(asked, gen, <<"failed">>, job.gen, <<"reason", job.gen>>)
    BY HonestReports DEF IInv, VkInv
  <1>5. /\ status'.gen = job.gen
        /\ \/ status'.state = <<Goal(job.hibernate)>> /\ status'.message = None
           \/ status'.state = <<"failed">> /\ status'.message = <<"reason", job.gen>>
    BY <1>2 DEF LifecycleStatus
  <1>6. Honest(asked', gen', status'.state, status'.gen, status'.message)
    BY <1>1, <1>3, <1>4, <1>5, Zenon
  <1>7. status'.state \in {<<Goal(job'.hibernate)>>, <<Underway(job'.hibernate)>>,
                           <<"failed">>}
    BY <1>1, <1>5, Zenon
  <1>8. VkInv'
    BY <1>1, <1>3, <1>5, <1>6, <1>7, Zenon DEF IInv, VkInv
  <1>9. OpInv'
    BY <1>1, <1>3, Zenon DEF IInv, OpInv, idle
  <1>10. UserInv'
    BY <1>1, Zenon DEF IInv, UserInv
  <1> QED
    BY <1>1, <1>3, <1>8, <1>9, <1>10, Zenon DEF IInv

\* A report, carried out or not, leaves the request of the pod alone, and with
\* it the operator's copy of the request.
LEMMA VkReportStep == ASSUME IInv, VkReport PROVE IInv'
  <1>1. UNCHANGED <<want, asked, op, seen, job, status>>
    BY DEF VkReport, userVars
  <1>2. gen' = gen /\ gen \in Nat
    BY <1>1 DEF IInv, UserInv, gen
  <1>3. Honest(asked, gen, status.state, status.gen, status.message)
    BY Zenon DEF IInv, VkInv, VkReport
  <1>4. annos' \in {annos, Merged(annos, Annotations(status))}
    BY DEF VkReport
  <1>5. PodInv(asked, gen, Merged(annos, Annotations(status)))
    BY <1>2, <1>3, ReportKeepsPod DEF IInv
  <1>6. PodInv(asked', gen', annos')
    BY <1>1, <1>2, <1>4, <1>5, Zenon DEF IInv
  <1>7. \A k \in RequestKeys : annos'[k] = annos[k]
    BY <1>4, MergedReport DEF RequestKeys
  <1>8. OpInv'
    BY <1>1, <1>2, <1>7, Zenon DEF IInv, OpInv, idle
  <1>9. VkInv'
    BY <1>1, <1>2, Zenon DEF IInv, VkInv
  <1>10. UserInv'
    BY <1>1, Zenon DEF IInv, UserInv
  <1> QED
    BY <1>6, <1>8, <1>9, <1>10, Zenon DEF IInv

\* vk-cocoon restarts and has nothing to report.
LEMMA VkRestartStep == ASSUME IInv, VkRestart PROVE IInv'
  <1>1. /\ UNCHANGED <<want, asked, annos, op, seen>>
        /\ job' = NoJob /\ status' = NoStatus
    BY DEF VkRestart, userVars
  <1>2. gen' = gen /\ gen \in Nat
    BY <1>1 DEF IInv, UserInv, gen
  <1>3. VkInv'
    <2>1. job'.gen = 0 /\ job'.hibernate = FALSE
      BY <1>1 DEF NoJob
    <2>2. 0 \in 0..gen' /\ ~(0 > 0)
      BY <1>2
    <2>3. job'.gen \in 0..gen' /\ job'.hibernate \in BOOLEAN /\ ~(job'.gen > 0)
      BY <2>1, <2>2, Zenon
    <2> QED
      BY <1>1, <1>2, <2>3, Zenon DEF IInv, VkInv
  <1>4. OpInv'
    BY <1>1, <1>2, Zenon DEF IInv, OpInv, idle
  <1>5. UserInv'
    BY <1>1, Zenon DEF IInv, UserInv
  <1> QED
    BY <1>1, <1>2, <1>3, <1>4, <1>5, Zenon DEF IInv

-----------------------------------------------------------------------------
(* The theorems.                                                           *)

\* The invariant holds in every state of every behaviour.
THEOREM Invariance == Spec => []IInv
  <1>1. Init => IInv
    BY InitIInv
  <1>2. IInv /\ [Next]_vars => IInv'
    <2> SUFFICES ASSUME IInv, [Next]_vars PROVE IInv'
      OBVIOUS
    <2>1. CASE UNCHANGED vars
      <3>1. UNCHANGED <<want, asked, annos, op, seen, job, status>> /\ gen' = gen
        BY <2>1 DEF vars, gen
      <3>2. VkInv'
        BY <3>1, Zenon DEF IInv, VkInv
      <3>3. OpInv'
        BY <3>1, Zenon DEF IInv, OpInv, idle
      <3>4. UserInv'
        BY <3>1, Zenon DEF IInv, UserInv
      <3> QED
        BY <3>1, <3>2, <3>3, <3>4, Zenon DEF IInv
    <2> QED
      BY <2>1, EditStep, HibernationStep, OperatorSyncStep, OperatorGetStep,
         OperatorPatchStep, VkSyncStep, VkObserveStep, VkFinishStep, VkReportStep,
         VkRestartStep DEF Next
  <1> QED
    BY <1>1, <1>2, PTL DEF Spec

\* What the pod reports is an honest report.
LEMMA ReportedIsHonest ==
    ASSUME IInv
    PROVE  Honest(asked, gen, Reported.state, Reported.gen, Reported.message)
  <1>1. /\ Reported.state = annos["state"] /\ Reported.message = annos["message"]
        /\ Reported.gen = readInt64Annotation(annos, "observed")
    BY DEF Reported, ReadLifecycleStatus
  <1> QED
    BY <1>1, Zenon DEF IInv, PodInv

\* With an operator whose copy of the pod has its own last patch in it when it makes
\* the next one, a completion with generation n is one of what was asked for under
\* generation n, by the CocoonSet or by a CocoonHibernation (meta/lifecycle.go,
\* meta/hibernate.go), for every number of generations, lost answers, failures and
\* restarts.
THEOREM CompletionsAreMine ==
    ASSUME ~StaleBase
    PROVE  Spec => []CompletionIsMine
  <1>1. IInv => CompletionIsMine
    <2> SUFFICES ASSUME IInv PROVE CompletionIsMine
      OBVIOUS
    <2>1. Honest(asked, gen, Reported.state, Reported.gen, Reported.message)
      BY ReportedIsHonest
    <2>2. Reported.gen <= gen
      <3>1. gen \in Nat
        BY DEF IInv, UserInv, gen
      <3> QED
        BY <2>1, <3>1 DEF Honest
    <2>3. ASSUME Reported.gen > 0, Reported.state \in {<<"ready">>, <<"hibernated">>}
          PROVE  \E r \in asked : /\ r.gen = Reported.gen
                                  /\ Reported.state = <<Goal(r.hibernate)>>
      BY <2>1, <2>3, Zenon DEF Honest, Wanted
    <2> QED
      BY <2>2, <2>3, Zenon DEF CompletionIsMine
  <1> QED
    BY <1>1, Invariance, PTL

\* A pod carries the reason of the failure it reports, and no other: every
\* report writes the message, empty or not (LifecycleStatus.Annotations).  This
\* needs no care of the operator: it holds for a stale base as well.
THEOREM NoMessageTails == Spec => []NoTailingMessage
  <1>1. IInv => NoTailingMessage
    <2> SUFFICES ASSUME IInv PROVE NoTailingMessage
      OBVIOUS
    <2>1. Honest(asked, gen, Reported.state, Reported.gen, Reported.message)
      BY ReportedIsHonest
    <2> QED
      BY <2>1, Zenon DEF Honest, NoTailingMessage
  <1> QED
    BY <1>1, Invariance, PTL
=============================================================================
