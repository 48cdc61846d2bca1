----------------------------- MODULE Lifecycle -----------------------------
(***************************************************************************)
(* The lifecycle protocol on the annotations of a pod (meta/lifecycle.go,  *)
(* meta/hibernate.go, k8s/clientpatch.go, k8s/patch.go): the operator      *)
(* stamps the generation of the CocoonSet and asks for hibernation or      *)
(* wake, vk-cocoon reports back what it did and for which generation, and  *)
(* a client waits for the report of the generation it asked for.  A        *)
(* CocoonHibernation asks for hibernation or wake of one pod and leaves    *)
(* the generation of the CocoonSet as it is (docs/apis.md).                *)
(*                                                                         *)
(* Operator and vk-cocoon are external and modelled by the calls that      *)
(* docs/meta.md and docs/kubernetes.md describe: the operator takes the    *)
(* pod from its cache and patches it with k8s.Patch, vk-cocoon works on a  *)
(* copy of its own and reports with AnnotationsMergePatch, skipping a      *)
(* report equal to the last one.  Both copies may be old.  The API server  *)
(* applies a merge patch atomically, whichever version it was made from:   *)
(* the patch carries no resourceVersion.  The answer may be lost.          *)
(*                                                                         *)
(* An annotation value is a tuple, <<>> when the key is missing or empty.  *)
(***************************************************************************)
EXTENDS Integers, Sequences

CONSTANTS MaxGen,    \* bound: generations of the CocoonSet
          MaxFaults, \* bound: failed calls, failed operations and restarts
          StaleBase  \* the operator patches a copy that may miss its own last patch

ASSUME MaxAssumption == MaxGen \in Nat \ {0} /\ MaxFaults \in Nat
ASSUME StaleAssumption == StaleBase \in BOOLEAN

RequestKeys == {"generation", "hibernate"} \* the operator alone writes these
Keys == RequestKeys \cup {"state", "observed", "message"}
None == <<>>

VARIABLES want,    \* what is asked of the pod: gen and hibernate
          asked,   \* history: everything that was ever asked of it
          annos,   \* the pod's annotations at the API server
          cache,   \* the operator's copy of the keys it writes
          op,      \* the operator's reconciliation: pc, want, and the pod it patches
          seen,    \* vk-cocoon's copy of the request, the annotations it reads
          job,     \* what vk-cocoon is working on: gen and hibernate
          status,  \* the LifecycleStatus it wants reported
          last,    \* Snapshot() of what the pod is known to report
          faults

vars == <<want, asked, annos, cache, op, seen, job, status, last, faults>>
userVars == <<want, asked>>
vkVars == <<seen, job, status, last>>

-----------------------------------------------------------------------------
(* package meta                                                            *)

FormatInt(n) == <<"decimal", n>>

\* Missing and unparseable are 0.
readInt64Annotation(a, key) == IF Len(a[key]) = 2 THEN a[key][2] ELSE 0

ReadCocoonSetGeneration(a) == readInt64Annotation(a, "generation")
StampCocoonSetGeneration(a, n) == [a EXCEPT !["generation"] = FormatInt(n)]

\* Fault: false is skipped, as VMSpec.Apply skips it.
HibernateState_NoClear(a, on) ==
    IF on THEN [a EXCEPT !["hibernate"] = <<"true">>] ELSE a

HibernateState(a, on) ==
    [a EXCEPT !["hibernate"] = IF on THEN <<"true">> ELSE None]

ReadHibernateState(a) == a["hibernate"] = <<"true">>

LifecycleStatus(state, gen, message) ==
    [state |-> <<state>>, gen |-> gen, message |-> message]
NoStatus == [state |-> None, gen |-> 0, message |-> None]

\* Fault: an empty message is left out of the patch.
Annotations_SkipEmpty(s) ==
    [k \in {"state", "observed"} \cup (IF s.message = None THEN {} ELSE {"message"}) |->
        CASE k = "state" -> s.state
          [] k = "observed" -> FormatInt(s.gen)
          [] k = "message" -> s.message]

\* A key with the value None is one the patch deletes.
Annotations(s) ==
    [k \in {"state", "observed", "message"} |->
        CASE k = "state" -> s.state
          [] k = "observed" -> FormatInt(s.gen)
          [] k = "message" -> s.message]

ReadLifecycleStatus(a) ==
    [state |-> a["state"], gen |-> readInt64Annotation(a, "observed"),
     message |-> a["message"]]

Snapshot(s) == <<s.state, s.gen, s.message>>

-----------------------------------------------------------------------------
(* package k8s                                                             *)

\* client.MergeFrom: the keys in which the object differs from its base.
MergeFrom(base, obj) == [k \in {key \in Keys : base[key] # obj[key]} |-> obj[k]]

\* Fault: the patch holds the whole object.
buildMergePatch_Whole(obj, mutated) == mutated

\* The base is a deep copy, taken before mutate changes the object.
buildMergePatch(obj, mutated) == MergeFrom(obj, mutated)

\* AnnotationsMergePatch, as the API server applies it.
Merged(a, patch) == [k \in Keys |-> IF k \in DOMAIN patch THEN patch[k] ELSE a[k]]

-----------------------------------------------------------------------------

gen == want.gen
idle == [pc |-> "idle", want |-> None, obj |-> None]
NoJob == [gen |-> 0, hibernate |-> FALSE]
Unstamped == [k \in Keys |-> None]
Request(a) == [k \in RequestKeys |-> a[k]]

\* A new pod may carry no generation yet, or something that is no number.
Init == /\ want \in [gen : {1}, hibernate : BOOLEAN] /\ asked = {want}
        /\ annos \in {[Unstamped EXCEPT !["generation"] = raw] :
                        raw \in {None, <<"text">>}}
        /\ cache = Request(annos) /\ op = idle /\ seen = Request(annos)
        /\ job = NoJob
        /\ status = NoStatus /\ last = None /\ faults = 0

\* A user changes the CocoonSet, its suspend field or something else: a new
\* generation.
EditCocoonSet ==
    /\ gen < MaxGen
    /\ \E hibernate \in BOOLEAN : want' = [gen |-> gen + 1, hibernate |-> hibernate]
    /\ asked' = asked \cup {want'}
    /\ UNCHANGED <<annos, cache, op, vkVars, faults>>

\* A CocoonHibernation asks the other thing of the pod, in the same generation.
RequestHibernation ==
    /\ want' = [want EXCEPT !.hibernate = ~@]
    /\ asked' = asked \cup {want'}
    /\ UNCHANGED <<annos, cache, op, vkVars, faults>>

\* The watch brings the operator's copy up to date.
OperatorSync ==
    /\ cache # Request(annos)
    /\ cache' = Request(annos)
    /\ UNCHANGED <<userVars, annos, op, vkVars, faults>>

\* What the operator's Mutator makes of a pod: generation and request together.
Mutated(obj, w) == StampCocoonSetGeneration(HibernateState(obj, w.hibernate), w.gen)

\* Fault: the operator patches whatever its cache holds.
OperatorGet_Stale ==
    LET obj == Merged(annos, cache)
    IN
    /\ op.pc = "idle" /\ Mutated(obj, want) # obj
    /\ op' = [pc |-> "patch", want |-> want, obj |-> obj]
    /\ UNCHANGED <<userVars, annos, cache, vkVars, faults>>

\* The operator reconciles a pod that, by its copy, does not carry what is wanted.
\* k8s.Patch takes any object, and the API server any patch: that the copy has the
\* operator's own last patch in it is for the operator to see to.
OperatorGet ==
    LET obj == Merged(annos, cache)
    IN
    /\ op.pc = "idle" /\ Mutated(obj, want) # obj
    /\ StaleBase \/ cache = Request(annos)
    /\ op' = [pc |-> "patch", want |-> want, obj |-> obj]
    /\ UNCHANGED <<userVars, annos, cache, vkVars, faults>>

\* One patch for both keys; a call that fails may have been carried out.
OperatorPatch ==
    LET done == Merged(annos, buildMergePatch(op.obj, Mutated(op.obj, op.want)))
    IN
    /\ op.pc = "patch"
    /\ \/ annos' = done /\ UNCHANGED faults
       \/ /\ faults < MaxFaults /\ faults' = faults + 1
          /\ annos' \in {annos, done}
    /\ op' = idle
    /\ UNCHANGED <<userVars, cache, vkVars>>

-----------------------------------------------------------------------------

Goal(hibernate) == IF hibernate THEN "hibernated" ELSE "ready"
Underway(hibernate) == IF hibernate THEN "hibernating" ELSE "creating"

\* The watch brings vk-cocoon's copy up to date.
VkSync ==
    /\ seen # Request(annos)
    /\ seen' = Request(annos)
    /\ UNCHANGED <<userVars, annos, cache, op, job, status, last, faults>>

\* vk-cocoon takes generation and request from one copy.  A new generation of
\* a request already served needs no work.
VkObserve ==
    LET todo == [gen |-> ReadCocoonSetGeneration(seen),
                 hibernate |-> ReadHibernateState(seen)]
    IN
    /\ todo # job \/ status = NoStatus
    /\ job' = todo
    /\ status' = LifecycleStatus(IF status.state = <<Goal(todo.hibernate)>>
                                THEN Goal(todo.hibernate) ELSE Underway(todo.hibernate),
                                todo.gen, None)
    /\ UNCHANGED <<userVars, annos, cache, op, seen, last, faults>>

VkFinish ==
    /\ status.state = <<Underway(job.hibernate)>>
    /\ \/ /\ status' = LifecycleStatus(Goal(job.hibernate), job.gen, None)
          /\ UNCHANGED faults
       \/ /\ faults < MaxFaults /\ faults' = faults + 1
          /\ status' = LifecycleStatus("failed", job.gen, <<"reason", job.gen>>)
    /\ UNCHANGED <<userVars, annos, cache, op, seen, job, last>>

\* After a call that failed it is not known what the pod reports: the next
\* report is made whatever it is.
VkReport ==
    /\ status # NoStatus /\ Snapshot(status) # last
    /\ \/ /\ annos' = Merged(annos, Annotations(status))
          /\ last' = Snapshot(status) /\ UNCHANGED faults
       \/ /\ faults < MaxFaults /\ faults' = faults + 1
          /\ annos' \in {annos, Merged(annos, Annotations(status))}
          /\ last' = None
    /\ UNCHANGED <<userVars, cache, op, seen, job, status>>

VkRestart ==
    /\ faults < MaxFaults /\ faults' = faults + 1
    /\ job' = NoJob /\ status' = NoStatus /\ last' = None
    /\ UNCHANGED <<userVars, annos, cache, op, seen>>

Next == \/ EditCocoonSet \/ RequestHibernation
        \/ OperatorSync \/ OperatorGet \/ OperatorPatch
        \/ VkSync \/ VkObserve \/ VkFinish \/ VkReport \/ VkRestart

Spec == Init /\ [][Next]_vars

\* Both controllers are level-triggered: they retry until nothing is left to do.
FairSpec == /\ Spec
            /\ WF_vars(OperatorSync) /\ WF_vars(OperatorGet \/ OperatorPatch)
            /\ WF_vars(VkSync) /\ WF_vars(VkObserve) /\ WF_vars(VkFinish)
            /\ WF_vars(VkReport)

-----------------------------------------------------------------------------
(* Properties.                                                             *)

Reported == ReadLifecycleStatus(annos)

\* "Counter-based completion lets a client tell the operation I asked for
\* finished from an older completion is still being reported" (docs/meta.md):
\* a completion with generation n is one of an operation that was asked for
\* under generation n, whichever reports, patches and answers were late, lost or
\* interleaved, provided that the operator's own last patch is in the copy it makes
\* the next one from, ~StaleBase (lifecycle.go:82, hibernate.go:11, clientpatch.go:31).
CompletionIsMine ==
    /\ Reported.gen <= gen
    /\ Reported.gen > 0 /\ Reported.state \in {<<"ready">>, <<"hibernated">>}
         => \E r \in asked : r.gen = Reported.gen /\ Reported.state = <<Goal(r.hibernate)>>

\* "A stale failure reason cannot tail into the next lifecycle": a pod carries
\* a reason when and only when it reports a failure, and then the reason of
\* that failure (lifecycle.go:28).
NoTailingMessage ==
    Reported.message = IF Reported.state = <<"failed">>
                       THEN <<"reason", Reported.gen>> ELSE None

\* Once CocoonSet and CocoonHibernation are left alone, the pod comes to report
\* the end of what was asked for last and keeps reporting it: no patch of one
\* writer undoes or hides one of the other (clientpatch.go:30, lifecycle.go:54).
ReportsSettle ==
    <>[][FALSE]_want =>
        <>[](Reported.gen = gen /\ Reported.state \in {<<Goal(want.hibernate)>>, <<"failed">>})
=============================================================================
