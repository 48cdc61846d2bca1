---------------------------- MODULE SnapshotStore ----------------------------
(***************************************************************************)
(* The snapshots of one pod in the registry: vk-cocoon pushes and pulls    *)
(* them, cocoon-operator probes and deletes their tags, both through       *)
(* oci.OCIRegistry (oci/oci.go); the registry collects blobs no manifest   *)
(* refers to.  The two programs are external: they are modelled by the     *)
(* calls docs/registry.md and docs/meta.md say they make.                  *)
(*                                                                         *)
(* A request is answered "ok", "404" or, when it breaks or the server      *)
(* fails, "fault"; after a fault nobody knows whether it was carried out.  *)
(* The layers of one push are told apart by digest only and are sent one   *)
(* after another: PushPipeline has their concurrency.                      *)
(***************************************************************************)
EXTENDS VMName

CONSTANTS Pods,      \* [ns, set, slot, toolbox, owners, role]; slot -1 is a toolbox
          Policies,  \* values of the annotation snapshot-policy
          Layers,    \* Layers[k]: the blobs of the k-th snapshot taken
          MaxFaults  \* bound: broken requests and crashes in a behaviour

\* A pod is owned by its CocoonSet and has the role it is created with.  The
\* webhook rejects a toolbox whose name is a number (docs/apis.md).
ASSUME PodsAssumption ==
    \A p \in Pods :
      /\ p.ns \in Seq(Word) /\ p.set \in Seq(Word) /\ p.toolbox \in Seq(Word)
      /\ CocoonSetOwnerName(p.owners) = p.set
      /\ \/ /\ p.slot \in DOMAIN Itoa
            /\ p.role = IF p.slot = 0 THEN RoleMain ELSE RoleSubAgent
         \/ /\ p.slot = -1 /\ p.role = RoleToolbox
            /\ \A n \in DOMAIN Itoa : p.toolbox # <<Itoa[n]>>

AllBlobs == UNION {Layers[k] : k \in DOMAIN Layers}
ASSUME LayersAssumption == Layers \in Seq(SUBSET AllBlobs) /\ MaxFaults \in Nat

Tags == {"hibernate", "latest"}
Absent == 0

VARIABLES pod, policy,
          phase,   \* "running", "hibernated", "released", "deleting", "gone", "broken"
          vm,      \* the snapshot the running VM was restored from, if any
          hib,     \* the snapshot of the last hibernation that succeeded
          blobs, tags,
          push,    \* the push in progress: pc, tag, todo, blob
          taken,   \* snapshots taken so far
          sent,    \* blobs the pusher of the upload session knows as sent
          body,    \* position of the body being uploaded: "start" or "read"
          wake,    \* the pull in progress: snap, todo
          saved,   \* the last snapshot published as "latest"
          cleaned, \* tags the operator has seen to after the pod is gone
          faults

vars == <<pod, policy, phase, vm, hib, blobs, tags, push, taken, sent, body, wake,
          saved, cleaned, faults>>
podVars == <<pod, policy>>
idle == [pc |-> "idle", tag |-> "none", todo |-> {}, blob |-> "none"]
asleep == [snap |-> Absent, todo |-> {}]

Init == /\ pod \in Pods /\ policy \in Policies
        /\ phase = "running" /\ vm = Absent /\ hib = Absent
        /\ blobs = {} /\ tags = [t \in Tags |-> Absent]
        /\ push = idle /\ taken = 0 /\ sent = {} /\ body = "read" /\ wake = asleep
        /\ saved = Absent /\ cleaned = {} /\ faults = 0

-----------------------------------------------------------------------------
(* The client.                                                             *)

\* Fault: every failed request counts as "not there".
isNotFound_AnyError(answer) == answer # "ok"

isNotFound(answer) == answer = "404"

\* Fault: a 404 is an error like any other.
ignoreNotFound_Strict(answer) == "error"

ignoreNotFound(answer) == IF isNotFound(answer) THEN "nil" ELSE "error"

\* HasBlob and HasManifest: what a HEAD tells.
Found(answer) == IF answer = "ok" THEN [has |-> TRUE, err |-> "nil"]
                ELSE [has |-> FALSE, err |-> ignoreNotFound(answer)]

GetManifest(answer) == IF answer = "ok" THEN "nil"
                       ELSE IF isNotFound(answer) THEN "ErrManifestNotFound" ELSE "error"

DeleteManifest(answer) == IF answer = "ok" THEN "nil" ELSE ignoreNotFound(answer)

\* Fault: a second attempt goes on where the first stopped reading.
Compressed_NoRewind(position) == position

\* streamLayer.Compressed: every attempt reads the body from its start.
Compressed(position) == "start"

\* Fault: one pusher for all pushes of the client.
UploadSession_Shared == sent

\* A session has a pusher of its own, which knows of no blob.
UploadSession == {}

\* Answers to a request for something that is there, or is not.
Answers(there) == {IF there THEN "ok" ELSE "404"}
                  \cup (IF faults < MaxFaults THEN {"fault"} ELSE {})
Count(answer) == faults' = faults + (IF answer = "fault" THEN 1 ELSE 0)

-----------------------------------------------------------------------------
(* vk-cocoon: hibernation, the snapshot at pod deletion, wake.             *)

vmName == IF pod.slot >= 0 THEN VMNameForDeployment(pod.ns, pod.set, pod.slot)
          ELSE VMNameForPod(pod.ns, ToolboxPodName(pod.set, pod.toolbox))

PushStart(tag) ==
    /\ push.pc = "idle" /\ taken < Len(Layers)
    /\ \/ phase = "running" /\ tag = "hibernate"
       \/ /\ phase = "deleting" /\ tag = "latest"
          /\ ShouldSnapshotVM(policy, RoleForPod(pod, vmName))
    /\ taken' = taken + 1
    /\ push' = [pc |-> "check", tag |-> tag, todo |-> Layers[taken + 1],
                blob |-> "none"]
    /\ sent' = UploadSession
    /\ UNCHANGED <<podVars, phase, vm, hib, blobs, tags, body, wake, saved, cleaned, faults>>

\* putBlobIfMissing: HasBlob; a body to upload, which was read to hash it, is put
\* back at its start.
CheckBlob(b) ==
    /\ push.pc = "check" /\ b \in push.todo
    /\ \E answer \in Answers(b \in blobs) :
         /\ Count(answer)
         /\ push' = IF Found(answer).err # "nil" THEN idle
                    ELSE IF Found(answer).has THEN [push EXCEPT !.todo = @ \ {b}]
                    ELSE [push EXCEPT !.pc = "put", !.blob = b]
    /\ body' = IF push'.pc = "put" THEN "start" ELSE body
    /\ UNCHANGED <<podVars, phase, vm, hib, blobs, tags, taken, sent, wake, saved,
                   cleaned>>

Ticked == [push EXCEPT !.pc = "check", !.todo = @ \ {push.blob}]

\* PutBlob, an attempt of it: a blob the pusher knows, or finds in the registry, is
\* not sent; for any other an upload is opened.
PutBlob ==
    /\ push.pc = "put"
    /\ \/ /\ push.blob \in sent \cup blobs
          /\ push' = Ticked /\ sent' = sent \cup {push.blob} /\ UNCHANGED body
       \/ /\ push.blob \notin sent \cup blobs
          /\ push' = [push EXCEPT !.pc = "send"] /\ body' = Compressed(body)
          /\ UNCHANGED sent
    /\ UNCHANGED <<podVars, phase, vm, hib, blobs, tags, taken, wake, saved, cleaned,
                   faults>>

\* The body is sent from where it is.  The registry refuses bytes that are not those
\* of the digest, and nobody tries that again.
SendBlob ==
    LET whole == body = "start"
    IN
    /\ push.pc = "send"
    /\ blobs' = IF whole THEN blobs \cup {push.blob} ELSE blobs
    /\ sent' = IF whole THEN sent \cup {push.blob} ELSE sent
    /\ push' = IF whole THEN Ticked ELSE idle
    /\ body' = "read"
    /\ UNCHANGED <<podVars, phase, vm, hib, tags, taken, wake, saved, cleaned, faults>>

\* An attempt breaks off, before the body is read or after, or its answer is lost;
\* another one follows, or not.
PutBlobBroken ==
    /\ push.pc \in {"put", "send"} /\ push.blob \notin sent /\ faults < MaxFaults
    /\ blobs' \in {blobs} \cup
                  (IF push.pc = "send" /\ body = "start" THEN {blobs \cup {push.blob}} ELSE {})
    /\ body' = IF push.pc = "send" THEN "read" ELSE body
    /\ push' \in {[push EXCEPT !.pc = "put"], idle} /\ faults' = faults + 1
    /\ UNCHANGED <<podVars, phase, vm, hib, tags, taken, sent, wake, saved, cleaned>>

\* PutManifest succeeds: the hibernated VM is stopped, a routine snapshot kept.
PutManifest ==
    /\ push.pc = "check" /\ push.todo = {}
    /\ tags' = [tags EXCEPT ![push.tag] = taken]
    /\ \/ /\ push.tag = "hibernate"
          /\ phase' = "hibernated" /\ hib' = taken /\ UNCHANGED saved
       \/ push.tag = "latest" /\ saved' = taken /\ UNCHANGED <<phase, hib>>
    /\ push' = idle
    /\ UNCHANGED <<podVars, vm, blobs, taken, sent, body, wake, cleaned, faults>>

\* It fails, before the registry stored the manifest or after.
PutManifestBroken ==
    /\ push.pc = "check" /\ push.todo = {} /\ faults < MaxFaults
    /\ \/ UNCHANGED <<tags, saved>>
       \/ /\ tags' = [tags EXCEPT ![push.tag] = taken]
          /\ saved' = IF push.tag = "latest" THEN taken ELSE saved
    /\ push' = idle /\ faults' = faults + 1
    /\ UNCHANGED <<podVars, phase, vm, hib, blobs, taken, sent, body, wake, cleaned>>

\* vk-cocoon restarts; the VM runs on, the push and its session are gone.
Crash ==
    /\ push.pc # "idle" /\ faults < MaxFaults
    /\ push' = idle /\ faults' = faults + 1
    /\ UNCHANGED <<podVars, phase, vm, hib, blobs, tags, taken, sent, body, wake,
                   saved, cleaned>>

\* Waking: an absent hibernate tag means a VM that never hibernated, and it
\* boots from its image; after any other error the wake is tried again.
WakeManifest ==
    /\ phase = "released" /\ wake.snap = Absent
    /\ \E answer \in Answers(tags["hibernate"] # Absent) :
         /\ Count(answer)
         /\ \/ /\ GetManifest(answer) = "nil"
               /\ wake' = [snap |-> tags["hibernate"], todo |-> Layers[tags["hibernate"]]]
               /\ UNCHANGED <<phase, vm>>
            \/ /\ GetManifest(answer) = "ErrManifestNotFound"
               /\ phase' = "running" /\ vm' = Absent /\ UNCHANGED wake
            \/ /\ GetManifest(answer) = "error"
               /\ UNCHANGED <<phase, vm, wake>>
    /\ UNCHANGED <<podVars, hib, blobs, tags, push, taken, sent, body, saved, cleaned>>

\* GetBlob: a missing blob makes every later wake fail too.
WakeBlob(b) ==
    /\ phase = "released" /\ b \in wake.todo
    /\ \E answer \in Answers(b \in blobs) :
         /\ Count(answer)
         /\ wake' = IF answer = "ok" THEN [wake EXCEPT !.todo = @ \ {b}] ELSE asleep
         /\ phase' = IF answer = "404" THEN "broken" ELSE phase
    /\ UNCHANGED <<podVars, vm, hib, blobs, tags, push, taken, sent, body, saved,
                   cleaned>>

WakeDone ==
    /\ phase = "released" /\ wake.snap # Absent /\ wake.todo = {}
    /\ phase' = "running" /\ vm' = wake.snap /\ wake' = asleep
    /\ UNCHANGED <<podVars, hib, blobs, tags, push, taken, sent, body, saved, cleaned, faults>>

-----------------------------------------------------------------------------
(* cocoon-operator, the API server and the registry.                       *)

\* HasManifest: the node may forget a hibernated VM once its snapshot is there.
Probe ==
    /\ phase = "hibernated"
    /\ \E answer \in Answers(tags["hibernate"] # Absent) :
         /\ Count(answer)
         /\ phase' = IF Found(answer) = [has |-> TRUE, err |-> "nil"]
                     THEN "released" ELSE phase
    /\ UNCHANGED <<podVars, vm, hib, blobs, tags, push, taken, sent, body, wake, saved,
                   cleaned>>

DeletePod ==
    /\ \/ phase = "running" /\ push = idle /\ phase' = "deleting"
       \/ /\ phase \in {"hibernated", "released", "deleting"}
          /\ push = idle /\ wake = asleep /\ phase' = "gone"
    /\ UNCHANGED <<podVars, vm, hib, blobs, tags, push, taken, sent, body, wake, saved,
                   cleaned, faults>>

\* The tags to delete, the role taken from the name since the pod is gone.
Garbage ==
    LET role == InferRoleFromAgentSlot(ExtractAgentSlot(pod.ns, pod.set, vmName))
    IN  {"hibernate"} \cup (IF ShouldSnapshotVM(policy, role) THEN {} ELSE {"latest"})

\* A delete that fails is tried again later.
Cleanup(tag) ==
    /\ phase = "gone" /\ tag \in Garbage \ cleaned
    /\ \E answer \in Answers(tags[tag] # Absent) :
         /\ Count(answer)
         /\ \/ answer # "404" /\ tags' = [tags EXCEPT ![tag] = Absent]
            \/ answer # "ok" /\ UNCHANGED tags
         /\ cleaned' = IF DeleteManifest(answer) = "nil" THEN cleaned \cup {tag}
                       ELSE cleaned
    /\ UNCHANGED <<podVars, phase, vm, hib, blobs, push, taken, sent, body, wake, saved>>

Referenced == UNION {Layers[tags[t]] : t \in {u \in Tags : tags[u] # Absent}}

\* Garbage collection spares what is referenced, and pushes in progress.
DropBlob(b) ==
    /\ b \in blobs \ Referenced /\ push = idle
    /\ blobs' = blobs \ {b}
    /\ UNCHANGED <<podVars, phase, vm, hib, tags, push, taken, sent, body, wake, saved,
                   cleaned, faults>>

Over == \/ phase = "broken"
        \/ phase = "gone" /\ Garbage \subseteq cleaned

Next == \/ \E tag \in Tags : PushStart(tag) \/ Cleanup(tag)
        \/ \E b \in push.todo : CheckBlob(b)
        \/ \E b \in wake.todo : WakeBlob(b)
        \/ \E b \in blobs : DropBlob(b)
        \/ PutBlob \/ SendBlob \/ PutBlobBroken \/ PutManifest
        \/ PutManifestBroken \/ Crash \/ WakeManifest \/ WakeDone \/ Probe \/ DeletePod
        \/ Over /\ UNCHANGED vars

Spec == Init /\ [][Next]_vars

\* The operator requeues a cleanup until it succeeds.
FairSpec == Spec /\ WF_vars(\E tag \in Tags : Cleanup(tag))

-----------------------------------------------------------------------------
(* Properties.                                                             *)

\* "A blob the registry dropped after an earlier push is uploaded again
\* instead of being skipped as already sent" (docs/registry.md): whatever was
\* collected, refused, broken off or lost, a tag names a manifest all of
\* whose blobs are there (oci.go:50).
TagsComplete == Referenced \subseteq blobs

\* "An absent hibernate tag is a legitimate state, a 500 is not": a VM whose
\* hibernation was verified wakes with the memory it went to sleep with; no
\* failing registry makes it boot afresh (oci.go:61).
NoStateLost == phase # "broken" /\ (phase = "running" => vm = hib)

\* A push that is under way ends with its manifest published or because a request
\* of its own broke or vk-cocoon restarted at that moment; an attempt that broke
\* before, a blob the registry never had or has dropped, or one that an earlier
\* attempt stored after all, is not what makes it fail (oci.go:205, push.go:135-151).
PushFailsOnlyByFault ==
    [][push.pc # "idle" /\ push'.pc = "idle" =>
         faults' = faults + 1 \/ tags' = [tags EXCEPT ![push.tag] = taken]]_vars

\* Once the operator is done with a deleted pod, its hibernate tag is gone
\* and "latest" is what vk-cocoon published, if the policy keeps snapshots of
\* the role the pod was created with, and absent otherwise: both sides read
\* the same role from the VM name (vmname.go:37).
PolicyHonoured ==
    /\ ~ShouldSnapshotVM(policy, pod.role) => tags["latest"] = Absent
    /\ Over /\ phase = "gone" => /\ tags["hibernate"] = Absent
                                 /\ tags["latest"] = saved

\* "DeleteManifest treats a registry 404 as success": the cleanup ends, for
\* tags that were never pushed and for deletes whose answer was lost too
\* (oci.go:142).
CleanupConverges == phase = "gone" ~> Over
=============================================================================
