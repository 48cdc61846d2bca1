------------------------------- MODULE VMName -------------------------------
(***************************************************************************)
(* VM names and the roles read back from them (meta/vmname.go,             *)
(* meta/owner.go), and what the role and the snapshot policy decide        *)
(* (meta/vmspec.go, apis/v1/enums.go).                                     *)
(*                                                                         *)
(* A name is a sequence of words and of the separators "-" and ".".  The   *)
(* hash at the end of a VM name is the pair it is computed from: six hex   *)
(* digits are taken to tell any two pods apart.                            *)
(***************************************************************************)
EXTENDS Integers, Sequences, SequencesExt

CONSTANTS Word,    \* the words and separators of names
          Atoi,    \* the words strconv.Atoi reads, and what it makes of them
          Itoa     \* the word strconv.Itoa writes for a number

\* Atoi reads what Itoa writes; it also reads words Itoa does not write.
ASSUME NumeralAssumption ==
    /\ {"vk", "-"} \subseteq Word /\ DOMAIN Atoi \subseteq Word /\ DOMAIN Itoa \subseteq Nat
    /\ \A n \in DOMAIN Itoa :
         Itoa[n] \in DOMAIN Atoi \ {"."} /\ Atoi[Itoa[n]] = n
    /\ \A w \in DOMAIN Atoi : Atoi[w] \in DOMAIN Itoa

RoleMain == "main"
RoleSubAgent == "sub-agent"
RoleToolbox == "toolbox"

Dashed(name) == [i \in DOMAIN name |-> IF name[i] = "." THEN "-" ELSE name[i]]

VMNameForPod(ns, podName) ==
    [text |-> <<"vk", "-">> \o ns \o <<"-">> \o Dashed(podName) \o <<"-">>,
     hash |-> <<ns, podName>>]

VMNameForDeployment(ns, deployment, slot) ==
    VMNameForPod(ns, deployment \o <<"-", Itoa[slot]>>)

ToolboxPodName(cocoonSet, toolbox) == cocoonSet \o <<"-">> \o toolbox

AgentVMNamePrefix(ns, cocoonSet) ==
    <<"vk", "-">> \o ns \o <<"-">> \o Dashed(cocoonSet) \o <<"-">>

\* Fault: the first word after the prefix is taken for the slot.
ExtractAgentSlot_NoCheck(ns, cocoonSet, vmName) ==
    LET prefix == AgentVMNamePrefix(ns, cocoonSet)
        rest == SubSeq(vmName.text, Len(prefix) + 1, Len(vmName.text))
    IN  IF /\ IsPrefix(prefix, vmName.text) /\ rest # <<>>
           /\ rest[1] \in DOMAIN Atoi
        THEN Atoi[rest[1]] ELSE -1

\* The word after the prefix must be a number, and the name the one of that
\* slot.  With nothing but the hash after the prefix, a hash that happens to be
\* a number fails the second test.
ExtractAgentSlot(ns, cocoonSet, vmName) ==
    LET prefix == AgentVMNamePrefix(ns, cocoonSet)
        rest == SubSeq(vmName.text, Len(prefix) + 1, Len(vmName.text))
    IN  IF /\ IsPrefix(prefix, vmName.text) /\ rest # <<>>
           /\ rest[1] \in DOMAIN Atoi
           /\ VMNameForDeployment(ns, cocoonSet, Atoi[rest[1]]) = vmName
        THEN Atoi[rest[1]] ELSE -1

InferRoleFromAgentSlot(slot) ==
    IF slot < 0 THEN RoleToolbox ELSE IF slot = 0 THEN RoleMain ELSE RoleSubAgent

\* The first owner reference whose kind is CocoonSet, or no name.
CocoonSetOwnerName(ownerRefs) ==
    LET sets == SelectSeq(ownerRefs, LAMBDA ref : ref.kind = "CocoonSet")
    IN  IF sets = <<>> THEN <<>> ELSE sets[1].name

RoleForPod(pod, vmName) ==
    InferRoleFromAgentSlot(
        ExtractAgentSlot(pod.ns, CocoonSetOwnerName(pod.owners), vmName))

SnapshotPolicyDefault(policy) == IF policy = "" THEN "always" ELSE policy

ShouldSnapshotVM(policy, role) ==
    CASE SnapshotPolicyDefault(policy) = "never" -> FALSE
      [] SnapshotPolicyDefault(policy) = "main-only" -> role = RoleMain
      [] OTHER -> TRUE
=============================================================================
