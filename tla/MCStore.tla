------------------------------ MODULE MCStore ------------------------------
(***************************************************************************)
(* Agents and toolboxes of a few sets whose names get in each other's way, *)
(* and three snapshots that share a layer.                                  *)
(***************************************************************************)
EXTENDS SnapshotStore

MCWord == {"vk", "team", "demo", "v1", "x", "tools", "0", "1", "00", "-", "."}
MCAtoi == [w \in {"0", "1", "00"} |-> IF w = "1" THEN 1 ELSE 0]
MCItoa == [n \in 0..1 |-> IF n = 1 THEN "1" ELSE "0"]

OwnedBy(set) == <<[kind |-> "ReplicaSet", name |-> <<"other">>],
                  [kind |-> "CocoonSet", name |-> set]>>
Agent(set, slot) ==
    [ns |-> <<"team">>, set |-> set, slot |-> slot, toolbox |-> <<>>,
     owners |-> OwnedBy(set), role |-> IF slot = 0 THEN "main" ELSE "sub-agent"]
Toolbox(set, name) ==
    [ns |-> <<"team">>, set |-> set, slot |-> -1, toolbox |-> name,
     owners |-> OwnedBy(set), role |-> "toolbox"]

Demo == <<"demo">>
MCPods == {Agent(Demo, 0), Agent(Demo, 1), Toolbox(Demo, <<"0", "-", "x">>),
           Toolbox(Demo, <<"tools">>), Agent(<<"demo", "-", "0">>, 1),
           Agent(<<"demo", ".", "v1">>, 0)}

MCLayers == <<{"disk", "mem1"}, {"disk", "mem2"}, {"disk"}>>
=============================================================================
