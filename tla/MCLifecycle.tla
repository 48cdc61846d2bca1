---------------------------- MODULE MCLifecycle ----------------------------
(***************************************************************************)
(* A CocoonSet that is edited once after its pod was created, and a pod    *)
(* that is asked to hibernate and to wake any number of times.             *)
(***************************************************************************)
EXTENDS Lifecycle
=============================================================================
