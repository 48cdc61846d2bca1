----------------------------- MODULE MCBlobSize -----------------------------
(***************************************************************************)
(* Small instances of BlobSize.                                            *)
(***************************************************************************)
EXTENDS BlobSize

MCSizes == -1..4
MCTotals == 0..5
=============================================================================
