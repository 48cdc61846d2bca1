---------------------------- MODULE MCPushMemory ----------------------------
(***************************************************************************)
(* Small instances of PushMemory: a MiB is 2 bytes and an int64 wraps at   *)
(* 64, so that budgets from far below one chunk to past the wrap occur.    *)
(***************************************************************************)
EXTENDS PushMemory

AllOptions == [concurrency : {-1, 3}, chunkSizeMiB : {-1, 0, 1, 2, 5, 40},
               memoryBudgetMiB : {-1, 1, 3, 4, 7, 8, 13, 33, 70}]

ZstdOptions == [concurrency : {2}, chunkSizeMiB : {1}, memoryBudgetMiB : {4, 6}]
=============================================================================
