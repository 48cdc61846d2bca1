--------------------------- MODULE TransferBudget ---------------------------
(***************************************************************************)
(* The arithmetic that sizes both transfer pipelines of package snapshot:  *)
(* how many workers and what chunk a push gets for its memory budget       *)
(* (pipelineParams, snapshot/pushpipeline.go), and how many chunks a pull  *)
(* prefetches into which buffers (newChunkPipeline,                        *)
(* snapshot/pullencoded.go).                                               *)
(*                                                                         *)
(* The constants of the code are parameters, so that a small instance has  *)
(* every boundary of the real one; int64 arithmetic wraps at IntMax.       *)
(***************************************************************************)
EXTENDS Integers

CONSTANTS MiB,       \* 1 << 20
          IntMax,    \* 1 << 63
          maxChunkSizeMiB, defaultPushMemoryBudgetMiB,
          defaultPullPrefetchBudget, maxBufferedChunkBytes,
          defaultTransferConcurrency

ASSUME SizesAssumption ==
    /\ MiB \in Nat \ {0} /\ IntMax \in Nat \ {0}
    /\ maxChunkSizeMiB \in Nat \ {0} /\ defaultPushMemoryBudgetMiB \in Nat \ {0}
    /\ defaultPullPrefetchBudget \in Nat \ {0}
    /\ maxBufferedChunkBytes \in Nat \ {0} /\ 2 * maxBufferedChunkBytes < IntMax
    /\ defaultTransferConcurrency \in Nat \ {0}
    /\ 4 * (maxChunkSizeMiB * MiB) < IntMax
    /\ defaultPushMemoryBudgetMiB * MiB < IntMax

\* Two's complement: what is left of x in an int64.
int64(x) == ((x + IntMax) % (2 * IntMax)) - IntMax

AtMost(a, b) == IF a <= b THEN a ELSE b

Concurrency(c) == IF c <= 0 THEN defaultTransferConcurrency ELSE c

\* A budget option in MiB; unset, negative and wrapped ones get the default.
Budget(mib, default) ==
    LET bytes == int64(mib * MiB) IN IF bytes <= 0 THEN default ELSE bytes

-----------------------------------------------------------------------------
(* Push.                                                                   *)

\* The knobs of PushOptions that size the pipeline, in MiB; unset is zero.
PushOptions == [concurrency : Int, chunkSizeMiB : Int, memoryBudgetMiB : Int]

PushBudget(o) == Budget(o.memoryBudgetMiB, defaultPushMemoryBudgetMiB * MiB)

ChunkSize(o) == int64((IF o.chunkSizeMiB > 0 THEN o.chunkSizeMiB ELSE 0) * MiB)

Rejected == [ok |-> FALSE, workers |-> 0, chunkSize |-> 0]

\* Fault: the buffer the reader holds beside the workers' is forgotten.
Workers_NoReader(o) ==
    AtMost(Concurrency(o.concurrency), PushBudget(o) \div (2 * ChunkSize(o)))

\* The largest worker count with 2(workers+1) chunks within the budget.
Workers(o) ==
    AtMost(Concurrency(o.concurrency), PushBudget(o) \div (2 * ChunkSize(o)) - 1)

\* Fault: one worker is thought to need two buffers.
pipelineParams_LowFloor(o) ==
    IF o.chunkSizeMiB > maxChunkSizeMiB THEN Rejected
    ELSE IF ChunkSize(o) = 0
         THEN [ok |-> TRUE, workers |-> Concurrency(o.concurrency), chunkSize |-> 0]
    ELSE IF int64(2 * ChunkSize(o)) > PushBudget(o) THEN Rejected
    ELSE [ok |-> TRUE, workers |-> Workers(o), chunkSize |-> ChunkSize(o)]

pipelineParams(o) ==
    IF o.chunkSizeMiB > maxChunkSizeMiB THEN Rejected
    ELSE IF ChunkSize(o) = 0
         THEN [ok |-> TRUE, workers |-> Concurrency(o.concurrency), chunkSize |-> 0]
    ELSE IF int64(4 * ChunkSize(o)) > PushBudget(o) THEN Rejected
    ELSE [ok |-> TRUE, workers |-> Workers(o), chunkSize |-> ChunkSize(o)]

-----------------------------------------------------------------------------
(* Pull.                                                                   *)

PullBudget(mib) == Budget(mib, defaultPullPrefetchBudget)

\* Fault: the last chunk is taken for a full one.
rawChunkStride_Average(size, n) ==
    IF n <= 1 \/ size <= 0 THEN size ELSE (size + n - 1) \div n

\* An upper bound of the uniform chunk size of a file of size bytes cut into n.
rawChunkStride(size, n) ==
    IF n <= 1 \/ size <= 0 THEN size ELSE (size - 1) \div (n - 1) + 1

\* How many chunks are prefetched into buffers of these capacities: window
\* pairs, plus the output buffer of the chunk being written.  0: sequential.
PrefetchWindow(prefetch, budget, in, out) ==
    IF out <= 0 \/ in > maxBufferedChunkBytes \/ out > maxBufferedChunkBytes
       \/ budget <= out
    THEN 0
    ELSE LET window == AtMost(prefetch, (budget - out) \div (in + out))
         IN  IF window >= 2 THEN window ELSE 0
=============================================================================
