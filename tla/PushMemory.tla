----------------------------- MODULE PushMemory -----------------------------
(***************************************************************************)
(* The memory a push pins in its two buffer pools (bufPool, enqueueChunks  *)
(* and uploadChunk of snapshot/pushpipeline.go), for the worker count and  *)
(* the chunk size pipelineParams settled on.                               *)
(*                                                                         *)
(* Only capacities are kept: a pool is a channel of buffers, taken from    *)
(* its head and put back at its tail, and a buffer that is too small is    *)
(* replaced when it is taken.  What a buffer holds, and who fails, is the  *)
(* business of PushPipeline.                                               *)
(***************************************************************************)
EXTENDS TransferBudget, Sequences, Functions

CONSTANTS Options,     \* PushOptions to try
          MaxOverhead, \* how many bytes zstd may add to incompressible data
          AppendSlack  \* what append adds to a grown slice beyond a quarter

ASSUME OptionsAssumption ==
    Options \subseteq PushOptions /\ MaxOverhead \in Nat /\ AppendSlack \in Nat

VARIABLES opts, zstdOn,
          pc,          \* "params", "rejected", "unchunked" or "running"
          params,      \* what pipelineParams returned
          rawBufs, outBufs,  \* capacities of the buffers in the pools
          filled,      \* what the reader holds: [cap, len]
          tasks        \* tasks[w]: what worker w holds: [len, raw, out]

vars == <<opts, zstdOn, pc, params, rawBufs, outBufs, filled, tasks>>

Nothing == [cap |-> 0, len |-> 0]
Idle == [len |-> 0, raw |-> 0, out |-> 0]

\* newBufPool: the buffers are allocated when they are first taken.
newBufPool(size) == [i \in 1..size |-> 0]

\* take: the head of the channel, replaced if it is too small.
Taken(pool, capacity) == IF Head(pool) < capacity THEN capacity ELSE Head(pool)

Init == /\ opts \in Options /\ zstdOn \in BOOLEAN
        /\ pc = "params" /\ params = Rejected
        /\ rawBufs = <<>> /\ outBufs = <<>> /\ filled = Nothing /\ tasks = <<>>

\* pipelineParams, then the errgroup's limit and the two pools.
Params ==
    /\ pc = "params"
    /\ params' = pipelineParams(opts)
    /\ IF params'.ok /\ params'.chunkSize > 0
       THEN /\ pc' = "running"
            /\ rawBufs' = newBufPool(params'.workers + 1)
            /\ outBufs' = newBufPool(params'.workers + 1)
            /\ tasks' = [w \in 1..params'.workers |-> Idle]
       ELSE /\ pc' = IF params'.ok THEN "unchunked" ELSE "rejected"
            /\ UNCHANGED <<rawBufs, outBufs, tasks>>
    /\ UNCHANGED <<opts, zstdOn, filled>>

\* The reader fills a chunk: every one but a file's last is a whole one.
Fill(len) ==
    /\ pc = "running" /\ filled = Nothing /\ rawBufs # <<>>
    /\ filled' = [cap |-> Taken(rawBufs, params.chunkSize), len |-> len]
    /\ rawBufs' = Tail(rawBufs)
    /\ UNCHANGED <<opts, zstdOn, pc, params, outBufs, tasks>>

\* eg.Go: the buffer moves to a worker.
Go(w) ==
    /\ filled # Nothing /\ tasks[w] = Idle
    /\ tasks' = [tasks EXCEPT ![w] = [len |-> filled.len, raw |-> filled.cap, out |-> 0]]
    /\ filled' = Nothing
    /\ UNCHANGED <<opts, zstdOn, pc, params, rawBufs, outBufs>>

TakeOut(w) ==
    /\ zstdOn /\ tasks[w].raw > 0 /\ tasks[w].out = 0 /\ outBufs # <<>>
    /\ tasks' = [tasks EXCEPT ![w].out = Taken(outBufs, tasks[w].len)]
    /\ outBufs' = Tail(outBufs)
    /\ UNCHANGED <<opts, zstdOn, pc, params, rawBufs, filled>>

\* The capacities append may give a slice it grows to hold len bytes: it grows
\* a large slice by a quarter plus a constant, and rounds up to a size class.
AppendMax(len) == len + len \div 4 + AppendSlack
Grown(cap, len) == IF cap < len THEN len..AppendMax(len) ELSE {cap}

\* EncodeAll appends the frame to the output buffer, which append replaces by
\* a larger one if the frame does not fit; then the raw buffer goes back.
Encode(w, frame) ==
    /\ tasks[w].raw > 0 /\ tasks[w].out > 0
    /\ frame <= tasks[w].len + MaxOverhead
    /\ rawBufs' = Append(rawBufs, tasks[w].raw)
    /\ \E cap \in Grown(tasks[w].out, frame) :
         tasks' = [tasks EXCEPT ![w] = [len |-> tasks[w].len, raw |-> 0, out |-> cap]]
    /\ UNCHANGED <<opts, zstdOn, pc, params, outBufs, filled>>

\* The deferred puts after the upload.
PutOut(w) ==
    /\ tasks[w].raw = 0 /\ tasks[w].out > 0
    /\ outBufs' = Append(outBufs, tasks[w].out)
    /\ tasks' = [tasks EXCEPT ![w] = Idle]
    /\ UNCHANGED <<opts, zstdOn, pc, params, rawBufs, filled>>

PutRaw(w) ==
    /\ ~zstdOn /\ tasks[w].raw > 0
    /\ rawBufs' = Append(rawBufs, tasks[w].raw)
    /\ tasks' = [tasks EXCEPT ![w] = Idle]
    /\ UNCHANGED <<opts, zstdOn, pc, params, outBufs, filled>>

Stopped == pc \in {"rejected", "unchunked"} /\ UNCHANGED vars

Next == \/ Params \/ Stopped
        \/ \E len \in 1..params.chunkSize : Fill(len)
        \/ \E w \in DOMAIN tasks :
             \/ Go(w) \/ TakeOut(w) \/ PutOut(w) \/ PutRaw(w)
             \/ \E frame \in 1..(params.chunkSize + MaxOverhead) : Encode(w, frame)

Spec == Init /\ [][Next]_vars

-----------------------------------------------------------------------------
(* Properties.                                                             *)

Sum(f) == FoldFunction(+, 0, f)

PinnedRaw == Sum(rawBufs) + filled.cap + Sum([w \in DOMAIN tasks |-> tasks[w].raw])
PinnedOut == Sum(outBufs) + Sum([w \in DOMAIN tasks |-> tasks[w].out])

\* The budget the caller asked for, however large: PushOptions.MemoryBudgetMiB,
\* or the documented default.
RequestedBudget ==
    (IF opts.memoryBudgetMiB <= 0 THEN defaultPushMemoryBudgetMiB
     ELSE opts.memoryBudgetMiB) * MiB

\* "2(workers+1) x chunk <= budget, the combined size of both buffer pools"
\* (pushpipeline.go:291), over any number of chunks of any size, with buffers
\* that are replaced when they are taken and grown when they are encoded into.
PoolsWithinBudget == pc = "running" => PinnedRaw + PinnedOut <= RequestedBudget

\* Options that are accepted leave at least one worker and no more than were
\* asked for: a chunk size just within the budget, or one whose byte count
\* overflows, must not end in an errgroup that can start no task.
AlwaysAWorker ==
    pc \in {"running", "unchunked"} =>
        params.workers \in 1..Concurrency(opts.concurrency)
=============================================================================
