-------------------------- MODULE PushPipelineInv --------------------------
(***************************************************************************)
(* The inductive invariant behind the properties of PushPipeline: which    *)
(* tasks exist, where every buffer is and what it holds, and what the      *)
(* reader has covered of the tar.                                          *)
(***************************************************************************)
EXTENDS PushPipeline

\* The reader is between the header of a file and its end.
Chunking == pc \in {"chunk", "fill", "go"}
Spooling == pc \in {"spool", "spoolPut"}

\* readAndUploadEntries has returned.
Over == pc \in {"close", "reap", "config", "manifest", "returned"}

\* The file the reader is in, and how far it is.
ReadInv ==
    /\ Chunking \/ Spooling => /\ pos \in DOMAIN export /\ export[pos].kind = "file"
                               /\ Chunked(pos) <=> Chunking
    /\ Chunking => chunk \in 1..(count(pos) + 1)
    /\ pc \in {"fill", "go"} => chunk <= count(pos)
    /\ rheld # NoBuf <=> pc \in {"fill", "go"}
    /\ pc = "go" => rawData[rheld] = ChunkData(pos, chunk)

\* A task exists for each chunk that has been handed over, and for no other.
TaskInv ==
    /\ pc \in {"export", "params"} => \A t \in Tasks : tpc[t] = "none"
    /\ \A t \in Tasks : tpc[t] # "none" =>
         /\ t[1] \in 1..pos /\ Chunked(t[1]) /\ t[2] <= count(t[1])
         /\ Chunking /\ t[1] = pos => t[2] < chunk
    /\ Chunking => \A i \in 1..(chunk - 1) : tpc[<<pos, i>>] # "none"
    /\ \A g \in DOMAIN groups : Chunked(groups[g]) =>
         \A i \in 1..count(groups[g]) : tpc[<<groups[g], i>>] # "none"
    /\ Over => \A t \in Tasks : ~Running(t)

\* The errgroup never runs more tasks than its limit.
SlotInv == Cardinality(Occupied) <= Workers

OwnsRaw(t) == \/ tpc[t] \in {"start", "encode"}
              \/ tpc[t] \in {"check", "put"} /\ ~compress(t[1])
OwnsOut(t) == tpc[t] \in {"encode", "check", "put"} /\ compress(t[1])

\* Every buffer is in its pool or borrowed by exactly one task or the reader.
BufInv ==
    /\ \A t \in Tasks : /\ rbuf[t] # NoBuf <=> OwnsRaw(t)
                        /\ obuf[t] # NoBuf <=> OwnsOut(t)
                        /\ tpc[t] = "encode" => compress(t[1])
    /\ ExclusiveBuffers
    /\ \A b \in RawBufs : b \in freeRaw \/ b = rheld \/ \E t \in Tasks : rbuf[t] = b
    /\ \A b \in OutBufs : b \in freeOut \/ \E t \in Tasks : obuf[t] = b

\* The blob a task has to upload.
Wanted(t) == Blob(Encoding(t[1]), ChunkData(t[1], t[2]))

\* What borrowed buffers, digests and descriptors hold.
DataInv ==
    /\ \A t \in Tasks :
         /\ tpc[t] \in {"start", "encode"} => rawData[rbuf[t]] = ChunkData(t[1], t[2])
         /\ tpc[t] \in {"check", "put"} => digest[t] = Wanted(t) /\ Stored(t) = digest[t]
         /\ tpc[t] = "done" /\ egErr = "none" => descs[t] = Wanted(t) /\ HasBlob(descs[t])
    /\ BlobsIntact

IsFileAt(e) == e \in DOMAIN export /\ export[e].kind = "file"

\* Every file of the tar up to entry n is in a group.
Covered(n) == \A e \in 1..n : IsFileAt(e) => \E g \in DOMAIN groups : groups[g] = e

\* The groups are the files read to their end, in tar order.
GroupInv ==
    /\ \A g \in DOMAIN groups :
         /\ IsFileAt(groups[g]) /\ groups[g] <= pos
         /\ Chunking \/ Spooling => groups[g] # pos
         /\ ~Chunked(groups[g]) =>
              /\ descs[<<groups[g], 1>>] = Blob(Encoding(groups[g]), export[groups[g]].data)
              /\ HasBlob(descs[<<groups[g], 1>>])
    /\ \A g, h \in DOMAIN groups : g < h => groups[g] < groups[h]
    /\ pc = "next" => Covered(pos)
    /\ Chunking \/ Spooling => Covered(pos - 1)

\* The whole tar has been read, or the subprocess has failed.
AllRead == Covered(pos) /\ (pos = Len(export) \/ exporter = "failed")

\* Reading ends without an error only at the end of the tar.
EndInv ==
    /\ pc \in {"export", "params"} => pos = 0
    /\ pc = "wait" /\ readErr = "none" => egDone \/ AllRead
    /\ pc \in {"close", "reap"} /\ readErr = "none" => egErr = "none" /\ AllRead
    /\ pc \in {"config", "manifest"} => /\ egErr = "none" /\ AllRead
                                        /\ exporter = "ok"

\* A cancellation is the caller's, or gives way to the task's error.
ErrInv ==
    /\ egErr = "canceled" => parentDone
    /\ pc = "wait" /\ readErr = "canceled" => egDone
    /\ pc \in {"close", "reap"} /\ readErr = "canceled" => parentDone
    /\ CanceledOnlyByCaller
    /\ result = "none" <=> pc # "returned"

\* A manifest is the last thing a push does.
ManifestInv ==
    /\ manifest # <<>> => pc = "returned"
    /\ pc = "manifest" => HasBlob(ConfigBlob)
    /\ PublishedComplete

IInv == /\ TypeOK /\ ReadInv /\ TaskInv /\ SlotInv /\ BufInv /\ DataInv
        /\ GroupInv /\ EndInv /\ ErrInv /\ ManifestInv
=============================================================================
