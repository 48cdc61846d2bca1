---------------------------- MODULE PushPipeline ----------------------------
(***************************************************************************)
(* The publishing half of package snapshot: Pusher.Push and the chunk      *)
(* encode/upload pipeline under it (snapshot/push.go,                      *)
(* snapshot/pushpipeline.go).                                              *)
(*                                                                         *)
(* One call of Push is a reader goroutine (pc) that reads the tar of a     *)
(* `cocoon snapshot export` subprocess.  A small file is spooled and       *)
(* uploaded by the reader itself; a large one is cut into chunks, and each *)
(* chunk becomes a task of an errgroup limited to Workers goroutines.  The *)
(* first task that fails cancels the group's context.  Only after every    *)
(* task is over and the subprocess has been reaped are the config and the  *)
(* manifest uploaded.                                                      *)
(*                                                                         *)
(* File bytes are counted in units of half a MiB, the digest of a blob is  *)
(* the blob itself, and zstd is kept apart from raw bytes.                 *)
(***************************************************************************)
EXTENDS Naturals, Sequences, FiniteSets

CONSTANTS Exports,     \* the tars an export may produce
          Existing,    \* the blobs a registry may already hold: sets of digests
          Units,       \* the bytes of a file are a sequence of these
          MaxEntries, MaxChunks,  \* bounds: tar entries, chunks of one file
          Workers,     \* limit of the errgroup, from pipelineParams
          Options,     \* what a push may ask for: [zstd, chunk]
          RawBufs, OutBufs,  \* buffers of the two pools
          NoBuf

\* 1 MiB: below this, compression is not worth it.
compressMin == 2

\* A tar entry: snapshot.json, a regular file with its bytes, an entry of
\* another type, or a malformed one (unparsable snapshot.json, negative size,
\* sparse map without a sparse size, more chunks than the sanity cap).
EntryRecord == [kind : {"json", "file", "other", "bad"}, data : Seq(Units)]

ASSUME ExportsAssumption ==
    \A x \in Exports : /\ x \in Seq(EntryRecord) /\ Len(x) <= MaxEntries
                       /\ \A e \in DOMAIN x, o \in Options :
                            o.chunk > 0 => Len(x[e].data) <= MaxChunks * o.chunk

ASSUME ParamsAssumption ==
    /\ MaxEntries \in Nat /\ MaxChunks \in Nat \ {0} /\ Workers \in Nat \ {0}
    /\ Options \subseteq [zstd : BOOLEAN, chunk : Nat]

ASSUME PoolAssumption ==
    /\ IsFiniteSet(RawBufs) /\ Cardinality(RawBufs) = Workers + 1
    /\ IsFiniteSet(OutBufs) /\ Cardinality(OutBufs) = Workers + 1
    /\ NoBuf \notin RawBufs \cup OutBufs

VARIABLES export,    \* the tar of this export
          opts,      \* opts.ZstdLevel > 0, and the chunk size in units (0: off)
          blobs,     \* the registry: pairs of a digest and the bytes under it
          manifest,  \* what the tag points to: <<>> until a manifest is put
          pc,        \* where Push is
          result,    \* what Push returned
          pos,       \* tar entries consumed
          chunk,     \* next chunk of the current file
          cfg,       \* snapshot.json has been decoded
          groups,    \* entries enqueued or uploaded, in tar order
          descs,     \* descs[t]: the blob uploaded for task t
          readErr,   \* "none", or why the reader stopped
          egErr,     \* first error of the errgroup
          parentDone,\* the caller's context is done
          tpc,       \* tpc[t]: where task t is
          rbuf, obuf,        \* buffers task t has borrowed
          rheld,     \* buffer the reader has borrowed
          freeRaw, freeOut,  \* buffers in the pools
          rawData, outData,  \* what every buffer holds
          digest,    \* the digest task t has computed
          exporter,  \* the subprocess: "none", "running", "ok" or "failed"
          closed     \* Push has closed its end of the pipe

regVars  == <<blobs, manifest>>
readVars == <<pos, chunk, cfg, groups, readErr>>
taskVars == <<tpc, descs, digest, egErr>>
bufVars  == <<rbuf, obuf, rheld, freeRaw, freeOut, rawData, outData>>
procVars == <<exporter, closed>>
vars == <<export, opts, regVars, pc, result, readVars, taskVars, bufVars, procVars,
          parentDone>>

Tasks == (1..MaxEntries) \X (1..MaxChunks)

Blob(enc, data) == [enc |-> enc, data |-> data]
NoBlob == Blob("none", <<>>)
ConfigBlob == Blob("config", <<>>)

ChunkSize == opts.chunk

\* How the reader treats a file: a chunked file goes to the workers.
Size(e) == Len(export[e].data)
compress(e) == opts.zstd /\ Size(e) >= compressMin
Chunked(e) == ChunkSize > 0 /\ (compress(e) \/ Size(e) > ChunkSize)

\* The fixed offsets enqueueChunks cuts a file at.
count(e) == (Size(e) + ChunkSize - 1) \div ChunkSize
ChunkData(e, i) ==
    SubSeq(export[e].data, (i - 1) * ChunkSize + 1,
           IF i * ChunkSize < Size(e) THEN i * ChunkSize ELSE Size(e))

Encoding(e) == IF compress(e) THEN "zstd" ELSE "raw"

\* Fault: a failing task does not cancel the others.
egDone_ParentOnly == parentDone

\* egCtx: done when the caller's context is, or once a task has failed.
egDone == parentDone \/ egErr # "none"

HasBlob(d) == \E b \in blobs : b.digest = d
Store(d, bytes) == blobs' = blobs \cup {[digest |-> d, bytes |-> bytes]}

\* A registry call fails for its own reasons or because its context is done.
CallErrs(done) == {"registry"} \cup (IF done THEN {"canceled"} ELSE {})

Running(t) == tpc[t] \notin {"none", "done"}

Init == /\ export \in Exports /\ opts \in Options
        /\ blobs \in {{[digest |-> d, bytes |-> d] : d \in D} : D \in Existing}
        /\ manifest = <<>>
        /\ pc = "export" /\ result = "none"
        /\ pos = 0 /\ chunk = 0 /\ cfg = FALSE /\ groups = <<>>
        /\ readErr = "none" /\ egErr = "none"
        /\ descs = [t \in Tasks |-> NoBlob] /\ digest = [t \in Tasks |-> NoBlob]
        /\ parentDone = FALSE
        /\ tpc = [t \in Tasks |-> "none"]
        /\ rbuf = [t \in Tasks |-> NoBuf] /\ obuf = [t \in Tasks |-> NoBuf]
        /\ rheld = NoBuf /\ freeRaw = RawBufs /\ freeOut = OutBufs
        /\ rawData = [b \in RawBufs |-> <<>>] /\ outData = [b \in OutBufs |-> NoBlob]
        /\ exporter = "none" /\ closed = FALSE

-----------------------------------------------------------------------------
Return(r) == result' = r /\ pc' = "returned"

\* p.Cocoon.Export starts the subprocess, or fails.
Export ==
    /\ pc = "export"
    /\ \/ exporter' = "running" /\ pc' = "params" /\ UNCHANGED result
       \/ Return("export") /\ UNCHANGED exporter
    /\ UNCHANGED <<export, opts, regVars, readVars, taskVars, bufVars, closed, parentDone>>

\* pipelineParams and the encoder: options that do not fit are refused with
\* the subprocess already running.
Params ==
    /\ pc = "params"
    /\ \/ pc' = "next" /\ UNCHANGED readErr
       \/ pc' = "close" /\ readErr' = "params"
    /\ UNCHANGED <<export, opts, regVars, result, pos, chunk, cfg, groups, taskVars,
                   bufVars, procVars, parentDone>>

(* The reader: readAndUploadEntries and enqueueChunks.                     *)

\* The read loop is left with an error (or with none, at the end of the tar).
StopReading(err) == /\ readErr' = err /\ pc' = "wait"
                    /\ UNCHANGED <<cfg, groups, chunk>>

\* select on egCtx.Done at the top of the loop.
LoopCancelled ==
    /\ pc = "next" /\ egDone
    /\ pc' = "wait"
    /\ UNCHANGED <<export, opts, regVars, result, readVars, taskVars, bufVars,
                   procVars, parentDone>>

\* tr.Next: the end of the tar.  A subprocess that dies between two entries
\* looks the same to the tar reader.
EndOfTar ==
    /\ pc = "next" /\ ~egDone
    /\ pos = Len(export) \/ exporter = "failed"
    /\ StopReading("none") /\ UNCHANGED pos
    /\ UNCHANGED <<export, opts, regVars, result, taskVars, bufVars, procVars,
                   parentDone>>

\* tr.Next: a torn header, or a read error.
NextErr ==
    /\ pc = "next" /\ ~egDone /\ exporter = "failed"
    /\ StopReading("tar") /\ UNCHANGED pos
    /\ UNCHANGED <<export, opts, regVars, result, taskVars, bufVars, procVars,
                   parentDone>>

\* tr.Next returned the header of an entry.
NextEntry ==
    /\ pc = "next" /\ ~egDone /\ pos < Len(export)
    /\ pos' = pos + 1
    /\ \/ /\ export[pos'].kind = "json"
          /\ cfg' = TRUE
          /\ UNCHANGED <<pc, chunk, groups, readErr>>
       \/ /\ export[pos'].kind = "other"
          /\ UNCHANGED <<pc, chunk, cfg, groups, readErr>>
       \/ /\ \/ export[pos'].kind = "bad"
             \/ export[pos'].kind = "json" /\ exporter = "failed"
          /\ StopReading("tar")
       \/ /\ export[pos'].kind = "file" /\ Chunked(pos')
          /\ pc' = "chunk" /\ chunk' = 1
          /\ UNCHANGED <<cfg, groups, readErr>>
       \/ /\ export[pos'].kind = "file" /\ ~Chunked(pos')
          /\ pc' = "spool"
          /\ UNCHANGED <<chunk, cfg, groups, readErr>>
    /\ UNCHANGED <<export, opts, regVars, result, taskVars, bufVars, procVars,
                   parentDone>>

\* enqueueChunks: every chunk has been handed over.
ChunksEnqueued ==
    /\ pc = "chunk" /\ chunk > count(pos)
    /\ groups' = Append(groups, pos) /\ pc' = "next"
    /\ UNCHANGED <<export, opts, regVars, result, pos, chunk, cfg, readErr, taskVars,
                   bufVars, procVars, parentDone>>

ChunkCancelled ==
    /\ pc = "chunk" /\ chunk <= count(pos) /\ egDone
    /\ StopReading("canceled") /\ UNCHANGED pos
    /\ UNCHANGED <<export, opts, regVars, result, taskVars, bufVars, procVars,
                   parentDone>>

TakeRaw ==
    /\ pc = "chunk" /\ chunk <= count(pos) /\ ~egDone
    /\ \E b \in freeRaw : rheld' = b /\ freeRaw' = freeRaw \ {b}
    /\ pc' = "fill"
    /\ UNCHANGED <<export, opts, regVars, result, readVars, taskVars, rbuf, obuf,
                   freeOut, rawData, outData, procVars, parentDone>>

\* io.ReadFull into the borrowed buffer.
Fill ==
    /\ pc = "fill"
    /\ rawData' = [rawData EXCEPT ![rheld] = ChunkData(pos, chunk)]
    /\ pc' = "go"
    /\ UNCHANGED <<export, opts, regVars, result, readVars, taskVars, rbuf, obuf,
                   rheld, freeRaw, freeOut, outData, procVars, parentDone>>

FillErr ==
    /\ pc = "fill" /\ exporter = "failed"
    /\ freeRaw' = freeRaw \cup {rheld} /\ rheld' = NoBuf
    /\ StopReading("tar") /\ UNCHANGED pos
    /\ UNCHANGED <<export, opts, regVars, result, taskVars, rbuf, obuf, freeOut,
                   rawData, outData, procVars, parentDone>>

\* Fault: the errgroup has no limit.
HasSlot_Unlimited == TRUE

\* The tasks that hold a slot of the errgroup.
Occupied == {t \in Tasks : Running(t)}

HasSlot == Cardinality(Occupied) < Workers

\* eg.Go blocks while Workers tasks run; the buffer is the task's from here.
Go ==
    /\ pc = "go" /\ HasSlot
    /\ tpc' = [tpc EXCEPT ![<<pos, chunk>>] = "start"]
    /\ rbuf' = [rbuf EXCEPT ![<<pos, chunk>>] = rheld] /\ rheld' = NoBuf
    /\ chunk' = chunk + 1 /\ pc' = "chunk"
    /\ UNCHANGED <<export, opts, regVars, result, pos, cfg, groups, readErr, descs,
                   digest, egErr, obuf, freeRaw, freeOut, rawData, outData,
                   procVars, parentDone>>

\* uploadTarEntry, uploadCompressedSpool: the reader spools the body to a
\* temp file and uploads it itself.
SpoolDigest == Blob(Encoding(pos), export[pos].data)
SpoolTask == <<pos, 1>>

SpoolDone == /\ descs' = [descs EXCEPT ![SpoolTask] = SpoolDigest]
             /\ groups' = Append(groups, pos) /\ pc' = "next"
             /\ UNCHANGED <<pos, chunk, cfg, readErr>>

SpoolHas ==
    /\ pc = "spool" /\ HasBlob(SpoolDigest) /\ SpoolDone
    /\ UNCHANGED <<export, opts, regVars, result, tpc, digest, egErr, bufVars,
                   procVars, parentDone>>

SpoolMissing ==
    /\ pc = "spool" /\ ~HasBlob(SpoolDigest)
    /\ pc' = "spoolPut"
    /\ UNCHANGED <<export, opts, regVars, result, readVars, taskVars, bufVars,
                   procVars, parentDone>>

SpoolPut ==
    /\ pc = "spoolPut" /\ Store(SpoolDigest, SpoolDigest) /\ SpoolDone
    /\ UNCHANGED <<export, opts, manifest, result, tpc, digest, egErr, bufVars,
                   procVars, parentDone>>

SpoolErr ==
    /\ pc \in {"spool", "spoolPut"}
    /\ \E err \in CallErrs(egDone) \cup
                  (IF pc = "spool" /\ exporter = "failed" THEN {"tar"} ELSE {}) :
          StopReading(err)
    /\ UNCHANGED blobs \/ (pc = "spoolPut" /\ Store(SpoolDigest, SpoolDigest))
    /\ UNCHANGED <<export, opts, manifest, result, pos, taskVars, bufVars, procVars,
                   parentDone>>

-----------------------------------------------------------------------------
(* A task of the errgroup: uploadChunk.                                    *)

Goto(t, where) == tpc' = [tpc EXCEPT ![t] = where]
PutRaw(t) == /\ freeRaw' = freeRaw \cup {rbuf[t]}
             /\ rbuf' = [rbuf EXCEPT ![t] = NoBuf]

TakeOut(t) ==
    /\ tpc[t] = "start" /\ compress(t[1])
    /\ \E b \in freeOut : /\ obuf' = [obuf EXCEPT ![t] = b]
                          /\ freeOut' = freeOut \ {b}
    /\ Goto(t, "encode")
    /\ UNCHANGED <<export, opts, regVars, pc, result, readVars, descs, digest, egErr,
                   rbuf, rheld, freeRaw, rawData, outData, procVars, parentDone>>

\* Fault: both buffers go back before the upload reads the frame.
Encode_PutEarly(t) ==
    /\ tpc[t] = "encode"
    /\ LET frame == Blob("zstd", rawData[rbuf[t]])
       IN  /\ outData' = [outData EXCEPT ![obuf[t]] = frame]
           /\ digest' = [digest EXCEPT ![t] = frame]
    /\ PutRaw(t) /\ freeOut' = freeOut \cup {obuf[t]}
    /\ Goto(t, "check")
    /\ UNCHANGED <<export, opts, regVars, pc, result, readVars, descs, egErr, obuf,
                   rheld, rawData, procVars, parentDone>>

\* EncodeAll, then the raw buffer goes back; the digest is of the frame.
Encode(t) ==
    /\ tpc[t] = "encode"
    /\ LET frame == Blob("zstd", rawData[rbuf[t]])
       IN  /\ outData' = [outData EXCEPT ![obuf[t]] = frame]
           /\ digest' = [digest EXCEPT ![t] = frame]
    /\ PutRaw(t)
    /\ Goto(t, "check")
    /\ UNCHANGED <<export, opts, regVars, pc, result, readVars, descs, egErr, obuf,
                   rheld, freeOut, rawData, procVars, parentDone>>

\* Fault: the raw buffer goes back before the upload reads it.
HashRaw_PutFirst(t) ==
    /\ tpc[t] = "start" /\ ~compress(t[1])
    /\ digest' = [digest EXCEPT ![t] = Blob("raw", rawData[rbuf[t]])]
    /\ freeRaw' = freeRaw \cup {rbuf[t]}
    /\ Goto(t, "check")
    /\ UNCHANGED <<export, opts, regVars, pc, result, readVars, descs, egErr, rbuf,
                   obuf, rheld, freeOut, rawData, outData, procVars, parentDone>>

HashRaw(t) ==
    /\ tpc[t] = "start" /\ ~compress(t[1])
    /\ digest' = [digest EXCEPT ![t] = Blob("raw", rawData[rbuf[t]])]
    /\ Goto(t, "check")
    /\ UNCHANGED <<export, opts, regVars, pc, result, readVars, descs, egErr, bufVars,
                   procVars, parentDone>>

\* The bytes the task would send: its buffer as it is now.
Stored(t) == IF compress(t[1]) THEN outData[obuf[t]]
             ELSE Blob("raw", rawData[rbuf[t]])

\* Fault: the buffer is lost.
PutBuffer_Leak(t) == /\ obuf' = [obuf EXCEPT ![t] = NoBuf]
                     /\ rbuf' = [rbuf EXCEPT ![t] = NoBuf]
                     /\ UNCHANGED <<freeRaw, freeOut>>

\* The deferred put of whichever buffer the task still has.
PutBuffer(t) ==
    IF compress(t[1])
    THEN /\ freeOut' = freeOut \cup {obuf[t]}
         /\ obuf' = [obuf EXCEPT ![t] = NoBuf]
         /\ UNCHANGED <<rbuf, freeRaw>>
    ELSE PutRaw(t) /\ UNCHANGED <<obuf, freeOut>>

TaskDone(t) == /\ descs' = [descs EXCEPT ![t] = digest[t]]
               /\ PutBuffer(t) /\ Goto(t, "done")

\* putBlobIfMissing
BlobPresent(t) ==
    /\ tpc[t] = "check" /\ HasBlob(digest[t])
    /\ TaskDone(t)
    /\ UNCHANGED <<export, opts, regVars, pc, result, readVars, digest, egErr, rheld,
                   rawData, outData, procVars, parentDone>>

BlobMissing(t) ==
    /\ tpc[t] = "check" /\ ~HasBlob(digest[t])
    /\ Goto(t, "put")
    /\ UNCHANGED <<export, opts, regVars, pc, result, readVars, descs, digest, egErr,
                   bufVars, procVars, parentDone>>

PutBlob(t) ==
    /\ tpc[t] = "put" /\ Store(digest[t], Stored(t))
    /\ TaskDone(t)
    /\ UNCHANGED <<export, opts, manifest, pc, result, readVars, digest, egErr, rheld,
                   rawData, outData, procVars, parentDone>>

\* The errgroup keeps the first error and cancels its context.
FirstErr(err) == egErr' = IF egErr = "none" THEN err ELSE egErr

\* An upload that fails may still have left its blob in the registry.
TaskErr(t) ==
    /\ tpc[t] \in {"check", "put"}
    /\ \E err \in CallErrs(egDone) : FirstErr(err)
    /\ UNCHANGED blobs \/ (tpc[t] = "put" /\ Store(digest[t], Stored(t)))
    /\ PutBuffer(t) /\ Goto(t, "done")
    /\ UNCHANGED <<export, opts, manifest, pc, result, readVars, descs, digest, rheld,
                   rawData, outData, procVars, parentDone>>

TaskLocal(t) == TakeOut(t) \/ Encode(t) \/ HashRaw(t)
TaskCall(t) == BlobPresent(t) \/ BlobMissing(t) \/ PutBlob(t) \/ TaskErr(t)

-----------------------------------------------------------------------------
(* The end of the call: eg.Wait and the rest of Push.                      *)

\* Fault: the reader's own error wins.
RootCause_ReaderFirst == IF readErr = "none" THEN egErr ELSE readErr

\* Fault: a read loop left because the caller cancelled counts as complete.
RootCause_NoCtxErr ==
    IF readErr = "none" THEN egErr
    ELSE IF egErr # "none" /\ readErr = "canceled" THEN egErr
    ELSE readErr

\* The error readAndUploadEntries reports: a reader that stopped because its
\* context was cancelled gives way to the task error that cancelled it, and a
\* call with no error at all still fails if the caller's context is done.
RootCause ==
    LET err == IF readErr = "none" THEN egErr
               ELSE IF egErr # "none" /\ readErr = "canceled" THEN egErr
               ELSE readErr
    IN  IF err = "none" /\ parentDone THEN "canceled" ELSE err

\* eg.Wait returns when every task is over.
Wait ==
    /\ pc = "wait" /\ \A t \in Tasks : ~Running(t)
    /\ readErr' = RootCause
    /\ pc' = "close"
    /\ UNCHANGED <<export, opts, regVars, result, pos, chunk, cfg, groups, taskVars,
                   bufVars, procVars, parentDone>>

\* Fault: the subprocess is awaited with the pipe still open.
Close_WaitFirst ==
    /\ pc = "close" /\ pc' = "reap"
    /\ UNCHANGED <<export, opts, regVars, result, readVars, taskVars, bufVars,
                   procVars, parentDone>>

\* Close before wait so mid-tar failures unblock the subprocess.
Close ==
    /\ pc = "close"
    /\ closed' = TRUE /\ pc' = "reap"
    /\ UNCHANGED <<export, opts, regVars, result, readVars, taskVars, bufVars,
                   exporter, parentDone>>

\* Fault: the exit status of the subprocess is dropped.
Exited_AnyStatus(status) == exporter # "running" /\ status = "ok"

\* wait(): blocks until the subprocess is gone and reports how it went.
Exited(status) == exporter # "running" /\ status = exporter

\* The checks between the read and the upload of config and manifest.
Reap ==
    /\ pc = "reap"
    /\ \E status \in {"ok", "failed"} :
         /\ Exited(status)
         /\ IF readErr # "none" THEN Return(readErr)
            ELSE IF status = "failed" THEN Return("export")
            ELSE IF ~cfg THEN Return("noConfig")
            ELSE pc' = "config" /\ UNCHANGED result
    /\ UNCHANGED <<export, opts, regVars, readVars, taskVars, bufVars, procVars,
                   parentDone>>

\* uploadSnapshotConfig: the blob carries a timestamp, so it is new.
PutConfig ==
    /\ pc = "config"
    /\ Store(ConfigBlob, ConfigBlob) /\ pc' = "manifest"
    /\ UNCHANGED <<export, opts, manifest, result, readVars, taskVars, bufVars,
                   procVars, parentDone>>

\* The manifest lists the uploaded layers group by group, in tar order.
Layers == [g \in 1..Len(groups) |->
             [file |-> groups[g],
              blobs |-> IF Chunked(groups[g])
                        THEN [i \in 1..count(groups[g]) |-> descs[<<groups[g], i>>]]
                        ELSE <<descs[<<groups[g], 1>>]>>]]

PutManifest ==
    /\ pc = "manifest"
    /\ manifest' = <<Layers>>
    /\ Return("ok")
    /\ UNCHANGED <<export, opts, blobs, readVars, taskVars, bufVars, procVars,
                   parentDone>>

\* The registry took the manifest but its answer was lost.
PutManifestLost ==
    /\ pc = "manifest"
    /\ manifest' = <<Layers>>
    /\ \E err \in CallErrs(parentDone) : Return(err)
    /\ UNCHANGED <<export, opts, blobs, readVars, taskVars, bufVars, procVars,
                   parentDone>>

FinalErr ==
    /\ pc \in {"config", "manifest"}
    /\ \E err \in CallErrs(parentDone) : Return(err)
    /\ UNCHANGED blobs \/ (pc = "config" /\ Store(ConfigBlob, ConfigBlob))
    /\ UNCHANGED <<export, opts, manifest, readVars, taskVars, bufVars, procVars,
                   parentDone>>

-----------------------------------------------------------------------------
(* The subprocess and the caller.                                          *)

\* The subprocess has written everything and exits well.  The reader may still
\* be anywhere: snapshot.json, directories and small files fit in the pipe, and
\* a CocoonRunner is free to report success at any time.
ExportOk ==
    /\ exporter = "running"
    /\ exporter' = "ok"
    /\ UNCHANGED <<export, opts, regVars, pc, result, readVars, taskVars, bufVars,
                   closed, parentDone>>

\* It dies: by itself, or because nobody reads the pipe any more.
ExportDies ==
    /\ exporter = "running"
    /\ exporter' = "failed"
    /\ UNCHANGED <<export, opts, regVars, pc, result, readVars, taskVars, bufVars,
                   closed, parentDone>>

CancelParent ==
    /\ ~parentDone /\ pc # "returned"
    /\ parentDone' = TRUE
    /\ UNCHANGED <<export, opts, regVars, pc, result, readVars, taskVars, bufVars,
                   procVars>>

Terminated == pc = "returned" /\ UNCHANGED vars

\* Reader steps that call no registry.
ReaderLocal == \/ Export \/ Params
               \/ LoopCancelled \/ EndOfTar \/ NextErr \/ NextEntry
               \/ ChunksEnqueued \/ ChunkCancelled \/ TakeRaw \/ Fill \/ FillErr
               \/ Go \/ Wait \/ Close \/ Reap
SpoolCall == SpoolHas \/ SpoolMissing \/ SpoolPut \/ SpoolErr
FinalCall == PutConfig \/ PutManifest \/ PutManifestLost \/ FinalErr

Next == \/ ReaderLocal \/ SpoolCall \/ FinalCall
        \/ \E t \in Tasks : TaskLocal(t) \/ TaskCall(t)
        \/ ExportOk \/ ExportDies \/ CancelParent \/ Terminated

Spec == Init /\ [][Next]_vars

\* The subprocess keeps writing, and exits once its pipe is closed; a registry
\* call is only sure to end when its context is done.
Fairness ==
    /\ WF_vars(ReaderLocal)
    /\ WF_vars(egDone /\ SpoolCall)
    /\ WF_vars(parentDone /\ FinalCall)
    /\ WF_vars(closed /\ (ExportOk \/ ExportDies))
    /\ \A t \in Tasks : /\ WF_vars(TaskLocal(t))
                        /\ WF_vars(egDone /\ TaskCall(t))

FairSpec == Spec /\ Fairness

-----------------------------------------------------------------------------
(* Properties.                                                             *)

Errs == {"none", "params", "tar", "canceled", "registry"}

\* The values the variables of a push can have.
Bytes == [enc : {"none", "raw", "zstd", "config"}, data : Seq(Units)]
TypeOK ==
    /\ export \in Exports /\ opts \in Options
    /\ pc \in {"export", "params", "next", "chunk", "fill", "go", "spool", "spoolPut", "wait",
               "close", "reap", "config", "manifest", "returned"}
    /\ result \in Errs \cup {"ok", "export", "noConfig"}
    /\ pos \in 0..Len(export) /\ chunk \in 0..(MaxChunks + 1)
    /\ cfg \in BOOLEAN /\ parentDone \in BOOLEAN /\ closed \in BOOLEAN
    /\ groups \in Seq(1..MaxEntries)
    /\ readErr \in Errs /\ egErr \in Errs
    /\ tpc \in [Tasks -> {"none", "start", "encode", "check", "put", "done"}]
    /\ descs \in [Tasks -> Bytes] /\ digest \in [Tasks -> Bytes]
    /\ rbuf \in [Tasks -> RawBufs \cup {NoBuf}]
    /\ obuf \in [Tasks -> OutBufs \cup {NoBuf}]
    /\ rheld \in RawBufs \cup {NoBuf}
    /\ freeRaw \in SUBSET RawBufs /\ freeOut \in SUBSET OutBufs
    /\ rawData \in [RawBufs -> Seq(Units)] /\ outData \in [OutBufs -> Bytes]
    /\ exporter \in {"none", "running", "ok", "failed"}

\* What is uploaded under a digest is what was hashed: no other chunk is ever
\* read or encoded into a buffer that an upload still reads from
\* (pushpipeline.go:86-99).
BlobsIntact == \A b \in blobs : b.bytes = b.digest

\* A group's blobs, put back together at the fixed offsets, are the file.
Reassembles(e, bs) ==
    /\ \A i \in 1..Len(bs) : bs[i].enc = Encoding(e)
    /\ IF Len(bs) = 1 THEN bs[1].data = export[e].data
       ELSE /\ \A i \in 1..Len(bs) - 1 : Len(bs[i].data) = ChunkSize
            /\ (Len(bs) - 1) * ChunkSize + Len(bs[Len(bs)].data) = Size(e)
            /\ \A i \in 1..Len(bs) : \A k \in 1..Len(bs[i].data) :
                 bs[i].data[k] = export[e].data[(i - 1) * ChunkSize + k]

\* A manifest the registry accepted describes the whole export: every regular
\* file of the tar, in tar order, each as blobs that are in the registry and
\* that reassemble to it, plus the config.  A subprocess that died between two
\* entries looks like the end of the tar (push.go:66-72), a read loop left
\* because the caller cancelled has no error of its own and may meet a
\* subprocess that exited well (pushpipeline.go:249-251), a group's
\* descriptors are filled in by tasks that may fail or be slow, and tasks
\* upload duplicates of each other's blobs.
PublishedComplete ==
    \A k \in DOMAIN manifest :
        LET m == manifest[k]
        IN  /\ {m[g].file : g \in DOMAIN m} = {e \in DOMAIN export : export[e].kind = "file"}
            /\ \A g, h \in DOMAIN m : g < h => m[g].file < m[h].file
            /\ \A g \in DOMAIN m : /\ Reassembles(m[g].file, m[g].blobs)
                                   /\ \A i \in DOMAIN m[g].blobs : HasBlob(m[g].blobs[i])
            /\ HasBlob(ConfigBlob)

\* The reader and two tasks never share a buffer, and no buffer is in a pool
\* while it is being filled, encoded or uploaded.
ExclusiveBuffers ==
    /\ \A t, u \in Tasks : t # u => /\ rbuf[t] = rbuf[u] => rbuf[t] = NoBuf
                                    /\ obuf[t] = obuf[u] => obuf[t] = NoBuf
    /\ \A t \in Tasks : /\ rbuf[t] \notin freeRaw /\ obuf[t] \notin freeOut
                        /\ rbuf[t] = rheld => rheld = NoBuf
    /\ rheld \notin freeRaw

\* Once readAndUploadEntries has returned, whatever failed, no task is running
\* and both pools are full again.
NothingInFlight ==
    pc \in {"close", "reap", "config", "manifest", "returned"} =>
        /\ \A t \in Tasks : ~Running(t)
        /\ freeRaw = RawBufs /\ freeOut = OutBufs

\* One buffer more than workers is enough in each pool: neither the reader nor
\* a task ever waits for a buffer, so reader and tasks cannot wait for each
\* other through the pools.
TakesNeverBlock ==
    /\ pc = "chunk" => freeRaw # {}
    /\ \A t \in Tasks : tpc[t] = "start" /\ compress(t[1]) => freeOut # {}

\* Push reports a cancellation only if its caller cancelled: a task's failure
\* cancels the group's context, but that must not hide the failure
\* (pushpipeline.go:245-248).
CanceledOnlyByCaller == result = "canceled" => parentDone

\* The refinement mapping to PushPublish: a manifest stands for the files its
\* blobs decode to, and a blob counts only with its own bytes under its digest.
Decoded(bs) == LET upTo[i \in 0..Len(bs)] == IF i = 0 THEN <<>> ELSE upTo[i - 1] \o bs[i].data
               IN  upTo[Len(bs)]
Files == {e \in DOMAIN export : export[e].kind = "file"}
Described(m) ==
    [files |-> [g \in DOMAIN m |-> <<m[g].file, Decoded(m[g].blobs)>>],
     refs |-> {ConfigBlob} \cup UNION {{m[g].blobs[i] : i \in DOMAIN m[g].blobs} : g \in DOMAIN m}]

Publication ==
    INSTANCE PushPublish
    WITH content <- {<<e, export[e].data>> : e \in Files},
         stored <- {b.digest : b \in {x \in blobs : x.bytes = x.digest}},
         published <- [k \in DOMAIN manifest |-> Described(manifest[k])],
         outcome <- IF result \in {"none", "ok"} THEN result ELSE "error"

\* Push as its caller sees it: nothing, or one manifest of the whole export over
\* blobs that are there, and no change of the registry after the return
\* (push.go:48-92), whatever the subprocess, the tasks and the registry do.
ImplementsPushPublish == Publication!Spec

\* Once the caller's context is done, Push returns: the subprocess is never
\* awaited while it is blocked writing to a pipe nobody reads.
CancelReturns == parentDone ~> pc = "returned"

\* Once a task has failed, Push returns, even if the registry never answers
\* the other tasks.
TaskErrReturns == egErr # "none" ~> pc = "returned"
=============================================================================
