---------------------------- MODULE PullPipeline ----------------------------
(***************************************************************************)
(* The reassembly half of package snapshot: writeImportTar and the chunk   *)
(* prefetch pipeline under it (snapshot/pull.go, snapshot/pullencoded.go). *)
(*                                                                         *)
(* One call of Stream is a consumer goroutine (pc) that writes the import  *)
(* tar.  For an encoded file of two or more chunks it starts a spawner     *)
(* goroutine (spc), which sends one future per chunk into a channel of     *)
(* capacity window-1 and starts one fetch goroutine (fpc[i]) per future.   *)
(* A fetch borrows buffers from two pools shared by all files of the call, *)
(* reads the blob, decodes it, and leaves the result in its future.        *)
(*                                                                         *)
(* A chunk is one unit of length.  A buffer's bytes are named by the blob  *)
(* they come from and by whether they are still zstd-encoded.              *)
(***************************************************************************)
EXTENDS Naturals, Sequences, FiniteSets

CONSTANTS Blobs,      \* digests of the blobs in the registry
          Plans,      \* the layer plans a call may be given
          MaxChunks,  \* bound: chunks of one file
          Window,     \* chunkPipeline.window: 0 (no prefetch) or at least 2
          InBufs,     \* buffers of the pool p.in (stored bytes)
          OutBufs,    \* buffers of the pool p.out (raw bytes)
          NoBuf       \* no buffer borrowed

\* An entry of the plan: `blobs` are the digests its body is made of (one,
\* the layer itself, when the entry is not encoded), `size` the body size its
\* tar header announces.  Only an encoded entry can announce a size that its
\* chunks do not add up to: it is read from the config, not from the layers.
EntryRecord == [encoded : BOOLEAN, zstd : BOOLEAN, size : Nat, blobs : Seq(Blobs)]

IsEntry(e) ==
    /\ Len(e.blobs) \in 1..MaxChunks
    /\ ~e.encoded => ~e.zstd /\ Len(e.blobs) = 1 /\ e.size = 1

ASSUME PlansAssumption ==
    \A p \in Plans : p \in Seq(EntryRecord) /\ \A f \in DOMAIN p : IsEntry(p[f])

ASSUME WindowAssumption == MaxChunks \in Nat /\ Window \in Nat /\ Window # 1

ASSUME PoolAssumption ==
    Window >= 2 => /\ IsFiniteSet(InBufs) /\ Cardinality(InBufs) = Window
                   /\ IsFiniteSet(OutBufs) /\ Cardinality(OutBufs) = Window + 1

ASSUME NoBufAssumption == NoBuf \notin InBufs \cup OutBufs

VARIABLES entries, envelope, cur, body, status,  \* the tar: see ImportStream
          pc,         \* where the consumer is
          spc,        \* where the spawner of the current file is
          sent,       \* futures sent for the current file
          futures,    \* the channel: chunk indices of the futures in it
          held,       \* the future the consumer has received, 0 if none
          cancelled,  \* the file's own context has been cancelled
          parentDone, \* the caller's context is done
          fpc,        \* fpc[i]: where the fetch of chunk i is
          fin, fout,  \* buffers the fetch of chunk i has borrowed
          freeIn, freeOut,  \* buffers in the two pools
          inData, outData,  \* what every buffer holds
          decOpen     \* the shared decoder has not been closed

tarVars  == <<entries, envelope, cur, body, status>>
chanVars == <<spc, sent, futures>>
ctxVars  == <<cancelled, parentDone>>
bufVars  == <<fin, fout, freeIn, freeOut, inData, outData>>
vars == <<tarVars, pc, chanVars, held, ctxVars, fpc, bufVars, decOpen>>

Slots == 1..MaxChunks

\* A chunk's bytes: which blob they come from and whether they are still a
\* zstd frame; Junk is a buffer being overwritten.
Content(blob, enc) == [of |-> blob, enc |-> enc]
Junk == Content("nothing", "junk")
Contents == [of : Blobs \cup {"nothing"}, enc : {"zstd", "raw", "junk"}]

Entry == entries[cur]

\* What the registry serves for chunk i, and what DecodeAll makes of a frame.
Stored(e, i) == Content(e.blobs[i], IF e.zstd THEN "zstd" ELSE "raw")
Decoded(c) == [c EXCEPT !.enc = IF @ = "zstd" THEN "raw" ELSE "junk"]

\* Fault: the channel is sized by the file, not by the pipeline's window.
fileWindow_Unclamped(e) == IF Window < 2 \/ Len(e.blobs) < 2 THEN 0
                           ELSE Len(e.blobs)

fileWindow(e) == IF Window < 2 \/ Len(e.blobs) < 2 THEN 0
                 ELSE IF Window < Len(e.blobs) THEN Window ELSE Len(e.blobs)

\* Fault: the file's context is not derived from the caller's.
CtxDone_Detached == cancelled

CtxDone == cancelled \/ parentDone

Init == /\ entries \in Plans
        /\ envelope = FALSE /\ cur = 0 /\ status = "running"
        /\ body = [f \in DOMAIN entries |-> <<>>]
        /\ pc = "envelope"
        /\ spc = "idle" /\ sent = 0 /\ futures = <<>> /\ held = 0
        /\ cancelled = FALSE /\ parentDone = FALSE
        /\ fpc = [i \in Slots |-> "none"]
        /\ fin = [i \in Slots |-> NoBuf] /\ fout = [i \in Slots |-> NoBuf]
        /\ freeIn = InBufs /\ freeOut = OutBufs
        /\ inData = [b \in InBufs |-> Junk] /\ outData = [b \in OutBufs |-> Junk]
        /\ decOpen = TRUE

-----------------------------------------------------------------------------
(* The consumer: writeImportTar, streamFile, streamLayerToTar, WriteTo.    *)

\* The call returns: the deferred cancels run, then the deferred pipe.Close.
Return(result) == /\ pc' = "returned" /\ status' = result
                  /\ cancelled' = TRUE /\ decOpen' = FALSE

\* Append one chunk to the body of the current entry; archive/tar refuses
\* bytes beyond the size in the header.
HasRoom == Len(body[cur]) < Entry.size
AppendChunk(c) == body' = [body EXCEPT ![cur] = Append(@, c)]

WriteEnvelope ==
    /\ pc = "envelope"
    /\ envelope' = TRUE /\ pc' = "entry"
    /\ UNCHANGED <<entries, cur, body, status, chanVars, held, ctxVars, fpc,
                   bufVars, decOpen>>

EnvelopeErr ==
    /\ pc = "envelope" /\ Return("error")
    /\ UNCHANGED <<entries, envelope, cur, body, chanVars, held, parentDone,
                   fpc, bufVars>>

\* The next entry's header.  A file that prefetches gets a fresh channel,
\* context and spawner; any other body is copied chunk after chunk.
OpenEntry ==
    /\ pc = "entry" /\ cur < Len(entries)
    /\ cur' = cur + 1
    /\ cancelled' = FALSE
    /\ IF entries[cur'].encoded /\ fileWindow(entries[cur']) >= 2
       THEN /\ pc' = "range" /\ spc' = "offer"
            /\ sent' = 0 /\ futures' = <<>>
            /\ fpc' = [i \in Slots |-> "none"]
       ELSE pc' = "copy" /\ UNCHANGED <<chanVars, fpc>>
    /\ UNCHANGED <<entries, envelope, body, status, held, parentDone, bufVars,
                   decOpen>>

HeaderErr ==
    /\ pc = "entry" /\ cur < Len(entries) /\ Return("error")
    /\ UNCHANGED <<entries, envelope, cur, body, chanVars, held, parentDone,
                   fpc, bufVars>>

\* Sequential copy of a plain layer or of an encoded file without prefetch.
CopyChunk ==
    /\ pc = "copy" /\ Len(body[cur]) < Len(Entry.blobs) /\ HasRoom
    /\ AppendChunk(Content(Entry.blobs[Len(body[cur]) + 1], "raw"))
    /\ UNCHANGED <<entries, envelope, cur, status, pc, chanVars, held, ctxVars,
                   fpc, bufVars, decOpen>>

CopyEnd ==
    /\ pc = "copy" /\ Len(body[cur]) = Len(Entry.blobs)
    /\ pc' = IF Entry.encoded THEN "sized" ELSE "entry"
    /\ UNCHANGED <<tarVars, chanVars, held, ctxVars, fpc, bufVars, decOpen>>

\* GetBlob, a short or oversized blob, a bad frame, the writer, a full body.
CopyErr ==
    /\ pc = "copy" /\ Return("error")
    /\ UNCHANGED <<entries, envelope, cur, body, chanVars, held, parentDone,
                   fpc, bufVars>>

\* Fault: the reconstructed size is not compared.
SizeOk_Unchecked == TRUE

\* written != e.meta.Size: the only thing that notices a body cut short.
SizeOk == Len(body[cur]) = Entry.size

SizeCheck ==
    /\ pc = "sized" /\ SizeOk
    /\ pc' = "entry" /\ cancelled' = TRUE
    /\ UNCHANGED <<tarVars, chanVars, held, parentDone, fpc, bufVars, decOpen>>

SizeErr ==
    /\ pc = "sized" /\ ~SizeOk /\ Return("error")
    /\ UNCHANGED <<entries, envelope, cur, body, chanVars, held, parentDone,
                   fpc, bufVars>>

\* Fault: the future received is not the oldest one.
NextFuture_Newest == /\ futures # <<>>
                     /\ held' = futures[Len(futures)]
                     /\ futures' = SubSeq(futures, 1, Len(futures) - 1)

\* for fut := range s.futures: receive the oldest future ...
NextFuture == /\ futures # <<>>
              /\ held' = Head(futures) /\ futures' = Tail(futures)

\* Fault: an empty channel is taken for a closed one.
FuturesClosed_Empty == futures = <<>>

\* ... or leave the loop when the channel is closed and empty.
FuturesClosed == futures = <<>> /\ spc = "exit"

Receive ==
    /\ pc = "range" /\ NextFuture
    /\ pc' = "await"
    /\ UNCHANGED <<tarVars, spc, sent, ctxVars, fpc, bufVars, decOpen>>

RangeEnd ==
    /\ pc = "range" /\ FuturesClosed
    /\ pc' = "sized" /\ cancelled' = TRUE
    /\ UNCHANGED <<tarVars, chanVars, held, parentDone, fpc, bufVars, decOpen>>

\* Fault: the buffer goes back to the pool before it is written.
AwaitOk_PutFirst ==
    /\ pc = "await" /\ fpc[held] = "ready"
    /\ fpc' = [fpc EXCEPT ![held] = "received"]
    /\ freeOut' = freeOut \cup {fout[held]}
    /\ pc' = "write"
    /\ UNCHANGED <<tarVars, chanVars, held, ctxVars, fin, fout, freeIn, inData,
                   outData, decOpen>>

\* res := <-fut
AwaitOk ==
    /\ pc = "await" /\ fpc[held] = "ready"
    /\ fpc' = [fpc EXCEPT ![held] = "received"]
    /\ pc' = "write"
    /\ UNCHANGED <<tarVars, chanVars, held, ctxVars, bufVars, decOpen>>

\* Fault: drain joins the fetches without cancelling them.
StartDrain_NoCancel == pc' = "drain" /\ UNCHANGED cancelled

\* s.drain(), first half: cancel the fetches.
StartDrain == pc' = "drain" /\ cancelled' = TRUE

AwaitErr ==
    /\ pc = "await" /\ fpc[held] = "failed"
    /\ fpc' = [fpc EXCEPT ![held] = "done"] /\ held' = 0
    /\ StartDrain
    /\ UNCHANGED <<tarVars, chanVars, parentDone, bufVars, decOpen>>

\* Fault: the buffer of a consumed future is not put back.
PutHeld_Leak == /\ UNCHANGED freeOut
                /\ fout' = [fout EXCEPT ![held] = NoBuf]
                /\ fpc' = [fpc EXCEPT ![held] = "done"]
                /\ held' = 0

\* s.pipe.out.put(res.buf)
PutHeld == /\ freeOut' = freeOut \cup {fout[held]}
           /\ fout' = [fout EXCEPT ![held] = NoBuf]
           /\ fpc' = [fpc EXCEPT ![held] = "done"]
           /\ held' = 0

Write ==
    /\ pc = "write" /\ HasRoom
    /\ AppendChunk(outData[fout[held]])
    /\ PutHeld
    /\ pc' = "range"
    /\ UNCHANGED <<entries, envelope, cur, status, chanVars, ctxVars, fin,
                   freeIn, inData, outData, decOpen>>

WriteErr ==
    /\ pc = "write" /\ PutHeld
    /\ StartDrain
    /\ UNCHANGED <<tarVars, chanVars, parentDone, fin, freeIn, inData, outData,
                   decOpen>>

\* drain: join every fetch in flight and take its buffer back.
DrainReceive ==
    /\ pc = "drain" /\ NextFuture
    /\ pc' = "join"
    /\ UNCHANGED <<tarVars, spc, sent, ctxVars, fpc, bufVars, decOpen>>

DrainJoinOk ==
    /\ pc = "join" /\ fpc[held] = "ready" /\ PutHeld
    /\ pc' = "drain"
    /\ UNCHANGED <<tarVars, chanVars, ctxVars, fin, freeIn, inData, outData,
                   decOpen>>

DrainJoinErr ==
    /\ pc = "join" /\ fpc[held] = "failed"
    /\ fpc' = [fpc EXCEPT ![held] = "done"] /\ held' = 0
    /\ pc' = "drain"
    /\ UNCHANGED <<tarVars, chanVars, ctxVars, bufVars, decOpen>>

DrainEnd ==
    /\ pc = "drain" /\ FuturesClosed
    /\ Return("error")
    /\ UNCHANGED <<entries, envelope, cur, body, chanVars, held, parentDone,
                   fpc, bufVars>>

\* tw.Close writes the tar trailer, bw.Flush the buffered tail.
Finish ==
    /\ pc = "entry" /\ cur = Len(entries)
    /\ Return("ok")
    /\ UNCHANGED <<entries, envelope, cur, body, chanVars, held, parentDone,
                   fpc, bufVars>>

FinishErr ==
    /\ pc = "entry" /\ cur = Len(entries)
    /\ Return("error")
    /\ UNCHANGED <<entries, envelope, cur, body, chanVars, held, parentDone,
                   fpc, bufVars>>

Consumer == \/ WriteEnvelope \/ EnvelopeErr \/ OpenEntry \/ HeaderErr
            \/ CopyEnd \/ SizeCheck \/ SizeErr
            \/ Receive \/ RangeEnd \/ AwaitOk \/ AwaitErr \/ Write \/ WriteErr
            \/ DrainReceive \/ DrainJoinOk \/ DrainJoinErr \/ DrainEnd
            \/ Finish \/ FinishErr

-----------------------------------------------------------------------------
(* The spawner goroutine of newChunkSource.                                *)

MoreChunks == sent < Len(Entry.blobs)

\* Fault: the channel is left open when the loop ends.
SpawnerEnd_NoClose ==
    /\ spc = "offer" /\ ~MoreChunks
    /\ spc' = "idle"
    /\ UNCHANGED <<tarVars, pc, sent, futures, held, ctxVars, fpc, bufVars,
                   decOpen>>

\* The loop is over: close(futures).
SpawnerEnd ==
    /\ spc = "offer" /\ ~MoreChunks
    /\ spc' = "exit"
    /\ UNCHANGED <<tarVars, pc, sent, futures, held, ctxVars, fpc, bufVars,
                   decOpen>>

\* select: send the next future if the channel has room ...
Offer ==
    /\ spc = "offer" /\ MoreChunks
    /\ Len(futures) < fileWindow(Entry) - 1
    /\ futures' = Append(futures, sent + 1) /\ sent' = sent + 1
    /\ spc' = "spawn"
    /\ UNCHANGED <<tarVars, pc, held, ctxVars, fpc, bufVars, decOpen>>

\* ... or give up when the context is done; either way close(futures).
OfferCancelled ==
    /\ spc = "offer" /\ MoreChunks /\ CtxDone
    /\ spc' = "exit"
    /\ UNCHANGED <<tarVars, pc, sent, futures, held, ctxVars, fpc, bufVars,
                   decOpen>>

Spawn ==
    /\ spc = "spawn"
    /\ fpc' = [fpc EXCEPT ![sent] = "start"]
    /\ spc' = "offer"
    /\ UNCHANGED <<tarVars, pc, sent, futures, held, ctxVars, bufVars, decOpen>>

Spawner == Offer \/ OfferCancelled \/ Spawn \/ SpawnerEnd

-----------------------------------------------------------------------------
(* The fetch goroutine of chunk i: chunkPipeline.fetch and read.           *)

Goto(i, where) == fpc' = [fpc EXCEPT ![i] = where]

TakeIn(i) ==
    /\ fpc[i] = "start" /\ Entry.zstd
    /\ \E b \in freeIn : /\ freeIn' = freeIn \ {b}
                         /\ fin' = [fin EXCEPT ![i] = b]
                         /\ inData' = [inData EXCEPT ![b] = Junk]
    /\ Goto(i, "reading")
    /\ UNCHANGED <<tarVars, pc, chanVars, held, ctxVars, fout, freeOut, outData,
                   decOpen>>

\* out.take: the read buffer of a raw chunk, the destination of a zstd one.
TakeOut(i) ==
    /\ \/ fpc[i] = "start" /\ ~Entry.zstd /\ Goto(i, "reading")
       \/ fpc[i] = "stored" /\ Goto(i, "decoding")
    /\ \E b \in freeOut : /\ freeOut' = freeOut \ {b}
                          /\ fout' = [fout EXCEPT ![i] = b]
                          /\ outData' = [outData EXCEPT ![b] = Junk]
    /\ UNCHANGED <<tarVars, pc, chanVars, held, ctxVars, fin, freeIn, inData,
                   decOpen>>

\* GetBlob, ReadFull and the drain of the body into the borrowed buffer.
ReadOk(i) ==
    /\ fpc[i] = "reading"
    /\ IF Entry.zstd
       THEN /\ inData' = [inData EXCEPT ![fin[i]] = Stored(Entry, i)]
            /\ Goto(i, "stored") /\ UNCHANGED outData
       ELSE /\ outData' = [outData EXCEPT ![fout[i]] = Stored(Entry, i)]
            /\ Goto(i, "ready") /\ UNCHANGED inData
    /\ UNCHANGED <<tarVars, pc, chanVars, held, ctxVars, fin, fout, freeIn,
                   freeOut, decOpen>>

PutIn(i) == /\ freeIn' = freeIn \cup {fin[i]}
            /\ fin' = [fin EXCEPT ![i] = NoBuf]
PutOut(i) == /\ freeOut' = freeOut \cup {fout[i]}
             /\ fout' = [fout EXCEPT ![i] = NoBuf]

ReadErr(i) ==
    /\ fpc[i] = "reading" /\ Goto(i, "failed")
    /\ IF Entry.zstd THEN PutIn(i) /\ UNCHANGED <<fout, freeOut>>
                     ELSE PutOut(i) /\ UNCHANGED <<fin, freeIn>>
    /\ UNCHANGED <<tarVars, pc, chanVars, held, ctxVars, inData, outData,
                   decOpen>>

Decode(i) ==
    /\ fpc[i] = "decoding" /\ Goto(i, "ready")
    /\ outData' = [outData EXCEPT ![fout[i]] = Decoded(inData[fin[i]])]
    /\ PutIn(i)
    /\ UNCHANGED <<tarVars, pc, chanVars, held, ctxVars, fout, freeOut, inData,
                   decOpen>>

DecodeErr(i) ==
    /\ fpc[i] = "decoding" /\ Goto(i, "failed")
    /\ PutIn(i) /\ PutOut(i)
    /\ UNCHANGED <<tarVars, pc, chanVars, held, ctxVars, inData, outData,
                   decOpen>>

FetchLocal(i) == TakeIn(i) \/ TakeOut(i) \/ Decode(i) \/ DecodeErr(i)
Fetch(i) == FetchLocal(i) \/ ReadOk(i) \/ ReadErr(i)

-----------------------------------------------------------------------------
CancelParent ==
    /\ ~parentDone /\ pc # "returned"
    /\ parentDone' = TRUE
    /\ UNCHANGED <<tarVars, pc, chanVars, held, cancelled, fpc, bufVars, decOpen>>

Terminated == pc = "returned" /\ UNCHANGED vars

Next == \/ Consumer \/ CopyChunk \/ CopyErr
        \/ Spawner
        \/ \E i \in Slots : Fetch(i)
        \/ CancelParent
        \/ Terminated

Spec == Init /\ [][Next]_vars

\* Goroutines that can run do run, and the tar writer returns.  Nothing makes
\* the registry answer: a read is only sure to end once its context is done,
\* which the Downloader contract requires.
Fairness ==
    /\ WF_vars(Consumer)
    /\ WF_vars(Spawner)
    /\ WF_vars(parentDone /\ (CopyChunk \/ CopyErr))
    /\ \A i \in Slots : /\ WF_vars(FetchLocal(i))
                        /\ WF_vars(CtxDone /\ (ReadOk(i) \/ ReadErr(i)))

FairSpec == Spec /\ Fairness

-----------------------------------------------------------------------------
(* Properties.                                                             *)

FetchStates == {"none", "start", "reading", "stored", "decoding", "ready",
                "failed", "received", "done"}

\* The values every variable of the call can have; in particular nothing but
\* buffers is put into a pool.
TypeOK ==
    /\ entries \in Plans
    /\ envelope \in BOOLEAN /\ cur \in 0..Len(entries)
    /\ status \in {"running", "ok", "error"}
    /\ body \in [DOMAIN entries -> Seq(Contents)]
    /\ pc \in {"envelope", "entry", "copy", "sized", "range", "await", "write",
               "drain", "join", "returned"}
    /\ spc \in {"idle", "offer", "spawn", "exit"}
    /\ sent \in 0..MaxChunks /\ held \in 0..MaxChunks
    /\ futures \in Seq(Slots)
    /\ cancelled \in BOOLEAN /\ parentDone \in BOOLEAN /\ decOpen \in BOOLEAN
    /\ fpc \in [Slots -> FetchStates]
    /\ fin \in [Slots -> InBufs \cup {NoBuf}]
    /\ fout \in [Slots -> OutBufs \cup {NoBuf}]
    /\ freeIn \in SUBSET InBufs /\ freeOut \in SUBSET OutBufs
    /\ inData \in [InBufs -> Contents] /\ outData \in [OutBufs -> Contents]

\* A fetch goroutine that has been started and whose result nobody has taken.
Live(i) == fpc[i] \notin {"none", "done"}

BodyPrefix(f) ==
    /\ Len(body[f]) <= Len(entries[f].blobs)
    /\ \A i \in 1..Len(body[f]) :
         body[f][i] = Content(entries[f].blobs[i], "raw")

\* Whatever order the prefetched blobs arrive in and whichever buffers they
\* travel in, the bytes in the tar are the file's chunks, decoded, in chunk
\* order; and an entry is left, or nil returned, only with a body of exactly
\* the announced size.  A cancelled spawner closes the channel with no error
\* (pullencoded.go:203-209): only the size check stands between a cancelled
\* call and a truncated file.
TarFaithful ==
    /\ \A f \in DOMAIN entries : BodyPrefix(f)
    /\ \A f \in DOMAIN entries :
         (f < cur \/ status = "ok") => Len(body[f]) = entries[f].size

\* Two fetches never work in one buffer, and no buffer is in a pool while a
\* fetch or the tar write still uses it (pullencoded.go:152-176, 231-233).
ExclusiveBuffers ==
    /\ \A i, j \in Slots : i # j => /\ fin[i] = fin[j] => fin[i] = NoBuf
                                    /\ fout[i] = fout[j] => fout[i] = NoBuf
    /\ \A i \in Slots : fin[i] \notin freeIn /\ fout[i] \notin freeOut

\* Between files, and when the call has returned, on every path: no spawner
\* and no fetch is left running and both pools have every buffer back.  The
\* pools are shared by the files of a call, so a lost buffer would stall a
\* later file.
NothingInFlight ==
    pc \in {"entry", "sized", "returned"} =>
        /\ spc \in {"idle", "exit"} /\ futures = <<>>
        /\ \A i \in Slots : ~Live(i)
        /\ freeIn = InBufs /\ freeOut = OutBufs

\* The shared decoder is closed only when no fetch can still be using it:
\* drain joins the fetches before the deferred pipe.Close runs.
DecoderOutlivesFetches == ~decOpen => \A i \in Slots : ~Live(i)

\* The window keeps the fetches in flight below the pool sizes: a fetch that
\* needs a buffer always finds one, so the pools cannot deadlock the fetches
\* against the consumer that waits for the oldest of them.
TakesNeverBlock ==
    \A i \in Slots :
        /\ fpc[i] = "start" /\ Entry.zstd => freeIn # {}
        /\ fpc[i] = "start" /\ ~Entry.zstd => freeOut # {}
        /\ fpc[i] = "stored" => freeOut # {}

\* Once the caller's context is done, Stream returns, however the fetches,
\* the spawner and the tar write interleave.
CancelReturns == parentDone ~> pc = "returned"

\* Once a fetch or the tar write has failed, Stream returns even if the
\* registry never answers the other fetches: drain cancels before it joins.
DrainReturns == pc = "drain" ~> pc = "returned"

\* If the registry ends every read, with data or with an error, Stream
\* returns: consumer, spawner and fetches never wait for each other in a
\* circle.
HealthyReturns ==
    /\ WF_vars(CopyChunk \/ CopyErr)
    /\ \A i \in Slots : WF_vars(ReadOk(i) \/ ReadErr(i))
    => <>(pc = "returned")

Tar == INSTANCE ImportStream

\* The prefetching pipeline implements the sequential promise of ImportStream:
\* header, body chunks in order, next header, trailer.
ImplementsImportStream == Tar!Spec
=============================================================================
