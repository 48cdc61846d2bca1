------------------------- MODULE PushPipelineProofs -------------------------
(***************************************************************************)
(* Proofs about PushPipeline for every export, every chunk size, every     *)
(* number of workers and every registry.                                   *)
(***************************************************************************)
EXTENDS PushPipelineInv, FiniteSetTheorems, SequenceTheorems, WellFoundedInduction, TLAPS

-----------------------------------------------------------------------------
(* Chunk arithmetic.                                                       *)

\* The number of chunks of n bytes, rounded up.
LEMMA CeilDiv ==
    ASSUME NEW n \in Nat, NEW c \in Nat \ {0}
    PROVE  LET q == (n + c - 1) \div c
           IN  /\ q \in Nat /\ n <= q * c
               /\ n > 0 => q > 0 /\ (q - 1) * c < n
<1> DEFINE q == (n + c - 1) \div c
<1>1. n + c - 1 \in Nat
  OBVIOUS
<1>2. q \in Int /\ c * q <= n + c - 1 /\ n + c - 1 < c * q + c
  BY <1>1
<1> HIDE DEF q
<1>3. q >= 0
  BY <1>2
<1>4. n <= q * c
  BY <1>2
<1>5. n > 0 => q > 0
  BY <1>2
<1>6. (q - 1) * c = c * q - c
  BY <1>2
<1>7. (q - 1) * c < n
  BY <1>2, <1>6
<1> QED
  BY <1>2, <1>3, <1>4, <1>5, <1>7 DEF q

\* A product grows with its first factor.
LEMMA Monotone ==
    ASSUME NEW a \in Int, NEW b \in Int, NEW c \in Nat, a <= b
    PROVE  a * c \in Int /\ b * c \in Int /\ a * c <= b * c
OBVIOUS

\* What the assumptions say about the tar and the options of a push.
LEMMA ExportFacts ==
    ASSUME TypeOK
    PROVE  /\ export \in Seq(EntryRecord) /\ Len(export) \in Nat /\ Len(export) <= MaxEntries
           /\ opts.zstd \in BOOLEAN /\ ChunkSize \in Nat
           /\ \A e \in DOMAIN export : /\ export[e].data \in Seq(Units)
                                       /\ e \in 1..MaxEntries /\ Size(e) \in Nat
<1>1. export \in Seq(EntryRecord) /\ Len(export) <= MaxEntries
  BY ExportsAssumption DEF TypeOK
<1>2. opts \in [zstd : BOOLEAN, chunk : Nat]
  BY ParamsAssumption DEF TypeOK
<1>6. opts.zstd \in BOOLEAN /\ opts.chunk \in Nat
  BY <1>2
<1>3. \A e \in DOMAIN export : export[e].data \in Seq(Units)
  <2> TAKE e \in DOMAIN export
  <2>1. export[e] \in EntryRecord
    BY <1>1
  <2> QED
    BY <2>1 DEF EntryRecord
<1>4. \A e \in DOMAIN export : Size(e) \in Nat
  BY <1>3 DEF Size
<1>5. \A e \in DOMAIN export : e \in 1..MaxEntries
  BY <1>1, ParamsAssumption
<1> QED
  BY <1>1, <1>6, <1>3, <1>4, <1>5 DEF ChunkSize

\* The elements of a sequence.
LEMMA ElementType ==
    ASSUME NEW S, NEW s \in Seq(S)
    PROVE  Len(s) \in Nat /\ DOMAIN s = 1..Len(s) /\ \A i \in DOMAIN s : s[i] \in S
OBVIOUS

\* A group is a tar entry.
LEMMA GroupFacts ==
    ASSUME TypeOK
    PROVE  /\ Len(groups) \in Nat /\ DOMAIN groups = 1..Len(groups)
           /\ \A g \in DOMAIN groups : groups[g] \in 1..MaxEntries /\ groups[g] \in Nat
<1>1. groups \in Seq(1..MaxEntries)
  BY DEF TypeOK
<1> DEFINE S == 1..MaxEntries
<1>2. Len(groups) \in Nat /\ DOMAIN groups = 1..Len(groups) /\ \A g \in DOMAIN groups : groups[g] \in S
  <2> HIDE DEF S
  <2> QED
    BY <1>1, ElementType DEF S
<1> QED
  BY <1>2, ParamsAssumption

\* A chunked file has at least one chunk and no more than there is room for,
\* and all but its last chunk are full.
LEMMA CountFacts ==
    ASSUME TypeOK, NEW e \in DOMAIN export, Chunked(e)
    PROVE  /\ ChunkSize \in Nat \ {0} /\ Size(e) \in Nat \ {0}
           /\ count(e) \in 1..MaxChunks
           /\ (count(e) - 1) * ChunkSize < Size(e) /\ Size(e) <= count(e) * ChunkSize
<1>1. ChunkSize \in Nat \ {0} /\ Size(e) \in Nat
  BY ExportFacts DEF Chunked
<1>2. Size(e) # 0
  BY <1>1 DEF Chunked, compress, compressMin
<1>3. /\ count(e) \in Nat /\ count(e) > 0
      /\ (count(e) - 1) * ChunkSize < Size(e) /\ Size(e) <= count(e) * ChunkSize
  BY <1>1, <1>2, CeilDiv DEF count
<1>4. Size(e) <= MaxChunks * ChunkSize
  BY <1>1, ExportsAssumption DEF TypeOK, Size, ChunkSize
<1>5. count(e) <= MaxChunks
  <2>1. SUFFICES ASSUME MaxChunks <= count(e) - 1 PROVE FALSE
    BY <1>3, ParamsAssumption
  <2>2. MaxChunks * ChunkSize <= (count(e) - 1) * ChunkSize
    BY <1>1, <1>3, <2>1, Monotone, ParamsAssumption
  <2>3. MaxChunks * ChunkSize \in Int /\ (count(e) - 1) * ChunkSize \in Int
    BY <1>1, <1>3, ParamsAssumption
  <2> QED
    BY <1>1, <1>3, <1>4, <2>2, <2>3
<1> QED
  BY <1>1, <1>2, <1>3, <1>5, ParamsAssumption

\* Every chunk of a chunked file is cut from its bytes.
LEMMA ChunkType ==
    ASSUME TypeOK, NEW e \in DOMAIN export, Chunked(e), NEW i \in 1..count(e)
    PROVE  ChunkData(e, i) \in Seq(Units)
<1> DEFINE a == (i - 1) * ChunkSize + 1
           b == IF i * ChunkSize < Size(e) THEN i * ChunkSize ELSE Size(e)
<1>1. ChunkSize \in Nat \ {0} /\ Size(e) \in Nat /\ i \in Nat \ {0}
  BY CountFacts
<1>2. (i - 1) * ChunkSize \in Nat /\ i * ChunkSize \in Nat
  BY <1>1
<1>3. a \in 1..(Len(export[e].data) + 1) /\ b \in 0..Len(export[e].data)
  <2>1. (i - 1) * ChunkSize <= (count(e) - 1) * ChunkSize
    BY <1>1, CountFacts, Monotone
  <2>2. a <= Size(e) + 1
    BY <1>1, <1>2, <2>1, CountFacts
  <2> QED
    BY <1>1, <1>2, <2>2 DEF Size
<1> HIDE DEF a, b
<1>4. export[e].data \in Seq(Units)
  BY ExportFacts
<1>5. SubSeq(export[e].data, a, b) \in Seq(Units)
  BY <1>3, <1>4
<1> QED
  BY <1>5 DEF ChunkData, a, b
-----------------------------------------------------------------------------
(* Frames: what a step that leaves some variables alone preserves.         *)

\* The tar and the options never change, and with them how files are cut.
LEMMA Frozen ==
    ASSUME UNCHANGED <<export, opts>>
    PROVE  /\ ChunkSize' = ChunkSize
           /\ \A e : /\ Size(e)' = Size(e) /\ compress(e)' = compress(e)
                     /\ Chunked(e)' = Chunked(e) /\ count(e)' = count(e)
                     /\ Encoding(e)' = Encoding(e) /\ IsFileAt(e)' = IsFileAt(e)
                     /\ \A i : ChunkData(e, i)' = ChunkData(e, i)
           /\ \A t : Wanted(t)' = Wanted(t)
  BY DEF ChunkSize, Size, compress, Chunked, count, Encoding, IsFileAt, ChunkData, Wanted, Blob

\* Blobs are never deleted.
LEMMA BlobsStay ==
    ASSUME blobs \subseteq blobs', NEW d, HasBlob(d)
    PROVE  HasBlob(d)'
  BY DEF HasBlob

\* A published manifest stays complete while the registry only grows.
LEMMA PublishedStable ==
    ASSUME PublishedComplete, UNCHANGED <<export, opts, manifest>>, blobs \subseteq blobs'
    PROVE  PublishedComplete'
<1>1. \A e, bs : Reassembles(e, bs)' = Reassembles(e, bs)
  BY Frozen DEF Reassembles
<1>2. \A d : HasBlob(d) => HasBlob(d)'
  BY BlobsStay
<1>3. HasBlob(ConfigBlob) => HasBlob(ConfigBlob)'
  BY DEF HasBlob, ConfigBlob, Blob
<1> QED
  BY <1>1, <1>2, <1>3 DEF PublishedComplete

\* A step that leaves the tasks and what their buffers hold alone.
LEMMA DataFrame ==
    ASSUME IInv, UNCHANGED <<export, opts, tpc, digest, egErr, rbuf, obuf, rawData, outData>>,
           \A t \in Tasks : tpc[t] # "none" => descs'[t] = descs[t],
           blobs \subseteq blobs', BlobsIntact'
    PROVE  SlotInv' /\ DataInv'
<1>1. SlotInv'
  BY DEF IInv, SlotInv, Occupied, Running
<1>2. \A t \in Tasks : Stored(t)' = Stored(t)
  BY Frozen DEF Stored, Blob
<1>3. \A t \in Tasks : tpc[t] = "done" /\ egErr = "none" => HasBlob(descs[t])'
  BY BlobsStay DEF IInv, DataInv
<1>4. DataInv'
  BY <1>2, <1>3, Frozen DEF IInv, DataInv
<1> QED
  BY <1>1, <1>4

\* A step that touches neither tasks nor buffers.
LEMMA TaskFrame ==
    ASSUME IInv, UNCHANGED <<export, opts, tpc, digest, egErr, bufVars>>,
           \A t \in Tasks : tpc[t] # "none" => descs'[t] = descs[t],
           blobs \subseteq blobs', BlobsIntact'
    PROVE  SlotInv' /\ BufInv' /\ DataInv'
<1>1. UNCHANGED <<rbuf, obuf, rheld, freeRaw, freeOut, rawData, outData>>
  BY DEF bufVars
<1>2. BufInv'
  BY <1>1, Frozen DEF IInv, BufInv, ExclusiveBuffers, OwnsRaw, OwnsOut
<1>3. SlotInv' /\ DataInv'
  BY <1>1, DataFrame
<1> QED
  BY <1>2, <1>3

-----------------------------------------------------------------------------
(* Steps of control: no task, no buffer and no blob is touched.            *)

\* Where such a step takes the reader.
QuietPc ==
    \/ pc' = pc
    \/ pc = "export" /\ pc' \in {"params", "returned"}
    \/ pc = "params" /\ pc' \in {"next", "close"}
    \/ pc \in {"next", "chunk"} /\ pc' = "wait"
    \/ pc = "spool" /\ pc' = "spoolPut"
    \/ pc = "wait" /\ pc' = "close"
    \/ pc = "close" /\ pc' = "reap"
    \/ pc = "reap" /\ pc' \in {"config", "returned"}

\* Only the ends of the call and the errors have to be looked at.
LEMMA QuietStep ==
    ASSUME IInv, QuietPc,
           UNCHANGED <<export, opts, regVars, pos, chunk, cfg, groups, taskVars, bufVars>>,
           TypeOK', EndInv', ErrInv', Over' => \A t \in Tasks : ~Running(t)
    PROVE  IInv'
<1>1. UNCHANGED <<blobs, manifest, tpc, descs, digest, egErr, rheld, rawData>>
  BY DEF regVars, taskVars, bufVars
<1>2. BlobsIntact'
  BY <1>1 DEF IInv, DataInv, BlobsIntact
<1>3. SlotInv' /\ BufInv' /\ DataInv'
  BY <1>1, <1>2, TaskFrame
<1>4. ReadInv'
  BY <1>1, Frozen DEF IInv, ReadInv, QuietPc, Chunking, Spooling
<1>5. TaskInv'
  BY <1>1, Frozen DEF IInv, TaskInv, QuietPc, Chunking, Running
<1>6. GroupInv'
  <2>1. \A n : Covered(n)' = Covered(n)
    BY Frozen DEF Covered
  <2>2. pc = "params" => Covered(pos)
    BY DEF IInv, EndInv, Covered
  <2> QED
    BY <1>1, <2>1, <2>2, Frozen, BlobsStay DEF IInv, GroupInv, QuietPc, Chunking, Spooling, Blob
<1>7. ManifestInv'
  <2>1. PublishedComplete'
    BY <1>1, PublishedStable DEF IInv, ManifestInv
  <2>2. HasBlob(ConfigBlob)' = HasBlob(ConfigBlob)
    BY <1>1 DEF HasBlob, ConfigBlob, Blob
  <2> QED
    BY <1>1, <2>1, <2>2 DEF IInv, ManifestInv, QuietPc
<1> QED
  BY <1>3, <1>4, <1>5, <1>6, <1>7 DEF IInv

\* What a quiet step means for the properties of the ends.
LEMMA QuietFacts ==
    ASSUME IInv, UNCHANGED <<export, opts, pos, groups>>
    PROVE  /\ Covered(pos)' = Covered(pos) /\ Len(export)' = Len(export)
           /\ AllRead => Covered(pos)
           /\ pc \in {"export", "params"} => pos = 0 /\ \A t \in Tasks : ~Running(t)
           /\ Over => \A t \in Tasks : ~Running(t)
<1>1. Covered(pos)' = Covered(pos)
  BY Frozen DEF Covered
<1> QED
  BY <1>1 DEF AllRead, IInv, EndInv, TaskInv, Running

\* The steps that start the call or leave the read loop.
LEMMA StopStep ==
    IInv /\ (Export \/ Params \/ LoopCancelled \/ EndOfTar \/ NextErr \/ ChunkCancelled
             \/ SpoolMissing) => IInv'
<1> SUFFICES ASSUME IInv, Export \/ Params \/ LoopCancelled \/ EndOfTar \/ NextErr
                          \/ ChunkCancelled \/ SpoolMissing
             PROVE  IInv'
  OBVIOUS
<1>1. UNCHANGED <<export, opts, regVars, pos, chunk, cfg, groups, taskVars, bufVars, parentDone,
                  closed>>
  BY DEF Export, Params, LoopCancelled, EndOfTar, NextErr, ChunkCancelled, SpoolMissing,
         StopReading, Return, readVars, procVars
<1>2. QuietPc
  BY DEF QuietPc, Export, Params, LoopCancelled, EndOfTar, NextErr, ChunkCancelled,
         SpoolMissing, StopReading, Return
<1>3. TypeOK'
  BY <1>1 DEF IInv, TypeOK, Export, Params, LoopCancelled, EndOfTar, NextErr, ChunkCancelled,
              SpoolMissing, StopReading, Return, readVars, procVars, taskVars, bufVars, Errs
<1>4. Over' => \A t \in Tasks : ~Running(t)
  BY <1>1, QuietFacts DEF Export, Params, LoopCancelled, EndOfTar, NextErr, ChunkCancelled,
         SpoolMissing, StopReading, Return, Over
<1>5. UNCHANGED <<egErr, exporter>> \/ Export
  BY DEF Params, LoopCancelled, EndOfTar, NextErr, ChunkCancelled, SpoolMissing, taskVars, procVars
<1>6. egErr' = egErr
  BY <1>1 DEF taskVars
<1>7. EndInv'
  <2>1. CASE Export
    BY <1>1, <1>6, <2>1, QuietFacts DEF IInv, EndInv, Export, Return, AllRead
  <2>2. CASE Params
    BY <1>1, <1>6, <2>2, QuietFacts DEF IInv, EndInv, Params, AllRead, procVars
  <2>3. CASE LoopCancelled
    BY <1>1, <1>6, <2>3, QuietFacts DEF IInv, EndInv, LoopCancelled, AllRead, procVars, egDone
  <2>4. CASE EndOfTar
    BY <1>1, <1>6, <2>4, QuietFacts DEF IInv, EndInv, EndOfTar, StopReading, AllRead, procVars,
                                        GroupInv
  <2>5. CASE NextErr \/ ChunkCancelled
    BY <1>1, <1>6, <2>5, QuietFacts DEF IInv, EndInv, NextErr, ChunkCancelled, StopReading,
                                        AllRead, procVars
  <2>6. CASE SpoolMissing
    BY <1>1, <1>6, <2>6, QuietFacts DEF IInv, EndInv, SpoolMissing, AllRead, procVars
  <2> QED
    BY <2>1, <2>2, <2>3, <2>4, <2>5, <2>6
<1>8. ErrInv'
  BY <1>1, <1>6 DEF IInv, ErrInv, CanceledOnlyByCaller, egDone, Export, Params, LoopCancelled,
         EndOfTar, NextErr, ChunkCancelled, SpoolMissing, StopReading, Return, readVars
<1> QED
  BY <1>1, <1>2, <1>3, <1>4, <1>7, <1>8, QuietStep

\* The error of the call keeps a cancellation apart from what caused it.
LEMMA RootCauseFacts ==
    ASSUME IInv, pc = "wait"
    PROVE  /\ RootCause \in Errs
           /\ RootCause = "none" => egErr = "none" /\ AllRead
           /\ RootCause = "canceled" => parentDone
  BY DEF IInv, TypeOK, EndInv, ErrInv, RootCause, egDone, Errs

\* The steps after the read loop, up to the upload of the config.
LEMMA FinishStep == IInv /\ (Wait \/ Close \/ Reap) => IInv'
<1> SUFFICES ASSUME IInv, Wait \/ Close \/ Reap PROVE IInv'
  OBVIOUS
<1>1. UNCHANGED <<export, opts, regVars, pos, chunk, cfg, groups, taskVars, bufVars, parentDone,
                  exporter, egErr>>
  BY DEF Wait, Close, Reap, readVars, procVars, taskVars
<1>2. QuietPc
  BY DEF QuietPc, Wait, Close, Reap, Return
<1>3. TypeOK'
  <2>1. readErr' \in Errs /\ pc' \in {"close", "reap", "config", "returned"}
    BY RootCauseFacts DEF IInv, TypeOK, Wait, Close, Reap, Return, readVars
  <2>2. result' \in Errs \cup {"ok", "export", "noConfig"}
    BY DEF IInv, TypeOK, Wait, Close, Reap, Return
  <2>3. closed' = closed \/ closed' = TRUE
    BY DEF Wait, Close, Reap, procVars
  <2> QED
    BY <1>1, <2>1, <2>2, <2>3 DEF IInv, TypeOK, taskVars, bufVars
<1>4. Over' => \A t \in Tasks : ~Running(t)
  BY <1>1, QuietFacts DEF Wait, Close, Reap, Over
<1>5. AllRead' = AllRead
  BY <1>1, QuietFacts DEF AllRead
<1>6. EndInv'
  <2>1. CASE Wait
    BY <1>1, <1>5, <2>1, RootCauseFacts DEF IInv, EndInv, Wait
  <2>2. CASE Close
    BY <1>1, <1>5, <2>2 DEF IInv, EndInv, Close, readVars
  <2>3. CASE Reap
    BY <1>1, <1>5, <2>3 DEF IInv, EndInv, Reap, Return, Exited, readVars
  <2> QED
    BY <2>1, <2>2, <2>3
<1>7. ErrInv'
  BY <1>1, RootCauseFacts DEF IInv, ErrInv, CanceledOnlyByCaller, Wait, Close, Reap, Return,
                              readVars
<1> QED
  BY <1>1, <1>2, <1>3, <1>4, <1>6, <1>7, QuietStep

\* Steps of the subprocess and of the caller, and stuttering.
LEMMA OutsideStep == IInv /\ (ExportOk \/ ExportDies \/ CancelParent \/ UNCHANGED vars) => IInv'
<1> SUFFICES ASSUME IInv, ExportOk \/ ExportDies \/ CancelParent \/ UNCHANGED vars PROVE IInv'
  OBVIOUS
<1>1. UNCHANGED <<export, opts, regVars, pc, result, pos, chunk, cfg, groups, readErr, taskVars,
                  bufVars, egErr, closed>>
  BY DEF ExportOk, ExportDies, CancelParent, vars, readVars, procVars, taskVars
<1>2. \/ exporter' = exporter
      \/ exporter = "running" /\ exporter' = "failed"
      \/ exporter = "running" /\ exporter' = "ok"
  BY DEF ExportOk, ExportDies, CancelParent, vars, procVars
<1>3. parentDone' = parentDone \/ parentDone' = TRUE
  BY DEF ExportOk, ExportDies, CancelParent, vars
<1>4. TypeOK'
  <2>1. parentDone' \in BOOLEAN /\ cfg' \in BOOLEAN /\ closed' \in BOOLEAN
    BY <1>1, <1>3, Zenon DEF IInv, TypeOK
  <2>2. exporter' \in {"none", "running", "ok", "failed"}
    BY <1>2 DEF IInv, TypeOK
  <2> QED
    BY <1>1, <2>1, <2>2 DEF IInv, TypeOK, taskVars, bufVars
<1>5. Over' => \A t \in Tasks : ~Running(t)
  BY <1>1, QuietFacts DEF Over
<1>6. AllRead => AllRead'
  BY <1>1, <1>2, QuietFacts DEF AllRead
<1>7. EndInv'
  BY <1>1, <1>2, <1>3, <1>6 DEF IInv, EndInv, egDone
<1>8. ErrInv'
  BY <1>1, <1>3 DEF IInv, ErrInv, CanceledOnlyByCaller, egDone
<1> QED
  BY <1>1, <1>4, <1>5, <1>7, <1>8, QuietStep DEF QuietPc

-----------------------------------------------------------------------------
(* The reader.                                                             *)

\* What the reader's place says about the file it is in.
LEMMA ReaderFacts ==
    ASSUME IInv, Chunking \/ Spooling
    PROVE  /\ pos \in DOMAIN export /\ pos \in 1..Len(export) /\ pos \in 1..MaxEntries
           /\ IsFileAt(pos) /\ (Chunked(pos) <=> Chunking)
           /\ ~Over /\ pc \notin {"export", "params", "next", "wait"}
           /\ Chunking => count(pos) \in 1..MaxChunks /\ chunk \in 1..(count(pos) + 1)
<1>1. pos \in DOMAIN export /\ IsFileAt(pos) /\ (Chunked(pos) <=> Chunking)
  BY DEF IInv, ReadInv, IsFileAt
<1>2. pos \in 1..Len(export) /\ pos \in 1..MaxEntries
  BY <1>1, ExportFacts DEF IInv
<1>3. Chunking => count(pos) \in 1..MaxChunks
  BY <1>1, CountFacts DEF IInv
<1>4. Chunking => chunk \in 1..(count(pos) + 1)
  BY DEF IInv, ReadInv
<1> QED
  BY <1>1, <1>2, <1>3, <1>4 DEF Chunking, Spooling, Over

\* The reader gets the header of the next entry.
LEMMA NextEntryStep == IInv /\ NextEntry => IInv'
<1> SUFFICES ASSUME IInv, NextEntry PROVE IInv'
  OBVIOUS
<1>1. /\ UNCHANGED <<export, opts, regVars, blobs, manifest, groups, result, taskVars, tpc, descs,
                     digest, egErr, bufVars, rheld, rawData, procVars, exporter, closed, parentDone>>
      /\ pc = "next" /\ pos < Len(export)
  BY DEF NextEntry, StopReading, regVars, taskVars, bufVars, procVars
<1> PICK p : p = pos + 1
  OBVIOUS
<1>2. /\ p \in DOMAIN export /\ pos' = p /\ pos \in Nat /\ p \in 1..MaxEntries
      /\ p \in 0..Len(export)
  BY <1>1, ExportFacts DEF NextEntry, IInv, TypeOK
<1>3. \/ /\ ~IsFileAt(p) /\ pc' = "next" /\ UNCHANGED <<chunk, readErr>>
      \/ /\ pc' = "wait" /\ readErr' = "tar" /\ UNCHANGED chunk
      \/ /\ IsFileAt(p) /\ Chunked(p) /\ pc' = "chunk" /\ chunk' = 1 /\ UNCHANGED readErr
      \/ /\ IsFileAt(p) /\ ~Chunked(p) /\ pc' = "spool" /\ UNCHANGED <<chunk, readErr>>
  BY <1>2 DEF NextEntry, StopReading, IsFileAt
<1>4. TypeOK'
  <2>1. cfg' = cfg \/ cfg' = TRUE
    BY DEF NextEntry, StopReading
  <2>2. cfg' \in BOOLEAN /\ closed' \in BOOLEAN /\ parentDone' \in BOOLEAN
    BY <1>1, <2>1, Zenon DEF IInv, TypeOK
  <2>3. chunk' \in 0..(MaxChunks + 1) /\ pos' \in 0..Len(export)
    BY <1>2, <1>3, ParamsAssumption DEF IInv, TypeOK
  <2>4. pc' \in {"next", "wait", "chunk", "spool"} /\ readErr' \in Errs
    BY <1>3 DEF IInv, TypeOK, Errs
  <2> QED
    BY <1>1, <2>2, <2>3, <2>4 DEF IInv, TypeOK, taskVars, bufVars
<1>5. BlobsIntact'
  BY <1>1 DEF IInv, DataInv, BlobsIntact
<1>6. SlotInv' /\ BufInv' /\ DataInv'
  BY <1>1, <1>5, TaskFrame
<1>7. Chunked(p) => count(p) \in 1..MaxChunks
  BY <1>2, CountFacts DEF IInv
<1>8. ReadInv'
  <2>1. rheld = NoBuf
    BY <1>1 DEF IInv, ReadInv
  <2> QED
    BY <1>1, <1>2, <1>3, <1>7, <2>1, Frozen DEF ReadInv, Chunking, Spooling, IsFileAt
<1>9. TaskInv'
  <2>1. \A t \in Tasks : tpc[t] # "none" => t[1] \in 1..pos /\ t[1] # p /\ t[1] \in 1..p
    BY <1>2 DEF IInv, TaskInv
  <2> QED
    BY <1>1, <1>2, <1>3, <2>1, Frozen DEF IInv, TaskInv, Chunking, Over, Running
<1>10. GroupInv'
  <2>1. Covered(pos)
    BY <1>1 DEF IInv, GroupInv
  <2>2. ~IsFileAt(p) => Covered(p)
    BY <1>2, <2>1 DEF Covered
  <2>3. p - 1 = pos
    BY <1>2
  <2>4. \A n : Covered(n)' = Covered(n)
    BY <1>1, Frozen DEF Covered
  <2>5. (pc' = "next" => Covered(p)') /\ (pc' \in {"chunk", "spool"} => Covered(p - 1)')
    BY <1>3, <2>1, <2>2, <2>3, <2>4
  <2>6. (pc' = "next" => Covered(pos)') /\ (pc' \in {"chunk", "spool"} => Covered(pos - 1)')
    BY <1>2, <2>5 DEF Covered
  <2>7. \A g \in DOMAIN groups : groups[g] \in Nat /\ groups[g] <= pos
    BY GroupFacts DEF IInv, GroupInv
  <2>8. \A g \in DOMAIN groups : groups[g] <= p /\ groups[g] # p
    BY <1>2, <2>7
  <2>9. pc' \notin {"fill", "go", "spoolPut"}
    BY <1>3
  <2>10. \A g \in DOMAIN groups : ~Chunked(groups[g]) =>
           /\ descs[<<groups[g], 1>>] = Blob(Encoding(groups[g]), export[groups[g]].data)
           /\ HasBlob(descs[<<groups[g], 1>>])'
    BY <1>1, BlobsStay DEF IInv, GroupInv
  <2> QED
    BY <1>1, <1>2, <2>6, <2>8, <2>9, <2>10, Frozen
       DEF IInv, GroupInv, Chunking, Spooling, Blob
<1>11. EndInv'
  BY <1>1, <1>2, <1>3 DEF IInv, EndInv
<1>12. ErrInv'
  BY <1>1, <1>3 DEF IInv, ErrInv, CanceledOnlyByCaller
<1>13. ManifestInv'
  BY <1>1, <1>3, PublishedStable DEF IInv, ManifestInv
<1> QED
  BY <1>4, <1>6, <1>8, <1>9, <1>10, <1>11, <1>12, <1>13 DEF IInv

\* A file is complete: it becomes a group.
LEMMA GroupAppended ==
    ASSUME IInv, Chunking \/ Spooling, Chunking => chunk > count(pos),
           groups' = Append(groups, pos), pc' = "next",
           UNCHANGED <<export, opts, pos, tpc>>, blobs \subseteq blobs',
           \A t \in Tasks : t # <<pos, 1>> => descs'[t] = descs[t],
           Chunked(pos) => descs' = descs,
           ~Chunked(pos) => /\ descs'[<<pos, 1>>] = Blob(Encoding(pos), export[pos].data)
                            /\ \E b \in blobs' : b.digest = descs'[<<pos, 1>>]
    PROVE  groups' \in Seq(1..MaxEntries) /\ TaskInv' /\ GroupInv'
<1>1. /\ pos \in DOMAIN export /\ pos \in 1..Len(export) /\ pos \in 1..MaxEntries /\ pos \in Nat
      /\ IsFileAt(pos) /\ (Chunked(pos) <=> Chunking)
      /\ Chunking => count(pos) \in 1..MaxChunks /\ chunk \in 1..(count(pos) + 1)
  BY ReaderFacts, ParamsAssumption
<1> DEFINE n == Len(groups) + 1
<1>2. groups \in Seq(1..MaxEntries)
  BY DEF IInv, TypeOK
<1>3. groups' \in Seq(1..MaxEntries)
  <2> DEFINE S == 1..MaxEntries
  <2>1. groups \in Seq(S) /\ pos \in S
    BY <1>1, <1>2
  <2> HIDE DEF S
  <2>2. Append(groups, pos) \in Seq(S)
    BY <2>1
  <2> QED
    BY <2>2 DEF S
<1>4. /\ DOMAIN groups' = 1..n /\ DOMAIN groups = 1..(n - 1) /\ n \in Nat /\ n > 0
      /\ groups'[n] = pos /\ \A g \in DOMAIN groups : groups'[g] = groups[g]
  BY <1>2, GroupFacts DEF IInv
<1>5. \A g \in DOMAIN groups : /\ groups[g] \in 1..MaxEntries /\ groups[g] \in Nat
                               /\ groups[g] <= pos /\ groups[g] # pos
  BY GroupFacts DEF IInv, GroupInv
<1> HIDE DEF n
<1>6. \A g \in DOMAIN groups' : g = n \/ (g # n /\ g \in DOMAIN groups)
  BY <1>4
<1>7. TaskInv'
  <2>1. \A t \in Tasks : tpc[t] # "none" =>
           t[1] \in 1..pos /\ Chunked(t[1]) /\ t[2] <= count(t[1])
    BY DEF IInv, TaskInv
  <2>2. \A g \in DOMAIN groups : Chunked(groups[g]) =>
           \A i \in 1..count(groups[g]) : tpc[<<groups[g], i>>] # "none"
    BY DEF IInv, TaskInv
  <2>3. Chunked(pos) => \A i \in 1..count(pos) : tpc[<<pos, i>>] # "none"
    BY <1>1 DEF IInv, TaskInv
  <2>4. \A g \in DOMAIN groups' : Chunked(groups'[g]) =>
           \A i \in 1..count(groups'[g]) : tpc[<<groups'[g], i>>] # "none"
    BY <1>4, <1>6, <2>2, <2>3
  <2> QED
    BY <2>1, <2>4, Frozen DEF TaskInv, Chunking, Over
<1>8. GroupInv'
  <2>1. \A g \in DOMAIN groups' : IsFileAt(groups'[g]) /\ groups'[g] <= pos
    <3>1. \A g \in DOMAIN groups : IsFileAt(groups[g])
      BY DEF IInv, GroupInv
    <3> QED
      BY <1>1, <1>4, <1>5, <1>6, <3>1
  <2>2. \A g \in DOMAIN groups : ~Chunked(groups[g]) =>
          /\ descs'[<<groups[g], 1>>] = Blob(Encoding(groups[g]), export[groups[g]].data)
          /\ \E b \in blobs' : b.digest = descs'[<<groups[g], 1>>]
    <3> SUFFICES ASSUME NEW g \in DOMAIN groups, ~Chunked(groups[g])
                 PROVE  /\ descs'[<<groups[g], 1>>] = Blob(Encoding(groups[g]), export[groups[g]].data)
                        /\ \E b \in blobs' : b.digest = descs'[<<groups[g], 1>>]
      OBVIOUS
    <3>1. <<groups[g], 1>> \in Tasks /\ <<groups[g], 1>> # <<pos, 1>>
      BY <1>5, ParamsAssumption DEF Tasks
    <3>2. descs'[<<groups[g], 1>>] = descs[<<groups[g], 1>>]
      BY <3>1
    <3>3. /\ descs[<<groups[g], 1>>] = Blob(Encoding(groups[g]), export[groups[g]].data)
          /\ HasBlob(descs[<<groups[g], 1>>])
      BY DEF IInv, GroupInv
    <3> QED
      BY <3>2, <3>3 DEF HasBlob
  <2>3. \A g \in DOMAIN groups' : ~Chunked(groups'[g]) =>
          /\ descs'[<<groups'[g], 1>>] = Blob(Encoding(groups'[g]), export[groups'[g]].data)
          /\ \E b \in blobs' : b.digest = descs'[<<groups'[g], 1>>]
    BY <1>4, <1>6, <2>2
  <2>4. \A g, h \in DOMAIN groups' : g < h => groups'[g] < groups'[h]
    <3> SUFFICES ASSUME NEW g \in DOMAIN groups', NEW h \in DOMAIN groups', g < h
                 PROVE  groups'[g] < groups'[h]
      OBVIOUS
    <3>1. g \in DOMAIN groups
      BY <1>4
    <3>2. CASE h = n
      BY <1>1, <1>4, <1>5, <3>1, <3>2
    <3>3. CASE h \in DOMAIN groups
      BY <1>4, <3>1, <3>3 DEF IInv, GroupInv
    <3> QED
      BY <1>6, <3>2, <3>3
  <2>5. Covered(pos)'
    <3>1. Covered(pos - 1)
      BY DEF IInv, GroupInv
    <3> SUFFICES ASSUME NEW e \in 1..pos, IsFileAt(e) PROVE \E g \in DOMAIN groups' : groups'[g] = e
      BY Frozen DEF Covered
    <3>2. CASE e = pos
      BY <1>4, <3>2
    <3>3. CASE e # pos
      <4>1. e \in 1..(pos - 1)
        BY <1>1, <3>3
      <4>2. PICK g \in DOMAIN groups : groups[g] = e
        BY <3>1, <4>1 DEF Covered
      <4> QED
        BY <1>4, <4>2
    <3> QED
      BY <3>2, <3>3
  <2> QED
    BY <2>1, <2>3, <2>4, <2>5, Frozen, SMTT(30) DEF GroupInv, Chunking, Spooling, Blob, HasBlob, IsFileAt
<1> QED
  BY <1>3, <1>7, <1>8

\* The end of a file in all three ways: the last chunk handed over, a blob that
\* was there already, a blob uploaded.
LEMMA CompleteStep == IInv /\ (ChunksEnqueued \/ SpoolHas \/ SpoolPut) => IInv'
<1> SUFFICES ASSUME IInv, ChunksEnqueued \/ SpoolHas \/ SpoolPut PROVE IInv'
  OBVIOUS
<1>1. /\ (Chunking \/ Spooling) /\ pc' = "next" /\ groups' = Append(groups, pos)
      /\ Chunking => chunk > count(pos)
  BY DEF ChunksEnqueued, SpoolHas, SpoolPut, SpoolDone, Chunking, Spooling
<1>2. /\ UNCHANGED <<export, opts, manifest, result, pos, chunk, cfg, readErr, tpc, digest, egErr,
                     bufVars, procVars, exporter, closed, parentDone, rheld, rawData>>
  BY DEF ChunksEnqueued, SpoolHas, SpoolPut, SpoolDone, regVars, taskVars, bufVars, procVars
<1>3. /\ pos \in DOMAIN export /\ pos \in 1..MaxEntries /\ (Chunked(pos) <=> Chunking)
      /\ ~Over /\ pc \in {"chunk", "spool", "spoolPut"}
  BY <1>1, ReaderFacts DEF ChunksEnqueued, SpoolHas, SpoolPut
<1>4. <<pos, 1>> \in Tasks
  BY <1>3, ParamsAssumption DEF Tasks
<1> DEFINE d == Blob(Encoding(pos), export[pos].data)
<1>5. d \in Bytes
  BY <1>3, ExportFacts DEF IInv, Bytes, Blob, Encoding
<1>6. blobs' = blobs \/ blobs' = blobs \cup {[digest |-> d, bytes |-> d]}
  BY DEF ChunksEnqueued, SpoolHas, SpoolPut, Store, SpoolDigest, regVars
<1>7. blobs \subseteq blobs' /\ BlobsIntact'
  BY <1>6 DEF IInv, DataInv, BlobsIntact
<1>8. /\ descs' \in [Tasks -> Bytes]
      /\ \A t \in Tasks : t # <<pos, 1>> => descs'[t] = descs[t]
      /\ Chunked(pos) => descs' = descs
      /\ ~Chunked(pos) => descs'[<<pos, 1>>] = d /\ \E b \in blobs' : b.digest = d
  <2>1. CASE ChunksEnqueued
    BY <1>3, <2>1 DEF ChunksEnqueued, taskVars, Chunking, IInv, TypeOK
  <2>2. CASE SpoolHas \/ SpoolPut
    <3>1. descs' = [descs EXCEPT ![<<pos, 1>>] = d]
      BY <2>2 DEF SpoolHas, SpoolPut, SpoolDone, SpoolTask, SpoolDigest
    <3>2. descs \in [Tasks -> Bytes] /\ ~Chunked(pos)
      BY <1>3, <2>2 DEF IInv, TypeOK, SpoolHas, SpoolPut, Chunking
    <3>3. \E b \in blobs' : b.digest = d
      <4>1. CASE SpoolHas
        BY <4>1 DEF SpoolHas, HasBlob, SpoolDigest, regVars
      <4>2. CASE SpoolPut
        <5>1. [digest |-> d, bytes |-> d] \in blobs'
          BY <4>2 DEF SpoolPut, Store, SpoolDigest
        <5> QED
          BY <5>1
      <4> QED
        BY <2>2, <4>1, <4>2
    <3> HIDE DEF d
    <3> QED
      BY <1>4, <1>5, <3>1, <3>2, <3>3
  <2> QED
    BY <2>1, <2>2
<1>9. groups' \in Seq(1..MaxEntries) /\ TaskInv' /\ GroupInv'
  BY <1>1, <1>2, <1>7, <1>8, GroupAppended
<1>10. \A t \in Tasks : tpc[t] # "none" => descs'[t] = descs[t]
  <2> SUFFICES ASSUME NEW t \in Tasks, tpc[t] # "none" PROVE descs'[t] = descs[t]
    OBVIOUS
  <2>1. Chunked(t[1])
    BY DEF IInv, TaskInv
  <2>2. t = <<pos, 1>> => Chunked(pos)
    BY <2>1
  <2> QED
    BY <1>8, <2>2
<1>11. SlotInv' /\ BufInv' /\ DataInv'
  BY <1>2, <1>7, <1>10, TaskFrame
<1>12. TypeOK'
  <2>1. cfg' \in BOOLEAN /\ closed' \in BOOLEAN /\ parentDone' \in BOOLEAN
    BY <1>2, Zenon DEF IInv, TypeOK
  <2> QED
    BY <1>1, <1>2, <1>8, <1>9, <2>1 DEF IInv, TypeOK, bufVars
<1>13. ReadInv'
  BY <1>1, <1>2, <1>3 DEF IInv, ReadInv, Chunking, Spooling
<1>14. EndInv'
  BY <1>1, <1>2 DEF IInv, EndInv
<1>15. ErrInv'
  BY <1>1, <1>2, <1>3 DEF IInv, ErrInv, CanceledOnlyByCaller
<1>16. ManifestInv'
  BY <1>1, <1>2, <1>3, <1>7, PublishedStable DEF IInv, ManifestInv
<1> QED
  BY <1>9, <1>11, <1>12, <1>13, <1>14, <1>15, <1>16 DEF IInv

\* The upload of a spooled file fails; its blob may be there all the same.
LEMMA SpoolErrStep == IInv /\ SpoolErr => IInv'
<1> SUFFICES ASSUME IInv, SpoolErr PROVE IInv'
  OBVIOUS
<1>1. /\ UNCHANGED <<export, opts, manifest, result, pos, chunk, cfg, groups, taskVars, tpc, descs,
                     digest, egErr, bufVars, procVars, exporter, closed, parentDone, rheld,
                     rawData>>
      /\ pc \in {"spool", "spoolPut"} /\ pc' = "wait"
      /\ readErr' \in {"registry", "canceled", "tar"}
      /\ readErr' = "canceled" => egDone
  BY DEF SpoolErr, StopReading, taskVars, bufVars, procVars, CallErrs
<1> DEFINE d == SpoolDigest
<1>2. blobs' = blobs \/ blobs' = blobs \cup {[digest |-> d, bytes |-> d]}
  BY DEF SpoolErr, Store
<1>3. blobs \subseteq blobs' /\ BlobsIntact'
  BY <1>2 DEF IInv, DataInv, BlobsIntact
<1>4. SlotInv' /\ BufInv' /\ DataInv'
  BY <1>1, <1>3, TaskFrame
<1>5. TypeOK'
  <2>1. cfg' \in BOOLEAN /\ closed' \in BOOLEAN /\ parentDone' \in BOOLEAN
    BY <1>1, Zenon DEF IInv, TypeOK
  <2> QED
    BY <1>1, <2>1 DEF IInv, TypeOK, bufVars, Errs
<1>6. ReadInv'
  BY <1>1 DEF IInv, ReadInv, Chunking, Spooling
<1>7. TaskInv'
  BY <1>1, Frozen DEF IInv, TaskInv, Chunking, Over, Running
<1>8. GroupInv'
  <2>1. \A g \in DOMAIN groups : ~Chunked(groups[g]) =>
          /\ descs[<<groups[g], 1>>] = Blob(Encoding(groups[g]), export[groups[g]].data)
          /\ HasBlob(descs[<<groups[g], 1>>])'
    BY <1>1, <1>3 DEF IInv, GroupInv, HasBlob
  <2> QED
    BY <1>1, <2>1, Frozen DEF IInv, GroupInv, Chunking, Spooling, Blob
<1>9. EndInv'
  BY <1>1 DEF IInv, EndInv
<1>10. ErrInv'
  BY <1>1 DEF IInv, ErrInv, CanceledOnlyByCaller, egDone
<1>11. ManifestInv'
  BY <1>1, <1>3, PublishedStable DEF IInv, ManifestInv
<1> QED
  BY <1>4, <1>5, <1>6, <1>7, <1>8, <1>9, <1>10, <1>11 DEF IInv

\* A step that only moves the reader's own buffer.
LEMMA BufferStep ==
    ASSUME IInv, Chunking, pc' \in {"chunk", "fill", "go"} \/ (pc' = "wait" /\ readErr' = "tar"),
           readErr' = readErr \/ pc' = "wait",
           UNCHANGED <<export, opts, regVars, result, pos, chunk, cfg, groups, taskVars, rbuf, obuf,
                       freeOut, outData, procVars, parentDone>>,
           rheld' \in RawBufs \cup {NoBuf}, freeRaw' \in SUBSET RawBufs,
           rawData' \in [RawBufs -> Seq(Units)],
           ReadInv', BufInv', DataInv'
    PROVE  IInv'
<1>1. UNCHANGED <<blobs, manifest, tpc, descs, digest, egErr, exporter, closed>>
  BY DEF regVars, taskVars, procVars
<1>2. TypeOK'
  <2>1. cfg' \in BOOLEAN /\ closed' \in BOOLEAN /\ parentDone' \in BOOLEAN
    BY <1>1, Zenon DEF IInv, TypeOK
  <2> QED
    BY <1>1, <2>1 DEF IInv, TypeOK, Errs
<1>3. SlotInv'
  BY <1>1 DEF IInv, SlotInv, Occupied, Running
<1>4. TaskInv'
  BY <1>1, Frozen DEF IInv, TaskInv, Chunking, Over, Running
<1>5. GroupInv'
  <2>1. Covered(pos - 1)' = Covered(pos - 1)
    BY Frozen DEF Covered
  <2> QED
    BY <1>1, <2>1, Frozen, BlobsStay DEF IInv, GroupInv, Chunking, Spooling, Blob
<1>6. EndInv'
  BY <1>1 DEF IInv, EndInv, Chunking
<1>7. ErrInv'
  BY <1>1 DEF IInv, ErrInv, CanceledOnlyByCaller, Chunking
<1>8. ManifestInv'
  BY <1>1, PublishedStable DEF IInv, ManifestInv, Chunking
<1> QED
  BY <1>2, <1>3, <1>4, <1>5, <1>6, <1>7, <1>8 DEF IInv

\* The reader borrows a buffer.
LEMMA TakeRawStep == IInv /\ TakeRaw => IInv'
<1> SUFFICES ASSUME IInv, TakeRaw PROVE IInv'
  OBVIOUS
<1>1. /\ pc = "chunk" /\ chunk <= count(pos) /\ pc' = "fill"
      /\ UNCHANGED <<export, opts, regVars, result, pos, chunk, cfg, groups, readErr, taskVars, tpc,
                     descs, digest, egErr, blobs, rbuf, obuf, freeOut, rawData, outData, procVars,
                     parentDone>>
  BY DEF TakeRaw, readVars, taskVars, regVars
<1>2. PICK b \in freeRaw : rheld' = b /\ freeRaw' = freeRaw \ {b}
  BY DEF TakeRaw
<1>3. b \in RawBufs /\ b # NoBuf /\ freeRaw \subseteq RawBufs /\ rheld = NoBuf
  BY <1>1, PoolAssumption DEF IInv, TypeOK, ReadInv
<1>4. ReadInv'
  BY <1>1, <1>2, <1>3, Frozen DEF IInv, ReadInv, Chunking, Spooling
<1>5. BufInv'
  <2>1. \A t \in Tasks : rbuf[t] # b
    BY DEF IInv, BufInv, ExclusiveBuffers
  <2>2. ExclusiveBuffers'
    BY <1>1, <1>2, <1>3, <2>1 DEF IInv, BufInv, ExclusiveBuffers
  <2>3. \A c \in RawBufs : c \in freeRaw' \/ c = rheld' \/ \E t \in Tasks : rbuf[t] = c
    BY <1>2, <1>3, PoolAssumption DEF IInv, BufInv
  <2> QED
    BY <1>1, <2>2, <2>3, Frozen DEF IInv, BufInv, OwnsRaw, OwnsOut
<1>6. DataInv'
  <2>1. BlobsIntact'
    BY <1>1 DEF IInv, DataInv, BlobsIntact
  <2> QED
    BY <1>1, <2>1, DataFrame
<1>7. rawData' \in [RawBufs -> Seq(Units)]
  BY <1>1 DEF IInv, TypeOK
<1> QED
  BY <1>1, <1>2, <1>3, <1>4, <1>5, <1>6, <1>7, BufferStep DEF Chunking

\* The reader fills its buffer, which no task holds.
LEMMA FillStep == IInv /\ Fill => IInv'
<1> SUFFICES ASSUME IInv, Fill PROVE IInv'
  OBVIOUS
<1>1. /\ pc = "fill" /\ pc' = "go" /\ Chunking
      /\ rawData' = [rawData EXCEPT ![rheld] = ChunkData(pos, chunk)]
      /\ UNCHANGED <<export, opts, regVars, result, pos, chunk, cfg, groups, readErr, taskVars, tpc,
                     descs, digest, egErr, blobs, rbuf, obuf, rheld, freeRaw, freeOut, outData,
                     procVars, parentDone>>
  BY DEF Fill, readVars, taskVars, regVars, Chunking
<1>2. rheld \in RawBufs /\ rheld # NoBuf /\ chunk \in 1..count(pos)
  BY <1>1, ReaderFacts DEF IInv, TypeOK, ReadInv
<1>3. ChunkData(pos, chunk) \in Seq(Units)
  BY <1>1, <1>2, ReaderFacts, ChunkType DEF IInv
<1>4. /\ rawData' \in [RawBufs -> Seq(Units)] /\ rawData'[rheld] = ChunkData(pos, chunk)
      /\ \A b \in RawBufs : b # rheld => rawData'[b] = rawData[b]
  BY <1>1, <1>2, <1>3 DEF IInv, TypeOK
<1>5. ReadInv'
  BY <1>1, <1>2, <1>4, Frozen DEF IInv, ReadInv, Chunking, Spooling
<1>6. BufInv'
  BY <1>1, Frozen DEF IInv, BufInv, ExclusiveBuffers, OwnsRaw, OwnsOut
<1>7. \A t \in Tasks : OwnsRaw(t) => rbuf[t] \in RawBufs /\ rawData'[rbuf[t]] = rawData[rbuf[t]]
  BY <1>2, <1>4 DEF IInv, BufInv, ExclusiveBuffers, TypeOK
<1>8. DataInv'
  <2>1. \A t \in Tasks : tpc[t] \in {"start", "encode"} =>
          rawData'[rbuf[t]] = ChunkData(t[1], t[2])
    BY <1>7 DEF IInv, DataInv, OwnsRaw
  <2>2. \A t \in Tasks : tpc[t] \in {"check", "put"} => Stored(t)' = Stored(t)
    BY <1>1, <1>7, Frozen DEF Stored, OwnsRaw, Blob
  <2>3. \A t \in Tasks : HasBlob(descs[t])' = HasBlob(descs[t])
    BY <1>1 DEF HasBlob
  <2> QED
    BY <1>1, <2>1, <2>2, <2>3, Frozen DEF IInv, DataInv, BlobsIntact
<1> QED
  BY <1>1, <1>2, <1>4, <1>5, <1>6, <1>8, BufferStep DEF IInv, TypeOK

\* A short read gives the buffer back.
LEMMA FillErrStep == IInv /\ FillErr => IInv'
<1> SUFFICES ASSUME IInv, FillErr PROVE IInv'
  OBVIOUS
<1>1. /\ pc = "fill" /\ pc' = "wait" /\ readErr' = "tar" /\ Chunking
      /\ freeRaw' = freeRaw \cup {rheld} /\ rheld' = NoBuf
      /\ UNCHANGED <<export, opts, regVars, result, pos, chunk, cfg, groups, taskVars, tpc,
                     descs, digest, egErr, blobs, rbuf, obuf, freeOut, rawData, outData,
                     procVars, parentDone>>
  BY DEF FillErr, StopReading, taskVars, regVars, Chunking
<1>2. rheld \in RawBufs /\ rheld # NoBuf /\ freeRaw \subseteq RawBufs
  BY <1>1 DEF IInv, TypeOK, ReadInv
<1>3. ReadInv'
  BY <1>1 DEF ReadInv, Chunking, Spooling
<1>4. BufInv'
  <2>1. ExclusiveBuffers'
    BY <1>1, <1>2, PoolAssumption DEF IInv, BufInv, ExclusiveBuffers, TypeOK
  <2> QED
    BY <1>1, <2>1, Frozen DEF IInv, BufInv, OwnsRaw, OwnsOut
<1>5. DataInv'
  <2>1. BlobsIntact'
    BY <1>1 DEF IInv, DataInv, BlobsIntact
  <2> QED
    BY <1>1, <2>1, DataFrame
<1>6. rawData' \in [RawBufs -> Seq(Units)]
  BY <1>1 DEF IInv, TypeOK
<1> QED
  BY <1>1, <1>2, <1>3, <1>4, <1>5, <1>6, BufferStep

\* The errgroup has finitely many tasks.
LEMMA TasksFinite == IsFiniteSet(Tasks) /\ \A S \in SUBSET Tasks : IsFiniteSet(S)
<1>1. IsFiniteSet(1..MaxEntries) /\ IsFiniteSet(1..MaxChunks)
  BY ParamsAssumption, FS_Interval
<1>2. IsFiniteSet(Tasks)
  BY <1>1, FS_Product DEF Tasks
<1> QED
  BY <1>2, FS_Subset

\* The reader hands a chunk and its buffer over to a new task.
LEMMA GoStep == IInv /\ Go => IInv'
<1> SUFFICES ASSUME IInv, Go PROVE IInv'
  OBVIOUS
<1> DEFINE t0 == <<pos, chunk>>
<1>1. /\ pc = "go" /\ HasSlot /\ pc' = "chunk" /\ chunk' = chunk + 1 /\ rheld' = NoBuf /\ Chunking
      /\ tpc' = [tpc EXCEPT ![t0] = "start"] /\ rbuf' = [rbuf EXCEPT ![t0] = rheld]
      /\ UNCHANGED <<export, opts, regVars, blobs, manifest, result, pos, cfg, groups, readErr,
                     descs, digest, egErr, obuf, freeRaw, freeOut, rawData, outData,
                     exporter, closed, parentDone>>
  BY DEF Go, regVars, procVars, Chunking
<1>2. /\ pos \in 1..MaxEntries /\ pos \in DOMAIN export /\ pos \in Nat /\ Chunked(pos)
      /\ count(pos) \in 1..MaxChunks /\ chunk \in 1..count(pos) /\ count(pos) \in Nat /\ chunk \in Nat
      /\ rheld \in RawBufs /\ rheld # NoBuf /\ ~Over
      /\ rawData[rheld] = ChunkData(pos, chunk)
  BY <1>1, ReaderFacts, ParamsAssumption DEF IInv, TypeOK, ReadInv
<1>3. t0 \in Tasks /\ t0[1] = pos /\ t0[2] = chunk
  BY <1>2, ParamsAssumption DEF Tasks
<1>4. tpc[t0] = "none"
  BY <1>1, <1>2, <1>3 DEF IInv, TaskInv
<1>5. /\ tpc' \in [Tasks -> {"none", "start", "encode", "check", "put", "done"}]
      /\ tpc'[t0] = "start" /\ \A t \in Tasks : t # t0 => tpc'[t] = tpc[t]
      /\ rbuf' \in [Tasks -> RawBufs \cup {NoBuf}]
      /\ rbuf'[t0] = rheld /\ \A t \in Tasks : t # t0 => rbuf'[t] = rbuf[t]
  BY <1>1, <1>2, <1>3 DEF IInv, TypeOK
<1>6. rbuf[t0] = NoBuf /\ obuf[t0] = NoBuf
  BY <1>3, <1>4 DEF IInv, BufInv, OwnsRaw, OwnsOut
<1>7. TypeOK'
  <2>1. cfg' \in BOOLEAN /\ closed' \in BOOLEAN /\ parentDone' \in BOOLEAN
    BY <1>1, Zenon DEF IInv, TypeOK
  <2>2. chunk' \in 0..(MaxChunks + 1)
    BY <1>1, <1>2, ParamsAssumption
  <2> QED
    BY <1>1, <1>5, <2>1, <2>2 DEF IInv, TypeOK
<1>8. ReadInv'
  BY <1>1, <1>2, Frozen DEF IInv, ReadInv, Chunking, Spooling
<1>9. TaskInv'
  <2>1. \A t \in Tasks : tpc'[t] # "none" =>
           /\ t[1] \in 1..pos /\ Chunked(t[1]) /\ t[2] <= count(t[1])
           /\ t[1] = pos => t[2] < chunk + 1
    <3> SUFFICES ASSUME NEW t \in Tasks, tpc'[t] # "none"
                 PROVE  /\ t[1] \in 1..pos /\ Chunked(t[1]) /\ t[2] <= count(t[1])
                        /\ t[1] = pos => t[2] < chunk + 1
      OBVIOUS
    <3>1. CASE t = t0
      BY <1>2, <1>3, <3>1
    <3>2. CASE t # t0
      <4>1. t[2] \in Nat
        BY ParamsAssumption DEF Tasks
      <4> QED
        BY <1>1, <1>2, <1>5, <3>2, <4>1 DEF IInv, TaskInv
    <3> QED
      BY <3>1, <3>2
  <2>2. \A i \in 1..chunk : tpc'[<<pos, i>>] # "none"
    <3> SUFFICES ASSUME NEW i \in 1..chunk PROVE tpc'[<<pos, i>>] # "none"
      OBVIOUS
    <3>1. CASE i = chunk
      BY <1>5, <3>1
    <3>2. CASE i # chunk
      <4>1. i \in 1..(chunk - 1) /\ i \in 1..MaxChunks
        BY <1>2, <3>2, ParamsAssumption
      <4>2. <<pos, i>> \in Tasks /\ <<pos, i>> # t0
        BY <1>2, <3>2, <4>1 DEF Tasks
      <4> QED
        BY <1>1, <1>5, <4>1, <4>2 DEF IInv, TaskInv
    <3> QED
      BY <3>1, <3>2
  <2>3. \A g \in DOMAIN groups : Chunked(groups[g]) =>
          \A i \in 1..count(groups[g]) : tpc'[<<groups[g], i>>] # "none"
    <3> SUFFICES ASSUME NEW g \in DOMAIN groups, Chunked(groups[g]), NEW i \in 1..count(groups[g])
                 PROVE  tpc'[<<groups[g], i>>] # "none"
      OBVIOUS
    <3>1. tpc[<<groups[g], i>>] # "none"
      BY DEF IInv, TaskInv
    <3> QED
      BY <1>1, <1>3, <3>1 DEF IInv, TypeOK
  <2>4. (chunk' - 1) = chunk
    BY <1>1, <1>2
  <2> QED
    BY <1>1, <2>1, <2>2, <2>3, <2>4, Frozen DEF TaskInv, Chunking, Over
<1>10. SlotInv'
  <2> DEFINE R == Occupied
  <2>1. Occupied' = R \cup {t0}
    BY <1>3, <1>5 DEF Running, Occupied
  <2>2. IsFiniteSet(R) /\ Cardinality(R) \in Nat /\ Cardinality(R) < Workers
    BY <1>1, TasksFinite, FS_CardinalityType DEF HasSlot, Occupied
  <2>3. t0 \notin R
    BY <1>4 DEF Running, Occupied
  <2> HIDE DEF R
  <2>4. Cardinality(R \cup {t0}) = Cardinality(R) + 1
    BY <2>2, <2>3, FS_AddElement
  <2> QED
    BY <2>1, <2>2, <2>4, ParamsAssumption DEF SlotInv
<1>11. BufInv'
  <2>1. \A t \in Tasks : /\ (rbuf[t] # NoBuf <=> OwnsRaw(t))'
                         /\ (obuf[t] # NoBuf <=> OwnsOut(t))'
                         /\ (tpc[t] = "encode" => compress(t[1]))'
    BY <1>1, <1>2, <1>5, <1>6, Frozen DEF IInv, BufInv, OwnsRaw, OwnsOut
  <2>2. ExclusiveBuffers'
    <3>1. /\ \A t \in Tasks : rbuf[t] # rheld /\ rbuf[t] \notin freeRaw /\ obuf[t] \notin freeOut
          /\ rheld \notin freeRaw
          /\ \A t, u \in Tasks : t # u => /\ rbuf[t] = rbuf[u] => rbuf[t] = NoBuf
                                          /\ obuf[t] = obuf[u] => obuf[t] = NoBuf
      BY <1>2 DEF IInv, BufInv, ExclusiveBuffers
    <3>2. NoBuf \notin freeRaw
      BY PoolAssumption DEF IInv, TypeOK
    <3>3. \A t, u \in Tasks : t # u => (rbuf'[t] = rbuf'[u] => rbuf'[t] = NoBuf)
      BY <1>5, <3>1
    <3>4. \A t \in Tasks : rbuf'[t] \notin freeRaw
      BY <1>5, <3>1
    <3> QED
      BY <1>1, <3>1, <3>2, <3>3, <3>4 DEF ExclusiveBuffers
  <2>3. \A b \in RawBufs : b \in freeRaw \/ b = rheld' \/ \E t \in Tasks : rbuf'[t] = b
    BY <1>1, <1>3, <1>5, <1>6, PoolAssumption DEF IInv, BufInv
  <2> QED
    BY <1>1, <2>1, <2>2, <2>3 DEF IInv, BufInv
<1>12. DataInv'
  <2>1. \A t \in Tasks : tpc'[t] \in {"start", "encode"} => rawData[rbuf'[t]] = ChunkData(t[1], t[2])
    BY <1>2, <1>3, <1>5 DEF IInv, DataInv
  <2>2. \A t \in Tasks : t # t0 => Stored(t)' = Stored(t)
    BY <1>1, <1>5, Frozen DEF Stored, Blob
  <2>3. \A t \in Tasks : HasBlob(descs[t])' = HasBlob(descs[t])
    BY <1>1 DEF HasBlob
  <2> QED
    <3>1. \A t \in Tasks : tpc'[t] \in {"check", "put"} =>
            (digest[t] = Wanted(t) /\ Stored(t) = digest[t])'
      BY <1>1, <1>5, <2>2, Frozen DEF IInv, DataInv
    <3>2. \A t \in Tasks : tpc'[t] = "done" /\ egErr = "none" =>
            (descs[t] = Wanted(t) /\ HasBlob(descs[t]))'
      BY <1>1, <1>5, <2>3, Frozen DEF IInv, DataInv
    <3>3. \A t \in Tasks : ChunkData(t[1], t[2])' = ChunkData(t[1], t[2])
      BY <1>1, Frozen
    <3> QED
      BY <1>1, <2>1, <3>1, <3>2, <3>3 DEF IInv, DataInv, BlobsIntact
<1>13. GroupInv'
  <2>1. Covered(pos - 1)' = Covered(pos - 1)
    BY <1>1, Frozen DEF Covered
  <2> QED
    BY <1>1, <2>1, Frozen, BlobsStay DEF IInv, GroupInv, Chunking, Spooling, Blob
<1>14. EndInv'
  BY <1>1 DEF IInv, EndInv
<1>15. ErrInv'
  BY <1>1 DEF IInv, ErrInv, CanceledOnlyByCaller
<1>16. ManifestInv'
  BY <1>1, PublishedStable DEF IInv, ManifestInv
<1> QED
  BY <1>7, <1>8, <1>9, <1>10, <1>11, <1>12, <1>13, <1>14, <1>15, <1>16 DEF IInv

-----------------------------------------------------------------------------
(* The tasks.                                                              *)

TaskStates == {"none", "start", "encode", "check", "put", "done"}

\* A step of a task leaves everything alone that is not its own.
LEMMA TaskControl ==
    ASSUME IInv, NEW t0 \in Tasks, Running(t0), NEW where \in TaskStates \ {"none"},
           Goto(t0, where), blobs \subseteq blobs',
           UNCHANGED <<export, opts, manifest, pc, result, readVars, rheld, rawData, procVars,
                       parentDone>>,
           \A t \in Tasks : t # t0 => descs'[t] = descs[t],
           \/ egErr' = egErr
           \/ egErr = "none" /\ egErr' \in {"registry", "canceled"} /\ (egErr' = "canceled" => egDone)
    PROVE  /\ tpc' \in [Tasks -> TaskStates] /\ tpc'[t0] = where
           /\ \A t \in Tasks : t # t0 => tpc'[t] = tpc[t]
           /\ Chunked(t0[1]) /\ t0[1] \in DOMAIN export /\ t0[2] \in 1..count(t0[1])
           /\ ReadInv' /\ TaskInv' /\ SlotInv' /\ GroupInv' /\ EndInv' /\ ErrInv' /\ ManifestInv'
<1>1. /\ tpc' \in [Tasks -> TaskStates] /\ tpc'[t0] = where
      /\ \A t \in Tasks : t # t0 => tpc'[t] = tpc[t]
  BY DEF Goto, IInv, TypeOK, TaskStates
<1>2. tpc[t0] # "none" /\ tpc'[t0] # "none"
  BY <1>1 DEF Running
<1>3. ~Over /\ Chunked(t0[1]) /\ t0[1] \in 1..pos /\ t0[2] <= count(t0[1])
  BY <1>2 DEF IInv, TaskInv
<1>4. t0[1] \in DOMAIN export /\ t0[2] \in 1..count(t0[1])
  <2>1. t0[1] \in DOMAIN export
    BY <1>3, ExportFacts DEF IInv, TypeOK
  <2>2. count(t0[1]) \in Nat /\ t0[2] \in Nat \ {0}
    BY <1>3, <2>1, CountFacts, ParamsAssumption DEF IInv, Tasks
  <2> QED
    BY <1>3, <2>1, <2>2
<1>5. UNCHANGED <<pos, chunk, cfg, groups, readErr, exporter, closed>>
  BY DEF readVars, procVars
<1>6. ReadInv'
  BY <1>5, Frozen DEF IInv, ReadInv, Chunking, Spooling
<1>7. \A t \in Tasks : tpc'[t] = "none" <=> tpc[t] = "none"
  BY <1>1, <1>2
<1>8. TaskInv'
  <2>1. \A g \in DOMAIN groups : Chunked(groups[g]) =>
          \A i \in 1..count(groups[g]) : tpc'[<<groups[g], i>>] # "none"
    <3> SUFFICES ASSUME NEW g \in DOMAIN groups, Chunked(groups[g]), NEW i \in 1..count(groups[g])
                 PROVE  tpc'[<<groups[g], i>>] # "none"
      OBVIOUS
    <3>1. tpc[<<groups[g], i>>] # "none"
      BY DEF IInv, TaskInv
    <3> QED
      BY <1>2, <3>1 DEF Goto, IInv, TypeOK
  <2>2. Chunking => \A i \in 1..(chunk - 1) : tpc'[<<pos, i>>] # "none"
    <3> SUFFICES ASSUME Chunking, NEW i \in 1..(chunk - 1)
                 PROVE  tpc'[<<pos, i>>] # "none"
      OBVIOUS
    <3>1. tpc[<<pos, i>>] # "none"
      BY DEF IInv, TaskInv
    <3> QED
      BY <1>2, <3>1 DEF Goto, IInv, TypeOK
  <2> QED
    BY <1>3, <1>5, <1>7, <2>1, <2>2, Frozen DEF IInv, TaskInv, Chunking, Over
<1>9. SlotInv'
  <2>1. Occupied' \subseteq Occupied
    BY <1>1 DEF Occupied, Running
  <2>2. IsFiniteSet(Occupied)
    BY TasksFinite DEF Occupied
  <2>3. Cardinality(Occupied') <= Cardinality(Occupied)
    BY <2>1, <2>2, FS_Subset
  <2>4. Cardinality(Occupied) \in Nat /\ Cardinality(Occupied') \in Nat
    BY <2>1, <2>2, FS_Subset, FS_CardinalityType
  <2> QED
    BY <2>3, <2>4, ParamsAssumption DEF IInv, SlotInv
<1>10. GroupInv'
  <2>1. \A g \in DOMAIN groups : ~Chunked(groups[g]) =>
          /\ descs'[<<groups[g], 1>>] = Blob(Encoding(groups[g]), export[groups[g]].data)
          /\ \E b \in blobs' : b.digest = descs'[<<groups[g], 1>>]
    <3> SUFFICES ASSUME NEW g \in DOMAIN groups, ~Chunked(groups[g])
                 PROVE  /\ descs'[<<groups[g], 1>>] = Blob(Encoding(groups[g]), export[groups[g]].data)
                        /\ \E b \in blobs' : b.digest = descs'[<<groups[g], 1>>]
      OBVIOUS
    <3>1. <<groups[g], 1>> \in Tasks /\ <<groups[g], 1>> # t0
      BY <1>3, GroupFacts, ParamsAssumption DEF IInv, Tasks
    <3>2. /\ descs[<<groups[g], 1>>] = Blob(Encoding(groups[g]), export[groups[g]].data)
          /\ HasBlob(descs[<<groups[g], 1>>])
      BY DEF IInv, GroupInv
    <3> QED
      BY <3>1, <3>2 DEF HasBlob
  <2>2. \A n : Covered(n)' = Covered(n)
    BY <1>5, Frozen DEF Covered
  <2> QED
    BY <1>5, <2>1, <2>2, Frozen DEF IInv, GroupInv, Chunking, Spooling, Blob, HasBlob
<1>11. EndInv'
  <2>1. AllRead' = AllRead
    BY <1>5, QuietFacts DEF AllRead
  <2>2. egDone => egDone'
    BY DEF egDone
  <2> QED
    BY <1>3, <1>5, <2>1, <2>2 DEF IInv, EndInv, Over
<1>12. ErrInv'
  BY <1>3, <1>5 DEF IInv, ErrInv, CanceledOnlyByCaller, egDone, Over
<1>13. ManifestInv'
  BY <1>3, PublishedStable DEF IInv, ManifestInv, Over
<1> QED
  BY <1>1, <1>3, <1>4, <1>6, <1>8, <1>9, <1>10, <1>11, <1>12, <1>13

\* The rest of the types.
LEMMA TaskType ==
    ASSUME IInv, tpc' \in [Tasks -> TaskStates], egErr' \in Errs,
           UNCHANGED <<export, opts, pc, result, readVars, rheld, rawData, procVars, parentDone>>,
           descs' \in [Tasks -> Bytes], digest' \in [Tasks -> Bytes],
           rbuf' \in [Tasks -> RawBufs \cup {NoBuf}], obuf' \in [Tasks -> OutBufs \cup {NoBuf}],
           freeRaw' \in SUBSET RawBufs, freeOut' \in SUBSET OutBufs, outData' \in [OutBufs -> Bytes]
    PROVE  TypeOK'
<1>1. UNCHANGED <<pos, chunk, cfg, groups, readErr, exporter, closed>>
  BY DEF readVars, procVars
<1>2. cfg' \in BOOLEAN /\ closed' \in BOOLEAN /\ parentDone' \in BOOLEAN
  BY <1>1, Zenon DEF IInv, TypeOK
<1> QED
  BY <1>1, <1>2 DEF IInv, TypeOK, TaskStates

\* A raw buffer given back by a task is in the pool and nowhere else.
LEMMA PutRawFacts ==
    ASSUME IInv, NEW t0 \in Tasks, OwnsRaw(t0), PutRaw(t0), UNCHANGED rheld
    PROVE  /\ freeRaw' \in SUBSET RawBufs /\ rbuf' \in [Tasks -> RawBufs \cup {NoBuf}]
           /\ rbuf'[t0] = NoBuf /\ \A t \in Tasks : t # t0 => rbuf'[t] = rbuf[t]
           /\ \A t, u \in Tasks : t # u => (rbuf'[t] = rbuf'[u] => rbuf'[t] = NoBuf)
           /\ \A t \in Tasks : rbuf'[t] \notin freeRaw' /\ (rbuf'[t] = rheld => rheld = NoBuf)
           /\ rheld \notin freeRaw'
           /\ \A b \in RawBufs : b \in freeRaw' \/ b = rheld \/ \E t \in Tasks : rbuf'[t] = b
<1>1. rbuf[t0] \in RawBufs /\ rbuf[t0] # NoBuf /\ NoBuf \notin freeRaw /\ NoBuf \notin RawBufs
  BY PoolAssumption DEF IInv, BufInv, TypeOK
<1>2. /\ freeRaw' = freeRaw \cup {rbuf[t0]} /\ rbuf' \in [Tasks -> RawBufs \cup {NoBuf}]
      /\ rbuf'[t0] = NoBuf /\ \A t \in Tasks : t # t0 => rbuf'[t] = rbuf[t]
  BY DEF PutRaw, IInv, TypeOK
<1>3. freeRaw' \in SUBSET RawBufs
  BY <1>1, <1>2 DEF IInv, TypeOK
<1>4. /\ \A t, u \in Tasks : t # u => (rbuf[t] = rbuf[u] => rbuf[t] = NoBuf)
      /\ \A t \in Tasks : rbuf[t] \notin freeRaw /\ (rbuf[t] = rheld => rheld = NoBuf)
      /\ rheld \notin freeRaw
      /\ \A b \in RawBufs : b \in freeRaw \/ b = rheld \/ \E t \in Tasks : rbuf[t] = b
  BY DEF IInv, BufInv, ExclusiveBuffers
<1>5. \A t, u \in Tasks : t # u => (rbuf'[t] = rbuf'[u] => rbuf'[t] = NoBuf)
  BY <1>2, <1>4
<1>6. \A t \in Tasks : rbuf'[t] \notin freeRaw' /\ (rbuf'[t] = rheld => rheld = NoBuf)
  BY <1>1, <1>2, <1>4
<1>7. rheld \notin freeRaw'
  BY <1>1, <1>2, <1>4
<1>8. \A b \in RawBufs : b \in freeRaw' \/ b = rheld \/ \E t \in Tasks : rbuf'[t] = b
  BY <1>2, <1>4
<1> QED
  BY <1>2, <1>3, <1>5, <1>6, <1>7, <1>8

\* The same for an output buffer.
LEMMA PutOutFacts ==
    ASSUME IInv, NEW t0 \in Tasks, OwnsOut(t0),
           freeOut' = freeOut \cup {obuf[t0]}, obuf' = [obuf EXCEPT ![t0] = NoBuf]
    PROVE  /\ freeOut' \in SUBSET OutBufs /\ obuf' \in [Tasks -> OutBufs \cup {NoBuf}]
           /\ obuf'[t0] = NoBuf /\ \A t \in Tasks : t # t0 => obuf'[t] = obuf[t]
           /\ \A t, u \in Tasks : t # u => (obuf'[t] = obuf'[u] => obuf'[t] = NoBuf)
           /\ \A t \in Tasks : obuf'[t] \notin freeOut'
           /\ \A b \in OutBufs : b \in freeOut' \/ \E t \in Tasks : obuf'[t] = b
<1>1. obuf[t0] \in OutBufs /\ obuf[t0] # NoBuf /\ NoBuf \notin freeOut /\ NoBuf \notin OutBufs
  BY PoolAssumption DEF IInv, BufInv, TypeOK
<1>2. /\ obuf' \in [Tasks -> OutBufs \cup {NoBuf}]
      /\ obuf'[t0] = NoBuf /\ \A t \in Tasks : t # t0 => obuf'[t] = obuf[t]
  BY DEF IInv, TypeOK
<1>3. freeOut' \in SUBSET OutBufs
  BY <1>1 DEF IInv, TypeOK
<1>4. /\ \A t, u \in Tasks : t # u => (obuf[t] = obuf[u] => obuf[t] = NoBuf)
      /\ \A t \in Tasks : obuf[t] \notin freeOut
      /\ \A b \in OutBufs : b \in freeOut \/ \E t \in Tasks : obuf[t] = b
  BY DEF IInv, BufInv, ExclusiveBuffers
<1>5. \A t, u \in Tasks : t # u => (obuf'[t] = obuf'[u] => obuf'[t] = NoBuf)
  BY <1>2, <1>4
<1>6. \A t \in Tasks : obuf'[t] \notin freeOut'
  BY <1>1, <1>2, <1>4
<1>7. \A b \in OutBufs : b \in freeOut' \/ \E t \in Tasks : obuf'[t] = b
  BY <1>2, <1>4
<1> QED
  BY <1>2, <1>3, <1>5, <1>6, <1>7

\* The data of the other tasks does not change while their buffers do not.
LEMMA OtherData ==
    ASSUME IInv, NEW t0 \in Tasks, UNCHANGED <<export, opts, rawData>>,
           blobs \subseteq blobs', egErr' = "none" => egErr = "none",
           NEW t \in Tasks, t # t0,
           tpc'[t] = tpc[t], digest'[t] = digest[t], descs'[t] = descs[t],
           OwnsRaw(t) => rbuf'[t] = rbuf[t],
           OwnsOut(t) => obuf'[t] = obuf[t] /\ outData'[obuf[t]] = outData[obuf[t]]
    PROVE  /\ tpc'[t] \in {"start", "encode"} => rawData'[rbuf'[t]] = ChunkData(t[1], t[2])
           /\ tpc'[t] \in {"check", "put"} => digest'[t] = Wanted(t) /\ (Stored(t) = digest[t])'
           /\ tpc'[t] = "done" /\ egErr' = "none" =>
                descs'[t] = Wanted(t) /\ \E b \in blobs' : b.digest = descs'[t]
<1>1. tpc[t] \in {"start", "encode"} => rawData[rbuf[t]] = ChunkData(t[1], t[2])
  BY DEF IInv, DataInv
<1>2. tpc[t] \in {"check", "put"} => digest[t] = Wanted(t) /\ Stored(t) = digest[t]
  BY DEF IInv, DataInv
<1>3. tpc[t] = "done" /\ egErr = "none" => descs[t] = Wanted(t) /\ HasBlob(descs[t])
  BY DEF IInv, DataInv
<1>4. tpc[t] \in {"check", "put"} => Stored(t)' = Stored(t)
  BY Frozen DEF Stored, OwnsRaw, OwnsOut, Blob
<1> QED
  BY <1>1, <1>2, <1>3, <1>4 DEF OwnsRaw, HasBlob

\* The data invariant from the view of every task.
LEMMA DataFromTasks ==
    ASSUME UNCHANGED <<export, opts>>, BlobsIntact',
           \A t \in Tasks :
             /\ tpc'[t] \in {"start", "encode"} => rawData'[rbuf'[t]] = ChunkData(t[1], t[2])
             /\ tpc'[t] \in {"check", "put"} => digest'[t] = Wanted(t) /\ (Stored(t) = digest[t])'
             /\ tpc'[t] = "done" /\ egErr' = "none" =>
                  descs'[t] = Wanted(t) /\ \E b \in blobs' : b.digest = descs'[t]
    PROVE  DataInv'
  BY Frozen DEF DataInv, HasBlob

\* A task borrows an output buffer.
LEMMA TakeOutStep == ASSUME IInv, NEW t0 \in Tasks, TakeOut(t0) PROVE IInv'
<1>1. /\ tpc[t0] = "start" /\ Running(t0) /\ compress(t0[1]) /\ Goto(t0, "encode")
      /\ UNCHANGED <<export, opts, blobs, manifest, pc, result, readVars, descs, digest, egErr,
                     rbuf, rheld, freeRaw, rawData, outData, procVars, parentDone>>
  BY DEF TakeOut, Running, regVars
<1>2. PICK b \in freeOut : obuf' = [obuf EXCEPT ![t0] = b] /\ freeOut' = freeOut \ {b}
  BY DEF TakeOut
<1>3. /\ tpc' \in [Tasks -> TaskStates] /\ tpc'[t0] = "encode"
      /\ \A t \in Tasks : t # t0 => tpc'[t] = tpc[t]
      /\ ReadInv' /\ TaskInv' /\ SlotInv' /\ GroupInv' /\ EndInv' /\ ErrInv' /\ ManifestInv'
  BY <1>1, TaskControl DEF TaskStates
<1>4. /\ b \in OutBufs /\ b # NoBuf /\ obuf' \in [Tasks -> OutBufs \cup {NoBuf}]
      /\ obuf'[t0] = b /\ \A t \in Tasks : t # t0 => obuf'[t] = obuf[t]
      /\ freeOut' \in SUBSET OutBufs /\ freeOut \subseteq OutBufs
  BY <1>2, PoolAssumption DEF IInv, TypeOK
<1>5. TypeOK'
  <2>1. /\ egErr' \in Errs /\ descs' \in [Tasks -> Bytes] /\ digest' \in [Tasks -> Bytes]
        /\ rbuf' \in [Tasks -> RawBufs \cup {NoBuf}] /\ freeRaw' \in SUBSET RawBufs
        /\ outData' \in [OutBufs -> Bytes]
    BY <1>1 DEF IInv, TypeOK
  <2> QED
    BY <1>1, <1>3, <1>4, <2>1, TaskType
<1>6. BufInv'
  <2>1. \A t \in Tasks : /\ (rbuf[t] # NoBuf <=> OwnsRaw(t))'
                         /\ (obuf[t] # NoBuf <=> OwnsOut(t))'
                         /\ (tpc[t] = "encode" => compress(t[1]))'
    BY <1>1, <1>3, <1>4, Frozen DEF IInv, BufInv, OwnsRaw, OwnsOut
  <2>2. /\ \A t \in Tasks : obuf[t] # b /\ obuf[t] \notin freeOut
        /\ \A t, u \in Tasks : t # u => (obuf[t] = obuf[u] => obuf[t] = NoBuf)
    BY DEF IInv, BufInv, ExclusiveBuffers
  <2>3. /\ \A t \in Tasks : obuf'[t] \notin freeOut'
        /\ \A t, u \in Tasks : t # u => (obuf'[t] = obuf'[u] => obuf'[t] = NoBuf)
    BY <1>2, <1>4, <2>2
  <2>4. ExclusiveBuffers'
    BY <1>1, <2>3 DEF IInv, BufInv, ExclusiveBuffers
  <2>5. obuf[t0] = NoBuf
    BY <1>1 DEF IInv, BufInv, OwnsOut
  <2>6. \A c \in OutBufs : c \in freeOut' \/ \E t \in Tasks : obuf'[t] = c
    BY <1>2, <1>4, <2>5, PoolAssumption DEF IInv, BufInv
  <2> QED
    BY <1>1, <2>1, <2>4, <2>6 DEF IInv, BufInv
<1>7. DataInv'
  <2>1. BlobsIntact'
    BY <1>1 DEF IInv, DataInv, BlobsIntact
  <2>2. rawData'[rbuf'[t0]] = ChunkData(t0[1], t0[2])
    BY <1>1 DEF IInv, DataInv
  <2> QED
    BY <1>1, <1>3, <1>4, <2>1, <2>2, OtherData, DataFromTasks
<1> QED
  BY <1>3, <1>5, <1>6, <1>7 DEF IInv

\* A task hashes the raw chunk it will upload.
LEMMA HashRawStep == ASSUME IInv, NEW t0 \in Tasks, HashRaw(t0) PROVE IInv'
<1>1. /\ tpc[t0] = "start" /\ Running(t0) /\ ~compress(t0[1]) /\ Goto(t0, "check")
      /\ digest' = [digest EXCEPT ![t0] = Blob("raw", rawData[rbuf[t0]])]
      /\ UNCHANGED <<export, opts, blobs, manifest, pc, result, readVars, descs, egErr,
                     rbuf, obuf, rheld, freeRaw, freeOut, rawData, outData, procVars, parentDone>>
  BY DEF HashRaw, Running, regVars, bufVars
<1>2. /\ tpc' \in [Tasks -> TaskStates] /\ tpc'[t0] = "check"
      /\ \A t \in Tasks : t # t0 => tpc'[t] = tpc[t]
      /\ ReadInv' /\ TaskInv' /\ SlotInv' /\ GroupInv' /\ EndInv' /\ ErrInv' /\ ManifestInv'
  BY <1>1, TaskControl DEF TaskStates
<1>3. rbuf[t0] \in RawBufs /\ rawData[rbuf[t0]] \in Seq(Units)
  BY <1>1 DEF IInv, BufInv, OwnsRaw, TypeOK
<1>4. Blob("raw", rawData[rbuf[t0]]) \in Bytes
  BY <1>3 DEF Blob, Bytes
<1>5. /\ digest' \in [Tasks -> Bytes] /\ digest'[t0] = Blob("raw", rawData[rbuf[t0]])
      /\ \A t \in Tasks : t # t0 => digest'[t] = digest[t]
  BY <1>1, <1>4 DEF IInv, TypeOK
<1>6. TypeOK'
  <2>1. /\ egErr' \in Errs /\ descs' \in [Tasks -> Bytes]
        /\ rbuf' \in [Tasks -> RawBufs \cup {NoBuf}] /\ obuf' \in [Tasks -> OutBufs \cup {NoBuf}]
        /\ freeRaw' \in SUBSET RawBufs /\ freeOut' \in SUBSET OutBufs
        /\ outData' \in [OutBufs -> Bytes]
    BY <1>1 DEF IInv, TypeOK
  <2> QED
    BY <1>1, <1>2, <1>5, <2>1, TaskType
<1>7. BufInv'
  <2>1. \A t \in Tasks : /\ (rbuf[t] # NoBuf <=> OwnsRaw(t))'
                         /\ (obuf[t] # NoBuf <=> OwnsOut(t))'
                         /\ (tpc[t] = "encode" => compress(t[1]))'
    BY <1>1, <1>2, Frozen DEF IInv, BufInv, OwnsRaw, OwnsOut
  <2>2. ExclusiveBuffers'
    BY <1>1 DEF IInv, BufInv, ExclusiveBuffers
  <2> QED
    BY <1>1, <2>1, <2>2 DEF IInv, BufInv
<1>8. DataInv'
  <2>1. BlobsIntact'
    BY <1>1 DEF IInv, DataInv, BlobsIntact
  <2>2. rawData[rbuf[t0]] = ChunkData(t0[1], t0[2])
    BY <1>1 DEF IInv, DataInv
  <2>3. digest'[t0] = Wanted(t0)
    BY <1>1, <1>5, <2>2 DEF Wanted, Encoding
  <2>4. (Stored(t0) = digest[t0])'
    BY <1>1, <1>5, Frozen DEF Stored, Blob
  <2> QED
    BY <1>1, <1>2, <1>5, <2>1, <2>3, <2>4, OtherData, DataFromTasks
<1> QED
  BY <1>2, <1>6, <1>7, <1>8 DEF IInv

\* A task compresses its chunk and gives the raw buffer back.
LEMMA EncodeStep == ASSUME IInv, NEW t0 \in Tasks, Encode(t0) PROVE IInv'
<1> DEFINE frame == Blob("zstd", rawData[rbuf[t0]])
<1>1. /\ tpc[t0] = "encode" /\ Running(t0) /\ Goto(t0, "check") /\ PutRaw(t0)
      /\ outData' = [outData EXCEPT ![obuf[t0]] = frame] /\ digest' = [digest EXCEPT ![t0] = frame]
      /\ UNCHANGED <<export, opts, blobs, manifest, pc, result, readVars, descs, egErr,
                     obuf, rheld, freeOut, rawData, procVars, parentDone>>
  BY DEF Encode, Running, regVars
<1>2. /\ tpc' \in [Tasks -> TaskStates] /\ tpc'[t0] = "check"
      /\ \A t \in Tasks : t # t0 => tpc'[t] = tpc[t]
      /\ ReadInv' /\ TaskInv' /\ SlotInv' /\ GroupInv' /\ EndInv' /\ ErrInv' /\ ManifestInv'
  BY <1>1, TaskControl DEF TaskStates
<1>3. compress(t0[1]) /\ OwnsRaw(t0) /\ OwnsOut(t0)
  BY <1>1 DEF IInv, BufInv, OwnsRaw, OwnsOut
<1>4. rbuf[t0] \in RawBufs /\ rawData[rbuf[t0]] \in Seq(Units) /\ obuf[t0] \in OutBufs
      /\ obuf[t0] # NoBuf
  BY <1>3 DEF IInv, BufInv, TypeOK
<1>5. frame \in Bytes
  BY <1>4 DEF Blob, Bytes
<1>6. frame = Wanted(t0)
  BY <1>1, <1>3 DEF IInv, DataInv, Wanted, Encoding
<1> HIDE DEF frame
<1>7. /\ digest' \in [Tasks -> Bytes] /\ digest'[t0] = frame
      /\ \A t \in Tasks : t # t0 => digest'[t] = digest[t]
      /\ outData' \in [OutBufs -> Bytes] /\ outData'[obuf[t0]] = frame
      /\ \A b \in OutBufs : b # obuf[t0] => outData'[b] = outData[b]
  BY <1>1, <1>4, <1>5 DEF IInv, TypeOK
<1>8. /\ freeRaw' \in SUBSET RawBufs /\ rbuf' \in [Tasks -> RawBufs \cup {NoBuf}]
      /\ rbuf'[t0] = NoBuf /\ \A t \in Tasks : t # t0 => rbuf'[t] = rbuf[t]
      /\ \A t, u \in Tasks : t # u => (rbuf'[t] = rbuf'[u] => rbuf'[t] = NoBuf)
      /\ \A t \in Tasks : rbuf'[t] \notin freeRaw' /\ (rbuf'[t] = rheld => rheld = NoBuf)
      /\ rheld \notin freeRaw'
      /\ \A b \in RawBufs : b \in freeRaw' \/ b = rheld \/ \E t \in Tasks : rbuf'[t] = b
  BY <1>1, <1>3, PutRawFacts
<1>9. TypeOK'
  <2>1. /\ egErr' \in Errs /\ descs' \in [Tasks -> Bytes]
        /\ obuf' \in [Tasks -> OutBufs \cup {NoBuf}] /\ freeOut' \in SUBSET OutBufs
    BY <1>1 DEF IInv, TypeOK
  <2> QED
    BY <1>1, <1>2, <1>7, <1>8, <2>1, TaskType
<1>10. BufInv'
  <2>1. \A t \in Tasks : /\ (rbuf[t] # NoBuf <=> OwnsRaw(t))'
                         /\ (obuf[t] # NoBuf <=> OwnsOut(t))'
                         /\ (tpc[t] = "encode" => compress(t[1]))'
    BY <1>1, <1>2, <1>3, <1>8, Frozen DEF IInv, BufInv, OwnsRaw, OwnsOut
  <2>2. ExclusiveBuffers'
    BY <1>1, <1>8 DEF IInv, BufInv, ExclusiveBuffers
  <2> QED
    BY <1>1, <1>8, <2>1, <2>2 DEF IInv, BufInv
<1>11. DataInv'
  <2>1. BlobsIntact'
    BY <1>1 DEF IInv, DataInv, BlobsIntact
  <2>2. (Stored(t0) = digest[t0])'
    BY <1>1, <1>3, <1>7, Frozen DEF Stored
  <2>3. \A t \in Tasks : t # t0 /\ OwnsOut(t) => outData'[obuf[t]] = outData[obuf[t]]
    <3>1. \A t \in Tasks : t # t0 /\ OwnsOut(t) => obuf[t] # obuf[t0] /\ obuf[t] \in OutBufs
      BY <1>4 DEF IInv, BufInv, ExclusiveBuffers, TypeOK
    <3> QED
      BY <1>7, <3>1
  <2> QED
    BY <1>1, <1>2, <1>6, <1>7, <1>8, <2>1, <2>2, <2>3, OtherData, DataFromTasks
<1> QED
  BY <1>2, <1>9, <1>10, <1>11 DEF IInv

\* A task finds that its blob is missing.
LEMMA BlobMissingStep == ASSUME IInv, NEW t0 \in Tasks, BlobMissing(t0) PROVE IInv'
<1>1. /\ tpc[t0] = "check" /\ Running(t0) /\ Goto(t0, "put")
      /\ UNCHANGED <<export, opts, blobs, manifest, pc, result, readVars, descs, digest, egErr,
                     rbuf, obuf, rheld, freeRaw, freeOut, rawData, outData, procVars, parentDone>>
  BY DEF BlobMissing, Running, regVars, bufVars
<1>2. /\ tpc' \in [Tasks -> TaskStates] /\ tpc'[t0] = "put"
      /\ \A t \in Tasks : t # t0 => tpc'[t] = tpc[t]
      /\ ReadInv' /\ TaskInv' /\ SlotInv' /\ GroupInv' /\ EndInv' /\ ErrInv' /\ ManifestInv'
  BY <1>1, TaskControl DEF TaskStates
<1>3. TypeOK'
  <2>1. /\ egErr' \in Errs /\ descs' \in [Tasks -> Bytes] /\ digest' \in [Tasks -> Bytes]
        /\ rbuf' \in [Tasks -> RawBufs \cup {NoBuf}] /\ obuf' \in [Tasks -> OutBufs \cup {NoBuf}]
        /\ freeRaw' \in SUBSET RawBufs /\ freeOut' \in SUBSET OutBufs
        /\ outData' \in [OutBufs -> Bytes]
    BY <1>1 DEF IInv, TypeOK
  <2> QED
    BY <1>1, <1>2, <2>1, TaskType
<1>4. BufInv'
  <2>1. \A t \in Tasks : /\ (rbuf[t] # NoBuf <=> OwnsRaw(t))'
                         /\ (obuf[t] # NoBuf <=> OwnsOut(t))'
                         /\ (tpc[t] = "encode" => compress(t[1]))'
    BY <1>1, <1>2, Frozen DEF IInv, BufInv, OwnsRaw, OwnsOut
  <2>2. ExclusiveBuffers'
    BY <1>1 DEF IInv, BufInv, ExclusiveBuffers
  <2> QED
    BY <1>1, <2>1, <2>2 DEF IInv, BufInv
<1>5. DataInv'
  <2>1. BlobsIntact'
    BY <1>1 DEF IInv, DataInv, BlobsIntact
  <2>2. digest[t0] = Wanted(t0) /\ Stored(t0) = digest[t0]
    BY <1>1 DEF IInv, DataInv
  <2>3. (Stored(t0) = digest[t0])'
    BY <1>1, <2>2, Frozen DEF Stored, Blob
  <2> QED
    BY <1>1, <1>2, <2>1, <2>2, <2>3, OtherData, DataFromTasks
<1> QED
  BY <1>2, <1>3, <1>4, <1>5 DEF IInv

\* A task gives back the one buffer it still has.
LEMMA PutBufferFacts ==
    ASSUME IInv, NEW t0 \in Tasks, tpc[t0] \in {"check", "put"}, PutBuffer(t0),
           UNCHANGED <<export, opts, rheld>>, tpc'[t0] = "done",
           \A t \in Tasks : t # t0 => tpc'[t] = tpc[t]
    PROVE  /\ BufInv'
           /\ rbuf' \in [Tasks -> RawBufs \cup {NoBuf}] /\ obuf' \in [Tasks -> OutBufs \cup {NoBuf}]
           /\ freeRaw' \in SUBSET RawBufs /\ freeOut' \in SUBSET OutBufs
           /\ \A t \in Tasks : t # t0 => rbuf'[t] = rbuf[t] /\ obuf'[t] = obuf[t]
<1>1. CASE compress(t0[1])
  <2>1. /\ freeOut' = freeOut \cup {obuf[t0]} /\ obuf' = [obuf EXCEPT ![t0] = NoBuf]
        /\ UNCHANGED <<rbuf, freeRaw>> /\ OwnsOut(t0) /\ ~OwnsRaw(t0)
    BY <1>1 DEF PutBuffer, OwnsOut, OwnsRaw
  <2>2. /\ freeOut' \in SUBSET OutBufs /\ obuf' \in [Tasks -> OutBufs \cup {NoBuf}]
        /\ obuf'[t0] = NoBuf /\ \A t \in Tasks : t # t0 => obuf'[t] = obuf[t]
        /\ \A t, u \in Tasks : t # u => (obuf'[t] = obuf'[u] => obuf'[t] = NoBuf)
        /\ \A t \in Tasks : obuf'[t] \notin freeOut'
        /\ \A b \in OutBufs : b \in freeOut' \/ \E t \in Tasks : obuf'[t] = b
    BY <2>1, PutOutFacts
  <2>3. \A t \in Tasks : /\ (rbuf[t] # NoBuf <=> OwnsRaw(t))'
                         /\ (obuf[t] # NoBuf <=> OwnsOut(t))'
                         /\ (tpc[t] = "encode" => compress(t[1]))'
    BY <2>1, <2>2, Frozen DEF IInv, BufInv, OwnsRaw, OwnsOut
  <2>4. ExclusiveBuffers'
    BY <2>1, <2>2 DEF IInv, BufInv, ExclusiveBuffers
  <2>5. BufInv'
    BY <2>1, <2>2, <2>3, <2>4 DEF IInv, BufInv
  <2>6. rbuf' \in [Tasks -> RawBufs \cup {NoBuf}] /\ freeRaw' \in SUBSET RawBufs
    BY <2>1 DEF IInv, TypeOK
  <2> QED
    BY <2>1, <2>2, <2>5, <2>6
<1>2. CASE ~compress(t0[1])
  <2>1. PutRaw(t0) /\ UNCHANGED <<obuf, freeOut>> /\ OwnsRaw(t0) /\ ~OwnsOut(t0)
    BY <1>2 DEF PutBuffer, OwnsOut, OwnsRaw
  <2>2. /\ freeRaw' \in SUBSET RawBufs /\ rbuf' \in [Tasks -> RawBufs \cup {NoBuf}]
        /\ rbuf'[t0] = NoBuf /\ \A t \in Tasks : t # t0 => rbuf'[t] = rbuf[t]
        /\ \A t, u \in Tasks : t # u => (rbuf'[t] = rbuf'[u] => rbuf'[t] = NoBuf)
        /\ \A t \in Tasks : rbuf'[t] \notin freeRaw' /\ (rbuf'[t] = rheld => rheld = NoBuf)
        /\ rheld \notin freeRaw'
        /\ \A b \in RawBufs : b \in freeRaw' \/ b = rheld \/ \E t \in Tasks : rbuf'[t] = b
    BY <2>1, PutRawFacts
  <2>3. \A t \in Tasks : /\ (rbuf[t] # NoBuf <=> OwnsRaw(t))'
                         /\ (obuf[t] # NoBuf <=> OwnsOut(t))'
                         /\ (tpc[t] = "encode" => compress(t[1]))'
    BY <2>1, <2>2, Frozen DEF IInv, BufInv, OwnsRaw, OwnsOut
  <2>4. ExclusiveBuffers'
    BY <2>1, <2>2 DEF IInv, BufInv, ExclusiveBuffers
  <2>5. BufInv'
    BY <2>1, <2>2, <2>3, <2>4 DEF IInv, BufInv
  <2>6. obuf' \in [Tasks -> OutBufs \cup {NoBuf}] /\ freeOut' \in SUBSET OutBufs
    BY <2>1 DEF IInv, TypeOK
  <2> QED
    BY <2>1, <2>2, <2>5, <2>6
<1> QED
  BY <1>1, <1>2

\* A task is over: its blob was there, it has uploaded it, or it has failed.
LEMMA TaskEndStep ==
    ASSUME IInv, NEW t0 \in Tasks, BlobPresent(t0) \/ PutBlob(t0) \/ TaskErr(t0)
    PROVE  IInv'
<1>1. /\ tpc[t0] \in {"check", "put"} /\ Running(t0) /\ Goto(t0, "done") /\ PutBuffer(t0)
      /\ UNCHANGED <<export, opts, manifest, pc, result, readVars, digest, rheld, rawData, outData,
                     procVars, parentDone>>
  BY DEF BlobPresent, PutBlob, TaskErr, TaskDone, Running, regVars
<1>2. digest[t0] = Wanted(t0) /\ Stored(t0) = digest[t0] /\ digest[t0] \in Bytes
  BY <1>1 DEF IInv, DataInv, TypeOK
<1>3. blobs' = blobs \/ blobs' = blobs \cup {[digest |-> digest[t0], bytes |-> digest[t0]]}
  BY <1>2 DEF BlobPresent, PutBlob, TaskErr, Store, regVars
<1>4. blobs \subseteq blobs' /\ BlobsIntact'
  BY <1>3 DEF IInv, DataInv, BlobsIntact
<1>5. \/ egErr' = egErr
      \/ egErr = "none" /\ egErr' \in {"registry", "canceled"} /\ (egErr' = "canceled" => egDone)
  BY DEF BlobPresent, PutBlob, TaskErr, FirstErr, CallErrs
<1>6. /\ descs' \in [Tasks -> Bytes] /\ \A t \in Tasks : t # t0 => descs'[t] = descs[t]
      /\ egErr' = "none" => descs'[t0] = digest[t0] /\ \E b \in blobs' : b.digest = digest[t0]
  <2>1. CASE BlobPresent(t0)
    BY <1>2, <2>1 DEF BlobPresent, TaskDone, IInv, TypeOK, HasBlob, regVars
  <2>2. CASE PutBlob(t0)
    <3>1. descs' = [descs EXCEPT ![t0] = digest[t0]] /\ descs \in [Tasks -> Bytes]
      BY <2>2 DEF PutBlob, TaskDone, IInv, TypeOK
    <3>2. [digest |-> digest[t0], bytes |-> Stored(t0)] \in blobs'
      BY <2>2 DEF PutBlob, Store
    <3> QED
      BY <1>2, <3>1, <3>2
  <2>3. CASE TaskErr(t0)
    BY <2>3 DEF TaskErr, FirstErr, CallErrs, IInv, TypeOK
  <2> QED
    BY <2>1, <2>2, <2>3
<1>7. /\ tpc' \in [Tasks -> TaskStates] /\ tpc'[t0] = "done"
      /\ \A t \in Tasks : t # t0 => tpc'[t] = tpc[t]
      /\ ReadInv' /\ TaskInv' /\ SlotInv' /\ GroupInv' /\ EndInv' /\ ErrInv' /\ ManifestInv'
  BY <1>1, <1>4, <1>5, <1>6, TaskControl DEF TaskStates
<1>8. /\ BufInv'
      /\ rbuf' \in [Tasks -> RawBufs \cup {NoBuf}] /\ obuf' \in [Tasks -> OutBufs \cup {NoBuf}]
      /\ freeRaw' \in SUBSET RawBufs /\ freeOut' \in SUBSET OutBufs
      /\ \A t \in Tasks : t # t0 => rbuf'[t] = rbuf[t] /\ obuf'[t] = obuf[t]
  BY <1>1, <1>7, PutBufferFacts
<1>9. TypeOK'
  <2>1. digest' \in [Tasks -> Bytes] /\ outData' \in [OutBufs -> Bytes]
    BY <1>1 DEF IInv, TypeOK
  <2>2. egErr' \in Errs
    BY <1>5 DEF IInv, TypeOK, Errs
  <2> QED
    BY <1>1, <1>6, <1>7, <1>8, <2>1, <2>2, TaskType
<1>10. DataInv'
  BY <1>1, <1>2, <1>4, <1>5, <1>6, <1>7, <1>8, OtherData, DataFromTasks
<1> QED
  BY <1>7, <1>8, <1>9, <1>10 DEF IInv

-----------------------------------------------------------------------------
(* Config and manifest.                                                    *)

\* What a step at the end of the call preserves when the registry only grows.
LEMMA FinalFrame ==
    ASSUME IInv, pc \in {"config", "manifest"}, pc' \in {"manifest", "returned"},
           UNCHANGED <<export, opts, readVars, taskVars, bufVars, procVars, parentDone>>,
           blobs \subseteq blobs', BlobsIntact',
           result' \in Errs \cup {"ok"}, result' = "none" <=> pc' # "returned",
           result' = "canceled" => parentDone
    PROVE  /\ TypeOK' /\ ReadInv' /\ TaskInv' /\ SlotInv' /\ BufInv' /\ DataInv' /\ GroupInv'
           /\ EndInv' /\ ErrInv'
<1>1. UNCHANGED <<pos, chunk, cfg, groups, readErr, tpc, descs, digest, egErr, rheld, rawData,
                  exporter, closed>>
  BY DEF readVars, taskVars, bufVars, procVars
<1>2. TypeOK'
  <2>1. cfg' \in BOOLEAN /\ closed' \in BOOLEAN /\ parentDone' \in BOOLEAN
    BY <1>1, Zenon DEF IInv, TypeOK
  <2> QED
    BY <1>1, <2>1 DEF IInv, TypeOK, bufVars
<1>3. SlotInv' /\ BufInv' /\ DataInv'
  BY <1>1, TaskFrame
<1>4. ReadInv'
  BY <1>1 DEF IInv, ReadInv, Chunking, Spooling
<1>5. TaskInv'
  BY <1>1, Frozen DEF IInv, TaskInv, Chunking, Over, Running
<1>6. GroupInv'
  <2>1. \A g \in DOMAIN groups : ~Chunked(groups[g]) =>
          /\ descs[<<groups[g], 1>>] = Blob(Encoding(groups[g]), export[groups[g]].data)
          /\ HasBlob(descs[<<groups[g], 1>>])'
    BY <1>1 DEF IInv, GroupInv, HasBlob
  <2> QED
    BY <1>1, <2>1, Frozen DEF IInv, GroupInv, Chunking, Spooling, Blob
<1>7. EndInv'
  <2>1. AllRead' = AllRead
    BY <1>1, QuietFacts DEF AllRead
  <2> QED
    BY <1>1, <2>1 DEF IInv, EndInv
<1>8. ErrInv'
  BY <1>1 DEF IInv, ErrInv, CanceledOnlyByCaller
<1> QED
  BY <1>2, <1>3, <1>4, <1>5, <1>6, <1>7, <1>8

\* The config is uploaded, or one of the last two uploads fails.
LEMMA ConfigStep == IInv /\ (PutConfig \/ FinalErr) => IInv'
<1> SUFFICES ASSUME IInv, PutConfig \/ FinalErr PROVE IInv'
  OBVIOUS
<1>1. /\ pc \in {"config", "manifest"} /\ pc' \in {"manifest", "returned"}
      /\ UNCHANGED <<export, opts, manifest, readVars, taskVars, bufVars, procVars, parentDone>>
  BY DEF PutConfig, FinalErr, Return
<1>2. blobs' = blobs \/ blobs' = blobs \cup {[digest |-> ConfigBlob, bytes |-> ConfigBlob]}
  BY DEF PutConfig, FinalErr, Store
<1>3. blobs \subseteq blobs' /\ BlobsIntact'
  BY <1>2 DEF IInv, DataInv, BlobsIntact
<1>4. /\ result' \in Errs \cup {"ok"} /\ (result' = "none" <=> pc' # "returned")
      /\ result' = "canceled" => parentDone
  BY DEF PutConfig, FinalErr, Return, CallErrs, IInv, ErrInv, CanceledOnlyByCaller, Errs
<1>5. ManifestInv'
  <2>1. PublishedComplete'
    BY <1>1, <1>3, PublishedStable DEF IInv, ManifestInv
  <2>2. pc' = "manifest" => HasBlob(ConfigBlob)'
    <3>1. pc' = "manifest" => [digest |-> ConfigBlob, bytes |-> ConfigBlob] \in blobs'
      BY DEF PutConfig, FinalErr, Return, Store
    <3> QED
      BY <3>1 DEF HasBlob, ConfigBlob, Blob
  <2> QED
    BY <1>1, <2>1, <2>2 DEF IInv, ManifestInv
<1> QED
  BY <1>1, <1>3, <1>4, <1>5, FinalFrame DEF IInv

\* All chunks of a file but the last are full, the last one is the rest, and
\* every chunk starts at its fixed offset.
LEMMA ChunkFacts ==
    ASSUME TypeOK, NEW e \in DOMAIN export, Chunked(e), NEW i \in 1..count(e)
    PROVE  /\ i < count(e) => Len(ChunkData(e, i)) = ChunkSize
           /\ i = count(e) => (i - 1) * ChunkSize + Len(ChunkData(e, i)) = Size(e)
           /\ \A k \in 1..Len(ChunkData(e, i)) :
                ChunkData(e, i)[k] = export[e].data[(i - 1) * ChunkSize + k]
           /\ count(e) = 1 => ChunkData(e, i) = export[e].data
<1> DEFINE C == ChunkSize
           o == (i - 1) * C
           b == IF i * C < Size(e) THEN i * C ELSE Size(e)
           s == export[e].data
<1>1. /\ C \in Nat \ {0} /\ Size(e) \in Nat \ {0} /\ count(e) \in Nat /\ i \in Nat \ {0}
      /\ (count(e) - 1) * C < Size(e) /\ Size(e) <= count(e) * C /\ i <= count(e)
  BY CountFacts, ParamsAssumption
<1>2. s \in Seq(Units) /\ Len(s) = Size(e)
  BY ExportFacts DEF Size
<1>3. ChunkData(e, i) = SubSeq(s, o + 1, b)
  BY DEF ChunkData
<1> HIDE DEF C, s
<1>4. /\ o \in Nat /\ i * C = o + C /\ i * C \in Nat
      /\ (count(e) - 1) * C \in Int /\ count(e) * C \in Int
  BY <1>1
<1>5. o <= (count(e) - 1) * C
  BY <1>1, Monotone
<1>6. i < count(e) => i * C <= (count(e) - 1) * C
  BY <1>1, Monotone
<1>7. o < Size(e)
  BY <1>1, <1>4, <1>5
<1>8. /\ i < count(e) => b = o + C
      /\ i = count(e) => b = Size(e)
      /\ b \in Nat /\ b <= Size(e) /\ o + 1 <= b
  BY <1>1, <1>4, <1>6, <1>7
<1>9. count(e) = 1 => o = 0
  BY <1>1
<1> HIDE DEF o, b
<1>10. /\ Len(SubSeq(s, o + 1, b)) = b - o
       /\ \A k \in 1..(b - o) : SubSeq(s, o + 1, b)[k] = s[o + k]
  BY <1>1, <1>2, <1>4, <1>8
<1>11. count(e) = 1 => SubSeq(s, o + 1, b) = s
  <2> SUFFICES ASSUME count(e) = 1 PROVE SubSeq(s, o + 1, b) = s
    OBVIOUS
  <2>1. o + 1 = 1 /\ b = Len(s)
    BY <1>1, <1>2, <1>8, <1>9
  <2> QED
    BY <1>2, <2>1
<1>12. /\ i < count(e) => Len(ChunkData(e, i)) = C
       /\ i = count(e) => o + Len(ChunkData(e, i)) = Size(e)
       /\ \A k \in 1..Len(ChunkData(e, i)) : ChunkData(e, i)[k] = s[o + k]
       /\ count(e) = 1 => ChunkData(e, i) = s
  <2>1. Len(ChunkData(e, i)) = b - o
    BY <1>3, <1>10
  <2>2. i < count(e) => Len(ChunkData(e, i)) = C
    BY <1>1, <1>4, <1>8, <2>1
  <2>3. i = count(e) => o + Len(ChunkData(e, i)) = Size(e)
    BY <1>1, <1>4, <1>8, <2>1
  <2>4. \A k \in 1..(b - o) : ChunkData(e, i)[k] = s[o + k]
    BY <1>3, <1>10
  <2> QED
    BY <1>3, <1>11, <2>1, <2>2, <2>3, <2>4
<1> QED
  BY <1>12 DEF C, o, s

\* A file that is one blob.
LEMMA SingleReassembles ==
    ASSUME NEW e, NEW d, d.enc = Encoding(e), d.data = export[e].data
    PROVE  Reassembles(e, <<d>>)
  BY DEF Reassembles

\* The blobs of a file, in order, reassemble to it.
LEMMA LayerReassembles ==
    ASSUME TypeOK, NEW e \in DOMAIN export, NEW bs,
           bs = IF Chunked(e) THEN [i \in 1..count(e) |-> Blob(Encoding(e), ChunkData(e, i))]
                ELSE <<Blob(Encoding(e), export[e].data)>>
    PROVE  Reassembles(e, bs)
<1>1. CASE Chunked(e)
  <2>1. count(e) \in Nat \ {0}
    BY <1>1, CountFacts, ParamsAssumption
  <2>2. bs = [i \in 1..count(e) |-> Blob(Encoding(e), ChunkData(e, i))]
    BY <1>1
  <2>3. Len(bs) = count(e)
    BY <2>1, <2>2
  <2>4. \A i \in 1..count(e) : bs[i].enc = Encoding(e) /\ bs[i].data = ChunkData(e, i)
    BY <2>2 DEF Blob
  <2>5. \A i \in 1..count(e) :
          /\ i < count(e) => Len(ChunkData(e, i)) = ChunkSize
          /\ i = count(e) => (i - 1) * ChunkSize + Len(ChunkData(e, i)) = Size(e)
          /\ \A k \in 1..Len(ChunkData(e, i)) :
               ChunkData(e, i)[k] = export[e].data[(i - 1) * ChunkSize + k]
          /\ count(e) = 1 => ChunkData(e, i) = export[e].data
    BY <1>1, ChunkFacts
  <2>6. \A i \in 1..(count(e) - 1) : Len(bs[i].data) = ChunkSize
    BY <2>1, <2>4, <2>5
  <2>7. (count(e) - 1) * ChunkSize + Len(bs[count(e)].data) = Size(e)
    BY <2>1, <2>4, <2>5
  <2>8. \A i \in 1..count(e) : \A k \in 1..Len(bs[i].data) :
          bs[i].data[k] = export[e].data[(i - 1) * ChunkSize + k]
    BY <2>4, <2>5
  <2>9. count(e) = 1 => bs[1].data = export[e].data
    BY <2>1, <2>4, <2>5
  <2>10. \A i \in 1..count(e) : bs[i].enc = Encoding(e)
    BY <2>4
  <2> QED
    BY <2>3, <2>6, <2>7, <2>8, <2>9, <2>10 DEF Reassembles
<1>2. CASE ~Chunked(e)
  <2>1. bs = <<Blob(Encoding(e), export[e].data)>>
    BY <1>2
  <2>2. Reassembles(e, <<Blob(Encoding(e), export[e].data)>>)
    BY SingleReassembles DEF Blob
  <2> QED
    BY <2>1, <2>2
<1> QED
  BY <1>1, <1>2

\* The layers of a manifest are the groups, each with the blobs of its file.
LEMMA LayerFacts ==
    ASSUME IInv, pc = "manifest", NEW g \in DOMAIN groups
    PROVE  /\ groups[g] \in DOMAIN export
           /\ Layers[g].file = groups[g]
           /\ Layers[g].blobs =
                IF Chunked(groups[g])
                THEN [i \in 1..count(groups[g]) |->
                        Blob(Encoding(groups[g]), ChunkData(groups[g], i))]
                ELSE <<Blob(Encoding(groups[g]), export[groups[g]].data)>>
           /\ \A i \in DOMAIN Layers[g].blobs : HasBlob(Layers[g].blobs[i])
<1> DEFINE e == groups[g]
<1>1. DOMAIN groups = 1..Len(groups) /\ e \in 1..MaxEntries /\ e \in DOMAIN export
  BY GroupFacts DEF IInv, GroupInv, IsFileAt
<1>2. Layers[g].file = e
  BY <1>1 DEF Layers
<1>3. Layers[g].blobs = IF Chunked(e) THEN [i \in 1..count(e) |-> descs[<<e, i>>]]
                        ELSE <<descs[<<e, 1>>]>>
  BY <1>1 DEF Layers
<1>4. CASE Chunked(e)
  <2>1. count(e) \in 1..MaxChunks
    BY <1>1, <1>4, CountFacts DEF IInv
  <2>2. \A i \in 1..count(e) : /\ descs[<<e, i>>] = Blob(Encoding(e), ChunkData(e, i))
                               /\ HasBlob(descs[<<e, i>>])
    <3> SUFFICES ASSUME NEW i \in 1..count(e)
                 PROVE  /\ descs[<<e, i>>] = Blob(Encoding(e), ChunkData(e, i))
                        /\ HasBlob(descs[<<e, i>>])
      OBVIOUS
    <3> DEFINE t == <<e, i>>
    <3>1. t \in Tasks /\ t[1] = e /\ t[2] = i
      BY <1>1, <2>1, ParamsAssumption DEF Tasks
    <3>2. tpc[t] # "none"
      BY <1>4 DEF IInv, TaskInv
    <3>3. tpc[t] = "done"
      BY <3>1, <3>2 DEF IInv, TaskInv, Over, Running
    <3>4. egErr = "none"
      BY DEF IInv, EndInv
    <3>5. descs[t] = Wanted(t) /\ HasBlob(descs[t])
      BY <3>1, <3>3, <3>4 DEF IInv, DataInv
    <3> QED
      BY <3>1, <3>5 DEF Wanted
  <2>3. Layers[g].blobs = [i \in 1..count(e) |-> descs[<<e, i>>]]
    BY <1>3, <1>4
  <2>4. [i \in 1..count(e) |-> descs[<<e, i>>]]
          = [i \in 1..count(e) |-> Blob(Encoding(e), ChunkData(e, i))]
    BY <2>2
  <2>5. \A i \in DOMAIN Layers[g].blobs : HasBlob(Layers[g].blobs[i])
    BY <2>2, <2>3
  <2> QED
    BY <1>1, <1>2, <1>4, <2>3, <2>4, <2>5
<1>5. CASE ~Chunked(e)
  <2>1. /\ descs[<<e, 1>>] = Blob(Encoding(e), export[e].data)
        /\ HasBlob(descs[<<e, 1>>])
    BY <1>5 DEF IInv, GroupInv
  <2>2. Layers[g].blobs = <<descs[<<e, 1>>]>>
    BY <1>3, <1>5
  <2>3. \A i \in DOMAIN Layers[g].blobs : HasBlob(Layers[g].blobs[i])
    BY <2>1, <2>2
  <2> QED
    BY <1>1, <1>2, <1>5, <2>1, <2>2, <2>3
<1> QED
  BY <1>4, <1>5

\* The manifest is put: it describes the whole export.
LEMMA ManifestStep == IInv /\ (PutManifest \/ PutManifestLost) => IInv'
<1> SUFFICES ASSUME IInv, PutManifest \/ PutManifestLost PROVE IInv'
  OBVIOUS
<1>1. /\ pc = "manifest" /\ pc' = "returned" /\ manifest' = <<Layers>>
      /\ UNCHANGED <<export, opts, blobs, readVars, taskVars, bufVars, procVars, parentDone>>
      /\ result' \in {"ok", "registry", "canceled"} /\ (result' = "canceled" => parentDone)
  BY DEF PutManifest, PutManifestLost, Return, CallErrs
<1>2. BlobsIntact'
  BY <1>1 DEF IInv, DataInv, BlobsIntact
<1>3. /\ TypeOK' /\ ReadInv' /\ TaskInv' /\ SlotInv' /\ BufInv' /\ DataInv' /\ GroupInv'
      /\ EndInv' /\ ErrInv'
  BY <1>1, <1>2, FinalFrame DEF Errs
<1> PICK m : m = Layers
  OBVIOUS
<1>4. DOMAIN m = DOMAIN groups
  BY GroupFacts DEF IInv, Layers
<1>5. \A g \in DOMAIN m : /\ m[g].file = groups[g] /\ groups[g] \in DOMAIN export
                          /\ Reassembles(m[g].file, m[g].blobs)
                          /\ \A i \in DOMAIN m[g].blobs : HasBlob(m[g].blobs[i])
  BY <1>1, <1>4, LayerFacts, LayerReassembles DEF IInv
<1>6. {m[g].file : g \in DOMAIN m} = {e \in DOMAIN export : export[e].kind = "file"}
  <2>1. \A g \in DOMAIN groups : IsFileAt(groups[g])
    BY DEF IInv, GroupInv
  <2>2. Covered(Len(export))
    BY <1>1 DEF IInv, EndInv, AllRead
  <2>3. \A e \in DOMAIN export : export[e].kind = "file" => \E g \in DOMAIN groups : groups[g] = e
    BY <2>2, ExportFacts DEF IInv, Covered, IsFileAt
  <2> QED
    BY <1>4, <1>5, <2>1, <2>3 DEF IsFileAt
<1>7. \A g, h \in DOMAIN m : g < h => m[g].file < m[h].file
  BY <1>4, <1>5 DEF IInv, GroupInv
<1>8. HasBlob(ConfigBlob)
  BY <1>1 DEF IInv, ManifestInv
<1>9. PublishedComplete'
  <2>1. \A e, bs : Reassembles(e, bs)' = Reassembles(e, bs)
    BY <1>1, Frozen DEF Reassembles
  <2>2. \A d : HasBlob(d)' = HasBlob(d)
    BY <1>1 DEF HasBlob
  <2>3. HasBlob(ConfigBlob)'
    BY <1>1, <1>8 DEF HasBlob, ConfigBlob, Blob
  <2>4. manifest' = <<m>>
    BY <1>1
  <2>5. \A k \in DOMAIN manifest' : manifest'[k] = m
    BY <2>4
  <2>6. {m[g].file : g \in DOMAIN m} = {e \in DOMAIN export' : export'[e].kind = "file"}
    BY <1>1, <1>6
  <2> QED
    BY <1>5, <1>7, <2>1, <2>2, <2>3, <2>5, <2>6 DEF PublishedComplete
<1> QED
  BY <1>1, <1>3, <1>9 DEF IInv, ManifestInv

-----------------------------------------------------------------------------
(* The inductive invariant and what it implies.                            *)

\* The invariant holds when Push is called.
LEMMA InitIInv == Init => IInv
<1> SUFFICES ASSUME Init PROVE IInv
  OBVIOUS
<1>1. TypeOK
  <2>1. NoBlob \in Bytes
    BY DEF NoBlob, Blob, Bytes
  <2>2. export \in Exports /\ Len(export) \in Nat
    BY ExportsAssumption DEF Init
  <2>3. descs \in [Tasks -> Bytes] /\ digest \in [Tasks -> Bytes] /\ outData \in [OutBufs -> Bytes]
    BY <2>1 DEF Init
  <2>4. groups \in Seq(1..MaxEntries) /\ rawData \in [RawBufs -> Seq(Units)]
    BY DEF Init
  <2>5. cfg \in BOOLEAN /\ parentDone \in BOOLEAN /\ closed \in BOOLEAN
    BY DEF Init
  <2> QED
    BY <2>2, <2>3, <2>4, <2>5, ParamsAssumption DEF Init, TypeOK, Errs
<1>2. ReadInv
  BY DEF Init, ReadInv, Chunking, Spooling
<1>3. TaskInv
  BY DEF Init, TaskInv, Chunking, Over, Running
<1>4. SlotInv
  <2>1. Occupied = {}
    BY DEF Init, Occupied, Running
  <2> QED
    BY <2>1, FS_EmptySet, ParamsAssumption DEF SlotInv
<1>5. BufInv
  BY PoolAssumption DEF Init, BufInv, ExclusiveBuffers, OwnsRaw, OwnsOut
<1>6. DataInv
  <2>1. BlobsIntact
    BY DEF Init, BlobsIntact
  <2> QED
    BY <2>1 DEF Init, DataInv
<1>7. GroupInv
  BY DEF Init, GroupInv, Chunking, Spooling
<1>8. EndInv /\ ErrInv
  BY DEF Init, EndInv, ErrInv, CanceledOnlyByCaller
<1>9. ManifestInv
  BY DEF Init, ManifestInv, PublishedComplete
<1> QED
  BY <1>1, <1>2, <1>3, <1>4, <1>5, <1>6, <1>7, <1>8, <1>9 DEF IInv

\* Every step preserves the invariant.
LEMMA NextIInv == IInv /\ [Next]_vars => IInv'
<1> SUFFICES ASSUME IInv, [Next]_vars PROVE IInv'
  OBVIOUS
<1>1. CASE ReaderLocal
  BY <1>1, StopStep, FinishStep, NextEntryStep, CompleteStep, TakeRawStep, FillStep, FillErrStep,
     GoStep DEF ReaderLocal
<1>2. CASE SpoolCall
  BY <1>2, StopStep, CompleteStep, SpoolErrStep DEF SpoolCall
<1>3. CASE FinalCall
  BY <1>3, ConfigStep, ManifestStep DEF FinalCall
<1>4. CASE \E t \in Tasks : TaskLocal(t) \/ TaskCall(t)
  BY <1>4, TakeOutStep, HashRawStep, EncodeStep, BlobMissingStep, TaskEndStep
     DEF TaskLocal, TaskCall
<1>5. CASE ExportOk \/ ExportDies \/ CancelParent \/ Terminated \/ UNCHANGED vars
  BY <1>5, OutsideStep DEF Terminated
<1> QED
  BY <1>1, <1>2, <1>3, <1>4, <1>5 DEF Next

\* The inductive invariant holds in every reachable state.
THEOREM Invariance == Spec => []IInv
<1>1. Init => IInv
  BY InitIInv
<1>2. IInv /\ [Next]_vars => IInv'
  BY NextIInv
<1> QED
  BY <1>1, <1>2, PTL DEF Spec

\* The variables of a push keep their types: no index leaves the arrays of
\* tasks and groups.
THEOREM TypeCorrect == Spec => []TypeOK
<1>1. IInv => TypeOK
  BY DEF IInv
<1> QED
  BY <1>1, Invariance, PTL

\* What is stored under a digest is what was hashed (pushpipeline.go:86-99).
THEOREM BlobsAreIntact == Spec => []BlobsIntact
<1>1. IInv => BlobsIntact
  BY DEF IInv, DataInv
<1> QED
  BY <1>1, Invariance, PTL

\* A manifest the registry accepted describes the whole export, over blobs
\* that are there (push.go:48-92).
THEOREM PublishedIsComplete == Spec => []PublishedComplete
<1>1. IInv => PublishedComplete
  BY DEF IInv, ManifestInv
<1> QED
  BY <1>1, Invariance, PTL

\* No two users of a buffer at the same time.
THEOREM BuffersExclusive == Spec => []ExclusiveBuffers
<1>1. IInv => ExclusiveBuffers
  BY DEF IInv, BufInv
<1> QED
  BY <1>1, Invariance, PTL

\* After eg.Wait no task runs and every buffer is back.
THEOREM NothingLeftInFlight == Spec => []NothingInFlight
<1>1. IInv => NothingInFlight
  <2> SUFFICES ASSUME IInv, Over
               PROVE  /\ \A t \in Tasks : ~Running(t)
                      /\ freeRaw = RawBufs /\ freeOut = OutBufs
    BY DEF NothingInFlight, Over
  <2>1. \A t \in Tasks : ~Running(t)
    BY DEF IInv, TaskInv
  <2>2. \A t \in Tasks : rbuf[t] = NoBuf /\ obuf[t] = NoBuf
    BY <2>1 DEF IInv, BufInv, OwnsRaw, OwnsOut, Running
  <2>3. rheld = NoBuf
    BY DEF IInv, ReadInv, Over
  <2>4. \A b \in RawBufs : b \in freeRaw
    BY <2>2, <2>3, PoolAssumption DEF IInv, BufInv
  <2>5. \A b \in OutBufs : b \in freeOut
    BY <2>2, PoolAssumption DEF IInv, BufInv
  <2>6. freeRaw \subseteq RawBufs /\ freeOut \subseteq OutBufs
    BY DEF IInv, TypeOK
  <2> QED
    BY <2>1, <2>4, <2>5, <2>6
<1> QED
  BY <1>1, Invariance, PTL

\* Push reports a cancellation only if its caller cancelled
\* (pushpipeline.go:245-248).
THEOREM CancelIsTheCallers == Spec => []CanceledOnlyByCaller
<1>1. IInv => CanceledOnlyByCaller
  BY DEF IInv, ErrInv
<1> QED
  BY <1>1, Invariance, PTL

\* If every buffer of a set is borrowed by a task of a set L, there are at
\* least as many tasks in L as buffers.
LEMMA BorrowersBound ==
    ASSUME NEW B, NEW L, IsFiniteSet(B), IsFiniteSet(L), NEW owner,
           \A b \in B : \E t \in L : owner[t] = b
    PROVE  Cardinality(B) <= Cardinality(L)
<1> DEFINE f == [b \in B |-> CHOOSE t \in L : owner[t] = b]
<1>1. \A b \in B : f[b] \in L /\ owner[f[b]] = b
  OBVIOUS
<1>2. f \in Injection(B, L)
  BY <1>1 DEF Injection, IsInjective
<1> QED
  BY <1>2, FS_Injection

\* The reader and the tasks never wait for a buffer: the limit of the errgroup
\* makes both pools large enough for every interleaving.
THEOREM PoolsSuffice == Spec => []TakesNeverBlock
<1>1. IInv => TakesNeverBlock
  <2> SUFFICES ASSUME IInv PROVE TakesNeverBlock
    OBVIOUS
  <2>1. /\ IsFiniteSet(Occupied) /\ Cardinality(Occupied) \in Nat
        /\ Cardinality(Occupied) <= Workers /\ Workers \in Nat
    BY TasksFinite, FS_CardinalityType, ParamsAssumption DEF IInv, SlotInv, Occupied
  <2>2. \A t \in Tasks : (rbuf[t] # NoBuf \/ obuf[t] # NoBuf) => t \in Occupied
    BY DEF IInv, BufInv, OwnsRaw, OwnsOut, Occupied, Running
  <2>3. ASSUME pc = "chunk", freeRaw = {} PROVE FALSE
    <3>1. rheld = NoBuf
      BY <2>3 DEF IInv, ReadInv
    <3>2. \A b \in RawBufs : \E t \in Occupied : rbuf[t] = b
      BY <2>2, <2>3, <3>1, PoolAssumption DEF IInv, BufInv
    <3>3. Cardinality(RawBufs) <= Cardinality(Occupied)
      BY <2>1, <3>2, BorrowersBound, PoolAssumption
    <3> QED
      BY <2>1, <3>3, PoolAssumption
  <2>4. ASSUME freeOut = {} PROVE FALSE
    <3>1. \A b \in OutBufs : \E t \in Occupied : obuf[t] = b
      BY <2>2, <2>4, PoolAssumption DEF IInv, BufInv
    <3>2. Cardinality(OutBufs) <= Cardinality(Occupied)
      BY <2>1, <3>1, BorrowersBound, PoolAssumption
    <3> QED
      BY <2>1, <3>2, PoolAssumption
  <2> QED
    BY <2>3, <2>4 DEF TakesNeverBlock
<1> QED
  BY <1>1, Invariance, PTL

-----------------------------------------------------------------------------
(* Refinement: a push implements PushPublish.                              *)

\* Induction over the naturals, for a set instead of a predicate.
LEMMA Induction ==
    ASSUME NEW S, 0 \in S, \A n \in Nat : n \in S => n + 1 \in S
    PROVE  Nat \subseteq S
<1> DEFINE T == Nat \ S
           R == OpToRel(<, Nat)
<1> SUFFICES ASSUME T # {} PROVE FALSE
  OBVIOUS
<1>1. IsWellFoundedOn(R, Nat)
  BY NatLessThanWellFounded
<1>2. PICK x \in T : \A y \in T : ~(<<y, x>> \in R)
  <2> HIDE DEF R
  <2> QED
    BY <1>1, WFMin
<1>3. x \in Nat /\ x # 0
  OBVIOUS
<1>4. x - 1 \in Nat /\ <<x - 1, x>> \in R
  <2>1. x - 1 \in Nat /\ x - 1 < x
    BY <1>3
  <2> QED
    BY <1>3, <2>1 DEF OpToRel
<1>5. x - 1 \in S
  BY <1>2, <1>4
<1>6. (x - 1) + 1 \in S
  BY <1>4, <1>5, Zenon
<1>7. (x - 1) + 1 = x
  BY <1>3
<1> QED
  BY <1>6, <1>7, Zenon

\* Appending blob after blob gives one sequence.
LEMMA PrefixesUnique ==
    ASSUME NEW bs, NEW n \in Nat, NEW f, NEW h,
           f = [i \in 0..n |-> IF i = 0 THEN <<>> ELSE f[i - 1] \o bs[i].data],
           h = [i \in 0..n |-> IF i = 0 THEN <<>> ELSE h[i - 1] \o bs[i].data]
    PROVE  f[n] = h[n]
<1> DEFINE S == {i \in Nat : i <= n => f[i] = h[i]}
<1>1. 0 \in S
  OBVIOUS
<1>2. ASSUME NEW i \in Nat, i \in S PROVE i + 1 \in S
  <2> SUFFICES ASSUME i + 1 <= n PROVE f[i + 1] = h[i + 1]
    OBVIOUS
  <2>1. i + 1 \in 0..n /\ i + 1 # 0 /\ (i + 1) - 1 = i /\ f[i] = h[i]
    BY <1>2
  <2>2. f[i + 1] = f[i] \o bs[i + 1].data /\ h[i + 1] = h[i] \o bs[i + 1].data
    BY <2>1
  <2> QED
    BY <2>1, <2>2
<1> HIDE DEF S
<1>3. Nat \subseteq S
  BY <1>1, <1>2, Induction
<1> QED
  BY <1>3 DEF S

\* Decoding reaches the last of the prefixes.
LEMMA DecodedIsPrefix ==
    ASSUME NEW bs, Len(bs) \in Nat, NEW f,
           f = [i \in 0..Len(bs) |-> IF i = 0 THEN <<>> ELSE f[i - 1] \o bs[i].data]
    PROVE  Decoded(bs) = f[Len(bs)]
<1> DEFINE h == CHOOSE h : h = [i \in 0..Len(bs) |-> IF i = 0 THEN <<>> ELSE h[i - 1] \o bs[i].data]
<1>1. h = [i \in 0..Len(bs) |-> IF i = 0 THEN <<>> ELSE h[i - 1] \o bs[i].data]
  OBVIOUS
<1>2. Decoded(bs) = h[Len(bs)]
  BY DEF Decoded
<1> HIDE DEF h
<1> QED
  BY <1>1, <1>2, PrefixesUnique

\* Two adjacent pieces of a sequence.
LEMMA AdjacentPieces ==
    ASSUME NEW S, NEW s \in Seq(S), NEW a \in 0..Len(s), NEW b \in a..Len(s)
    PROVE  SubSeq(s, 1, a) \o SubSeq(s, a + 1, b) = SubSeq(s, 1, b)
  BY ConcatAdjacentSubSeq

\* A chunked file decodes to its bytes.
LEMMA ChunkedDecodes ==
    ASSUME TypeOK, NEW e \in DOMAIN export, Chunked(e)
    PROVE  Decoded([i \in 1..count(e) |-> Blob(Encoding(e), ChunkData(e, i))]) = export[e].data
<1> DEFINE C == ChunkSize
           n == count(e)
           s == export[e].data
           end(i) == IF i * C < Size(e) THEN i * C ELSE Size(e)
           bs == [i \in 1..n |-> Blob(Encoding(e), ChunkData(e, i))]
           f == [i \in 0..n |-> SubSeq(s, 1, end(i))]
<1>1. /\ C \in Nat \ {0} /\ Size(e) \in Nat \ {0} /\ n \in Nat \ {0}
      /\ (n - 1) * C < Size(e) /\ Size(e) <= n * C
  BY CountFacts, ParamsAssumption
<1>2. s \in Seq(Units) /\ Len(s) = Size(e)
  BY ExportFacts DEF Size
<1>3. Len(bs) = n /\ \A i \in 1..n : bs[i].data = ChunkData(e, i)
  BY <1>1 DEF Blob
<1>4. \A i \in 1..n : ChunkData(e, i) = SubSeq(s, (i - 1) * C + 1, end(i))
  BY DEF ChunkData
<1> HIDE DEF C, n, s, bs
<1>5. end(0) = 0 /\ end(n) = Size(e)
  <2>1. 0 * C = 0 /\ n * C \in Int
    BY <1>1
  <2> QED
    BY <1>1, <2>1
<1>6. \A i \in 1..n : end(i - 1) = (i - 1) * C /\ end(i - 1) \in 0..Size(e)
                      /\ end(i) \in end(i - 1)..Size(e)
  <2> SUFFICES ASSUME NEW i \in 1..n
               PROVE  end(i - 1) = (i - 1) * C /\ end(i - 1) \in 0..Size(e)
                      /\ end(i) \in end(i - 1)..Size(e)
    OBVIOUS
  <2>1. (i - 1) * C <= (n - 1) * C /\ (i - 1) * C \in Nat /\ (n - 1) * C \in Int
    BY <1>1, Monotone
  <2>2. (i - 1) * C < Size(e)
    BY <1>1, <2>1
  <2>3. (i - 1) * C <= i * C /\ i * C \in Nat
    BY <1>1, Monotone
  <2> QED
    BY <1>1, <2>1, <2>2, <2>3
<1> HIDE DEF end
<1>7. f = [i \in 0..n |-> IF i = 0 THEN <<>> ELSE f[i - 1] \o bs[i].data]
  <2> SUFFICES ASSUME NEW i \in 0..n
               PROVE  SubSeq(s, 1, end(i)) = IF i = 0 THEN <<>> ELSE f[i - 1] \o bs[i].data
    OBVIOUS
  <2>1. CASE i = 0
    BY <1>2, <1>5, <2>1
  <2>2. CASE i # 0
    <3>1. i \in 1..n /\ i - 1 \in 0..n
      BY <1>1, <2>2
    <3>2. f[i - 1] = SubSeq(s, 1, end(i - 1))
      BY <3>1
    <3>3. bs[i].data = SubSeq(s, end(i - 1) + 1, end(i))
      BY <1>3, <1>4, <1>6, <3>1
    <3>4. SubSeq(s, 1, end(i - 1)) \o SubSeq(s, end(i - 1) + 1, end(i)) = SubSeq(s, 1, end(i))
      BY <1>2, <1>6, <3>1, AdjacentPieces
    <3> QED
      BY <2>2, <3>2, <3>3, <3>4
  <2> QED
    BY <2>1, <2>2
<1>8. f[n] = s
  <2>1. f[n] = SubSeq(s, 1, Len(s))
    BY <1>1, <1>2, <1>5
  <2> QED
    BY <1>2, <2>1, SubSeqFull
<1> HIDE DEF f
<1>9. Decoded(bs) = f[n]
  BY <1>1, <1>3, <1>7, DecodedIsPrefix
<1> QED
  BY <1>8, <1>9 DEF bs, n, s

\* A file that is one blob decodes to its bytes.
LEMMA SingleDecodes ==
    ASSUME NEW d, NEW S, d.data \in Seq(S)
    PROVE  Decoded(<<d>>) = d.data
<1> DEFINE f == [i \in 0..1 |-> IF i = 0 THEN <<>> ELSE d.data]
<1>1. Len(<<d>>) = 1 /\ <<d>>[1] = d
  OBVIOUS
<1>2. <<>> \o d.data = d.data
  BY ConcatEmptySeq
<1>3. f = [i \in 0..1 |-> IF i = 0 THEN <<>> ELSE f[i - 1] \o <<d>>[i].data]
  BY <1>1, <1>2
<1>4. f[1] = d.data
  OBVIOUS
<1> HIDE DEF f
<1> QED
  BY <1>1, <1>3, <1>4, DecodedIsPrefix

\* The initial states are initial states of PushPublish.
LEMMA InitRefines == Init => Publication!Init
<1> SUFFICES ASSUME Init PROVE Publication!Init
  OBVIOUS
<1>1. [k \in DOMAIN manifest |-> Described(manifest[k])] = <<>>
  BY DEF Init
<1> QED
  BY <1>1 DEF Init, Publication!Init

\* What a step does to the variables PushPublish is about.
LEMMA StepKinds ==
    ASSUME IInv, [Next]_vars
    PROVE  /\ UNCHANGED export
           /\ \/ UNCHANGED <<blobs, manifest, result>>
              \/ /\ pc # "returned" /\ blobs \subseteq blobs' /\ UNCHANGED manifest
                 /\ result' = result \/ result' \notin {"none", "ok"}
              \/ PutManifest \/ PutManifestLost
<1>1. CASE ReaderLocal
  <2>1. UNCHANGED <<export, blobs, manifest>>
    BY <1>1 DEF ReaderLocal, Export, Params, LoopCancelled, EndOfTar, NextErr, NextEntry,
       ChunksEnqueued, ChunkCancelled, TakeRaw, Fill, FillErr, Go, Wait, Close, Reap, regVars
  <2>2. CASE Export \/ Reap
    <3>1. pc # "returned" /\ (result' = result \/ result' \notin {"none", "ok"})
      BY <2>2 DEF Export, Reap, Return, IInv, TypeOK, Errs
    <3> QED
      BY <2>1, <3>1
  <2>3. CASE ~(Export \/ Reap)
    <3>1. UNCHANGED result
      BY <1>1, <2>3 DEF ReaderLocal, Params, LoopCancelled, EndOfTar, NextErr, NextEntry,
         ChunksEnqueued, ChunkCancelled, TakeRaw, Fill, FillErr, Go, Wait, Close
    <3> QED
      BY <2>1, <3>1
  <2> QED
    BY <2>2, <2>3
<1>2. CASE SpoolCall
  BY <1>2 DEF SpoolCall, SpoolHas, SpoolMissing, SpoolPut, SpoolErr, Store, regVars
<1>3. CASE FinalCall
  BY <1>3 DEF FinalCall, PutConfig, FinalErr, Return, CallErrs, Store, PutManifest, PutManifestLost
<1>4. CASE \E t \in Tasks : TaskLocal(t) \/ TaskCall(t)
  <2> PICK t \in Tasks : TaskLocal(t) \/ TaskCall(t)
    BY <1>4
  <2>1. tpc[t] \notin {"none", "done"}
    BY DEF TaskLocal, TaskCall, TakeOut, Encode, HashRaw, BlobPresent, BlobMissing, PutBlob, TaskErr
  <2>2. pc # "returned"
    BY <2>1 DEF IInv, TaskInv, Over, Running
  <2> QED
    BY <2>2 DEF TaskLocal, TaskCall, TakeOut, Encode, HashRaw, BlobPresent, BlobMissing, PutBlob,
                TaskErr, Store, regVars
<1>5. CASE ExportOk \/ ExportDies \/ CancelParent \/ Terminated \/ UNCHANGED vars
  BY <1>5 DEF ExportOk, ExportDies, CancelParent, Terminated, vars, regVars
<1> QED
  BY <1>1, <1>2, <1>3, <1>4, <1>5 DEF Next

\* The digests the registry holds the right bytes for, and the files.
Good == {b.digest : b \in {x \in blobs : x.bytes = x.digest}}
Content == {<<e, export[e].data>> : e \in Files}
Published == [k \in DOMAIN manifest |-> Described(manifest[k])]
Outcome == IF result \in {"none", "ok"} THEN result ELSE "error"

\* A push that has not returned is running for PushPublish too.
LEMMA RunningMaps ==
    ASSUME IInv, pc # "returned"
    PROVE  Published = <<>> /\ Outcome = "none"
<1>1. manifest = <<>> /\ result = "none"
  BY DEF IInv, ManifestInv, ErrInv
<1> QED
  BY <1>1 DEF Published, Outcome

\* Putting the manifest publishes the files of the export over blobs that are
\* there.
LEMMA PublishMaps ==
    ASSUME IInv, PutManifest \/ PutManifestLost
    PROVE  /\ Published = <<>> /\ Outcome = "none"
           /\ Len(Published') = 1
           /\ {Published'[1].files[g] : g \in DOMAIN Published'[1].files} = Content
           /\ \A g, h \in DOMAIN Published'[1].files :
                g < h => Published'[1].files[g][1] < Published'[1].files[h][1]
           /\ Published'[1].refs \subseteq Good
           /\ Outcome' \in {"ok", "error"}
           /\ Content' = Content /\ Good' = Good
<1>1. /\ pc = "manifest" /\ manifest' = <<Layers>> /\ UNCHANGED <<export, blobs>>
      /\ result' \in {"ok", "registry", "canceled"}
  BY DEF PutManifest, PutManifestLost, Return, CallErrs
<1>2. Published = <<>> /\ Outcome = "none"
  BY <1>1, RunningMaps
<1>3. Content' = Content /\ Good' = Good /\ Outcome' \in {"ok", "error"}
  BY <1>1 DEF Content, Good, Outcome, Files
<1> DEFINE m == Layers
           d == Described(m)
<1>4. Published' = <<d>>
  <2>1. Published' = [k \in DOMAIN manifest' |-> Described(manifest'[k])]
    BY DEF Published, Described
  <2> HIDE DEF d
  <2>2. DOMAIN manifest' = {1} /\ manifest'[1] = m
    BY <1>1
  <2>3. Published' = [k \in {1} |-> d]
    BY <2>1, <2>2 DEF d
  <2> QED
    BY <2>3
<1>5. DOMAIN m = DOMAIN groups
  BY GroupFacts DEF IInv, Layers
<1>6. \A g \in DOMAIN groups : /\ m[g].file = groups[g] /\ groups[g] \in DOMAIN export
                               /\ Decoded(m[g].blobs) = export[groups[g]].data
  <2> SUFFICES ASSUME NEW g \in DOMAIN groups
               PROVE  /\ m[g].file = groups[g] /\ groups[g] \in DOMAIN export
                      /\ Decoded(m[g].blobs) = export[groups[g]].data
    OBVIOUS
  <2>1. /\ m[g].file = groups[g] /\ groups[g] \in DOMAIN export
        /\ m[g].blobs = IF Chunked(groups[g])
                        THEN [i \in 1..count(groups[g]) |->
                                Blob(Encoding(groups[g]), ChunkData(groups[g], i))]
                        ELSE <<Blob(Encoding(groups[g]), export[groups[g]].data)>>
    BY <1>1, LayerFacts
  <2>2. CASE Chunked(groups[g])
    BY <2>1, <2>2, ChunkedDecodes DEF IInv
  <2>3. CASE ~Chunked(groups[g])
    <3> DEFINE b == Blob(Encoding(groups[g]), export[groups[g]].data)
    <3>1. b.data = export[groups[g]].data /\ export[groups[g]].data \in Seq(Units)
      BY <2>1, ExportFacts DEF IInv, Blob
    <3>2. m[g].blobs = <<b>>
      BY <2>1, <2>3
    <3> HIDE DEF b
    <3>3. Decoded(<<b>>) = b.data
      BY <3>1, SingleDecodes
    <3> QED
      BY <2>1, <3>1, <3>2, <3>3
  <2> QED
    BY <2>2, <2>3
<1>7. \A g \in DOMAIN m : \A i \in DOMAIN m[g].blobs : m[g].blobs[i] \in Good
  <2>1. \A g \in DOMAIN m : \A i \in DOMAIN m[g].blobs : HasBlob(m[g].blobs[i])
    BY <1>1, <1>5, LayerFacts
  <2> QED
    BY <2>1 DEF HasBlob, Good, IInv, DataInv, BlobsIntact
<1>8. ConfigBlob \in Good
  BY <1>1 DEF IInv, ManifestInv, HasBlob, Good, DataInv, BlobsIntact
<1> HIDE DEF m
<1>9. d.refs \subseteq Good
  BY <1>7, <1>8 DEF Described
<1>10. d.files = [g \in DOMAIN groups |-> <<groups[g], export[groups[g]].data>>]
  BY <1>5, <1>6 DEF Described
<1>11. /\ DOMAIN d.files = DOMAIN groups
       /\ \A g \in DOMAIN groups : /\ d.files[g] = <<groups[g], export[groups[g]].data>>
                                   /\ d.files[g][1] = groups[g]
  BY <1>10
<1> HIDE DEF d
<1>12. {d.files[g] : g \in DOMAIN d.files} = Content
  <2>1. \A g \in DOMAIN groups : groups[g] \in Files
    BY DEF IInv, GroupInv, IsFileAt, Files
  <2>2. \A e \in Files : \E g \in DOMAIN groups : groups[g] = e
    <3>1. Covered(Len(export))
      BY <1>1 DEF IInv, EndInv, AllRead
    <3> QED
      BY <3>1, ExportFacts DEF IInv, Covered, IsFileAt, Files
  <2>3. \A g \in DOMAIN d.files : d.files[g] \in Content
    BY <1>11, <2>1 DEF Content
  <2>4. \A c \in Content : \E g \in DOMAIN d.files : d.files[g] = c
    <3> SUFFICES ASSUME NEW e \in Files
                 PROVE  \E g \in DOMAIN d.files : d.files[g] = <<e, export[e].data>>
      BY DEF Content
    <3>1. PICK g \in DOMAIN groups : groups[g] = e
      BY <2>2
    <3> QED
      BY <1>11, <3>1
  <2> QED
    BY <2>3, <2>4
<1>13. \A g, h \in DOMAIN d.files : g < h => d.files[g][1] < d.files[h][1]
  BY <1>11 DEF IInv, GroupInv
<1>14. Len(Published') = 1 /\ Published'[1] = d
  BY <1>4
<1> QED
  BY <1>2, <1>3, <1>9, <1>12, <1>13, <1>14

\* Every step is a step of PushPublish or leaves its variables alone.
LEMMA StepRefines == IInv /\ [Next]_vars => [Publication!Next]_(Publication!vars)
<1> SUFFICES ASSUME IInv, [Next]_vars PROVE [Publication!Next]_(Publication!vars)
  OBVIOUS
<1>1. Content' = Content
  BY StepKinds DEF Content, Files
<1>2. CASE UNCHANGED <<blobs, manifest, result>>
  BY <1>1, <1>2 DEF Publication!vars, Content, Described
<1>3. CASE /\ pc # "returned" /\ blobs \subseteq blobs' /\ UNCHANGED manifest
           /\ result' = result \/ result' \notin {"none", "ok"}
  <2>1. Published = <<>> /\ Outcome = "none" /\ Good \subseteq Good' /\ Published' = Published
    BY <1>3, RunningMaps DEF Good, Published, Described
  <2>2. Outcome' = Outcome \/ Outcome' = "error"
    BY <1>3 DEF Outcome
  <2> QED
    BY <1>1, <2>1, <2>2 DEF Content, Published, Outcome, Good, Publication!vars, Publication!Next,
       Publication!Upload, Publication!Fail, Publication!Running
<1>4. CASE PutManifest \/ PutManifestLost
  BY <1>4, PublishMaps DEF Content, Published, Outcome, Good, Publication!Next,
     Publication!Publish, Publication!Running, Publication!Lists
<1> QED
  BY <1>2, <1>3, <1>4, StepKinds

\* A push implements PushPublish: nothing, or one manifest of the whole export
\* over blobs that are there, and no change after the return (push.go:48-92).
THEOREM PushRefines == Spec => ImplementsPushPublish
<1>1. Init => Publication!Init
  BY InitRefines
<1>2. IInv /\ [Next]_vars => [Publication!Next]_(Publication!vars)
  BY StepRefines
<1> QED
  BY <1>1, <1>2, Invariance, PTL DEF Spec, ImplementsPushPublish, Publication!Spec
=============================================================================
