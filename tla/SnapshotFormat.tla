--------------------------- MODULE SnapshotFormat ---------------------------
(***************************************************************************)
(* The wire format between the two halves of package snapshot: the         *)
(* manifest and the config blob a push publishes, and what Stream makes of *)
(* them before it moves the first chunk (snapshot/push.go,                 *)
(* snapshot/pull.go, snapshot/pullencoded.go, package manifest).           *)
(*                                                                         *)
(* An export is pushed; the manifest is read back as it is, or as a        *)
(* different writer would have written it.  The digest of a blob is the    *)
(* blob, a media type is its base and whether it ends in +zstd, and bytes  *)
(* are counted in units of half a MiB.                                     *)
(***************************************************************************)
EXTENDS TransferBudget, Sequences, FiniteSets, SequencesExt, FiniteSetsExt

CONSTANTS Exports,        \* exports: sequences of files with distinct names
          PushModes,      \* [zstd : BOOLEAN, chunk : Nat] of a push
          PullModes,      \* [prefetch, budgetMiB] of a pull
          maxSnapshotConfigSize,  \* how large a config Stream reads
          VMTypes,        \* snapshotFilenameMediaType: file name to media type
          Qcow2Names, RawNames  \* other names that end in .qcow2 and .raw

\* A file is [name, data, mode, sparse].
ASSUME FormatAssumption ==
    /\ \A x \in Exports :
         /\ x \in Seq({x[k] : k \in DOMAIN x})
         /\ \A k \in DOMAIN x : x[k].data \in Seq({x[k].data[i] : i \in DOMAIN x[k].data})
         /\ \A j, k \in DOMAIN x : x[j].name = x[k].name => j = k
    /\ PushModes \subseteq [zstd : BOOLEAN, chunk : Nat]
    /\ PullModes \subseteq [prefetch : Int, budgetMiB : Int]
    /\ maxSnapshotConfigSize \in Nat

None == "none"
NoTitle == ""

\* compressMinBytes is 1 MiB.
compressMin == MiB

VARIABLES export,   \* the files of the export
          mode,     \* how it is pushed
          writer,   \* "this", or how the manifest differs from this pusher's
          m, cfg,   \* the manifest, and the config blob under it
          pull,     \* the StreamOptions that size the pipeline
          pc, err,  \* where Stream is, and why it failed
          entries,  \* the layer plan
          pipe      \* the chunk pipeline: [window, inputCap, outputCap]

vars == <<export, mode, writer, m, cfg, pull, pc, err, entries, pipe>>

-----------------------------------------------------------------------------
(* Package manifest.                                                       *)

Type(base) == [base |-> base, zstd |-> FALSE]
ZstdMediaType(mt) == [mt EXCEPT !.zstd = TRUE]
IsZstdMediaType(mt) == mt.zstd
StripZstd(mt) == [mt EXCEPT !.zstd = FALSE]

\* Fault: file types the pusher writes are missing from the reader's list.
IsSnapshotLayerMediaType_NoRaw(mt) ==
    StripZstd(mt).base \in {"vm.config", "vm.memory", "disk.qcow2", "generic"}

IsSnapshotLayerMediaType(mt) ==
    StripZstd(mt).base \in {"vm.config", "vm.state", "vm.memory", "vm.cidata",
                            "disk.qcow2", "disk.raw", "generic"}

MediaTypeForCocoonFile(name) ==
    Type(IF name \in DOMAIN VMTypes THEN VMTypes[name]
         ELSE IF name \in Qcow2Names THEN "disk.qcow2"
         ELSE IF name \in RawNames THEN "disk.raw"
         ELSE "generic")

\* classifyFields: the artifact type decides first, then the config's type.
ClassifyParsed(x) ==
    IF x.artifact \in {"os-image", "windows-image"} THEN "cloud-image"
    ELSE IF x.artifact \in {"snapshot.v1", "snapshot.v2"} THEN "snapshot"
    ELSE IF x.config \in {"oci.config", "docker.config"} THEN "container-image"
    ELSE IF x.type = "index" THEN "image-index"
    ELSE "unknown"

-----------------------------------------------------------------------------
(* What Push publishes.                                                    *)

Blob(enc, data) == [enc |-> enc, data |-> data]
\* A frame is as long as there are different units in it.
StoredSize(b) == IF b.enc = "raw" THEN Len(b.data) ELSE Cardinality(ToSet(b.data))

compress(f) == mode.zstd /\ Len(f.data) >= compressMin
Encoded(f) == compress(f) \/ (mode.chunk > 0 /\ Len(f.data) > mode.chunk)
Chunked(f) == mode.chunk > 0 /\ Encoded(f)
count(f) == IF Chunked(f) THEN (Len(f.data) + mode.chunk - 1) \div mode.chunk ELSE 1

\* The bytes of the i-th blob of a file, and its descriptor.
Part(f, i) == IF Chunked(f)
              THEN SubSeq(f.data, (i - 1) * mode.chunk + 1, AtMost(i * mode.chunk, Len(f.data)))
              ELSE f.data
Descriptor(f, i) ==
    LET b == Blob(IF compress(f) THEN "zstd" ELSE "raw", Part(f, i))
        mt == MediaTypeForCocoonFile(f.name)
    IN  [type |-> IF compress(f) THEN ZstdMediaType(mt) ELSE mt,
         digest |-> b, size |-> StoredSize(b), title |-> f.name]
Descriptors(f) == [i \in 1..count(f) |-> Descriptor(f, i)]

\* sparseFileMeta and the chunk list of a file that was split.
FileMeta(f) == [mode |-> f.mode, sparse |-> f.sparse, size |-> Len(f.data),
                chunks |-> IF count(f) < 2 THEN <<>>
                           ELSE [i \in 1..count(f) |-> Descriptor(f, i).digest]]

\* Fault: a split file alone does not make the artifact a v2 one.
snapshotVersionMarkers_ZstdOnly ==
    IF \E k \in DOMAIN export : compress(export[k])
    THEN [schema |-> "v2", artifact |-> "snapshot.v2"]
    ELSE [schema |-> "v1", artifact |-> "snapshot.v1"]

snapshotVersionMarkers ==
    IF \E k \in DOMAIN export : Encoded(export[k])
    THEN [schema |-> "v2", artifact |-> "snapshot.v2"]
    ELSE [schema |-> "v1", artifact |-> "snapshot.v1"]

buildSnapshotManifest ==
    [artifact |-> snapshotVersionMarkers.artifact, type |-> "manifest",
     config |-> "snapshot.config",
     layers |-> FlattenSeq([k \in DOMAIN export |-> Descriptors(export[k])])]

\* uploadSnapshotConfig: the whole snapshot.json config is kept as Engine.
SnapshotConfig ==
    [schema |-> snapshotVersionMarkers.schema,
     engine |-> [name |-> "exported", rest |-> "engine fields"],
     files |-> [name \in {export[k].name : k \in DOMAIN export} |->
                  FileMeta(CHOOSE f \in ToSet(export) : f.name = name)]]

NoSparse == [map |-> "", size |-> 0]

\* What the engine names its files and says of their holes (a file without a
\* sparse map has no sparse size, one with a map may have any), and what the
\* table snapshotFilenameMediaType has.
ASSUME EngineAssumption ==
    /\ \A x \in Exports : \A k \in DOMAIN x :
         /\ x[k].name # NoTitle
         /\ x[k].sparse \in [map : STRING, size : Int]
         /\ x[k].sparse.map = NoSparse.map => x[k].sparse.size = 0
    /\ \A name \in DOMAIN VMTypes :
         VMTypes[name] \in {"vm.config", "vm.state", "vm.memory", "vm.cidata", "disk.qcow2"}

NoEngine == [name |-> None, rest |-> None]
NoMeta == [mode |-> 0, sparse |-> NoSparse, size |-> 0, chunks |-> <<>>]
Meta(c, name) == IF name \in DOMAIN c.files THEN c.files[name] ELSE NoMeta

NoManifest == [artifact |-> None, type |-> None, config |-> None, layers |-> <<>>]
NoConfig == [schema |-> None, engine |-> NoEngine, files |-> <<>>]
NoPipe == [window |-> 0, inputCap |-> 0, outputCap |-> 0]

Init == /\ export \in Exports /\ mode \in PushModes
        /\ pull = [prefetch |-> 0, budgetMiB |-> 0]
        /\ writer = "this" /\ m = NoManifest /\ cfg = NoConfig
        /\ pc = "push" /\ err = None /\ entries = <<>> /\ pipe = NoPipe

Push == /\ pc = "push"
        /\ m' = buildSnapshotManifest /\ cfg' = SnapshotConfig
        /\ pc' = "published"
        /\ UNCHANGED <<export, mode, writer, pull, err, entries, pipe>>

\* The same snapshot by another writer: older or newer than this one, or a
\* copying tool.
OtherWriter(w, manifest, config) ==
    /\ writer' = w /\ m' = manifest /\ cfg' = config
    /\ UNCHANGED <<export, mode, pull, pc, err, entries, pipe>>

WithLayer(k, layer) == [m EXCEPT !.layers[k] = layer]
WithFiles(files) == [cfg EXCEPT !.files = files]
IsSplit(k) == cfg.files[m.layers[k].title].chunks # <<>>

Rewrite ==
    /\ pc = "published" /\ writer = "this"
    /\ \/ OtherWriter("v1 marker", [m EXCEPT !.artifact = "snapshot.v1"], cfg)
       \/ \E kind \in {"os-image", None} :
            OtherWriter("other kind", [m EXCEPT !.artifact = kind], cfg)
       \/ \E k \in DOMAIN m.layers :
            \/ OtherWriter("new media type",
                           WithLayer(k, [m.layers[k] EXCEPT !.type = Type("future")]), cfg)
            \/ OtherWriter("no title",
                           WithLayer(k, [m.layers[k] EXCEPT !.title = NoTitle]), cfg)
            \/ OtherWriter("negative size",
                           WithLayer(k, [m.layers[k] EXCEPT !.size = -1]), cfg)
            \/ OtherWriter(IF IsSplit(k) THEN "chunk missing" ELSE "file missing",
                           [m EXCEPT !.layers = RemoveAt(@, k)], cfg)
            \/ OtherWriter(IF IsSplit(k) THEN "chunk repeated" ELSE "file repeated",
                           [m EXCEPT !.layers = Append(@, m.layers[k])], cfg)
       \/ OtherWriter("layers reversed", [m EXCEPT !.layers = Reverse(@)], cfg)
       \/ OtherWriter("no sizes", m, WithFiles(
                        [name \in DOMAIN cfg.files |-> [cfg.files[name] EXCEPT !.size = 0]]))
       \/ OtherWriter("no sparse sizes", m, WithFiles(
                        [name \in DOMAIN cfg.files |-> [cfg.files[name] EXCEPT !.sparse.size = 0]]))
       \/ OtherWriter("chunk dropped", m, WithFiles(
                        [name \in DOMAIN cfg.files |->
                           [cfg.files[name] EXCEPT !.chunks = IF @ = <<>> THEN @ ELSE Tail(@)]]))
       \/ OtherWriter("config type", [m EXCEPT !.config = "future"], cfg)
       \/ OtherWriter("no engine", m, [cfg EXCEPT !.engine = NoEngine])
       \/ \E platform \in {"linux/amd64", "linux/arm64"} :
            OtherWriter(platform, [artifact |-> None, type |-> "index", config |-> None,
                                   layers |-> <<m>>], cfg)

-----------------------------------------------------------------------------
(* Stream.                                                                 *)

Fail(e) == pc' = "failed" /\ err' = e /\ UNCHANGED <<m, entries, pipe>>
Goto(where) == pc' = where /\ UNCHANGED err

\* Stream: an index is resolved to its linux/amd64 child, then the kind of
\* manifest must be right.
pickIndexChild ==
    /\ pc = "published" /\ ClassifyParsed(m) = "image-index"
    /\ \/ writer # "linux/amd64" /\ Fail("no child")
       \/ writer = "linux/amd64" /\ Fail("fetch")
       \/ /\ writer = "linux/amd64" /\ m' = m.layers[1]
          /\ Goto("resolved") /\ UNCHANGED <<entries, pipe>>
    /\ UNCHANGED <<export, mode, writer, cfg, pull>>

NotIndex ==
    /\ pc = "published" /\ ClassifyParsed(m) # "image-index"
    /\ Goto("resolved")
    /\ UNCHANGED <<export, mode, writer, m, cfg, pull, entries, pipe>>

\* The size of a config blob: a unit for every file, with its sparse map, and one
\* for every digest of its chunk list.
ConfigSize(c) == MapThenSumSet(LAMBDA name : 1 + Len(c.files[name].chunks), DOMAIN c.files)

\* A config above the cap is refused, by its descriptor's size or while it is read.
FetchSnapshotConfig ==
    /\ pc = "resolved"
    /\ IF ClassifyParsed(m) # "snapshot" THEN Fail("not a snapshot")
       ELSE IF m.config # "snapshot.config" THEN Fail("config type")
       ELSE IF ConfigSize(cfg) > maxSnapshotConfigSize THEN Fail("config too large")
       ELSE \/ Fail("fetch")
            \/ Goto("fetched") /\ UNCHANGED <<m, entries, pipe>>
    /\ UNCHANGED <<export, mode, writer, cfg, pull>>

\* validateSnapshotLayers
LayersValid ==
    LET encoded == m.artifact = "snapshot.v2"
    IN  /\ \A k \in DOMAIN m.layers :
             LET layer == m.layers[k]
             IN  /\ layer.size >= 0 /\ IsSnapshotLayerMediaType(layer.type)
                 /\ layer.title # NoTitle /\ (IsZstdMediaType(layer.type) => encoded)
        /\ ~encoded => \A name \in DOMAIN cfg.files : cfg.files[name].chunks = <<>>

Validate ==
    /\ pc = "fetched"
    /\ IF LayersValid THEN Goto("valid") /\ UNCHANGED <<m, entries, pipe>>
       ELSE Fail("invalid")
    /\ UNCHANGED <<export, mode, writer, cfg, pull>>

\* planLayers: the entry a layer stands for.  An encoded file has an entry
\* for its first layer only, which reads every chunk its config lists.
IsEncoded(layer) == Meta(cfg, layer.title).chunks # <<>> \/ IsZstdMediaType(layer.type)

Emits(k) == IsEncoded(m.layers[k]) =>
              \A j \in 1..(k - 1) : m.layers[j].title = m.layers[k].title
                                      => ~IsEncoded(m.layers[j])

\* Fault: the layers of the manifest in their own order, not the config's.
resolveEncodedFile_LayerOrder(layer) ==
    LET meta == Meta(cfg, layer.title)
    IN  IF meta.chunks = <<>> THEN <<layer>>
        ELSE SelectSeq(m.layers, LAMBDA d : d.title = layer.title)

\* resolveEncodedFile: the chunk list of the config, resolved by digest (any
\* layer with that digest has the same bytes).
resolveEncodedFile(layer) ==
    LET meta == Meta(cfg, layer.title)
    IN  IF meta.chunks = <<>> THEN <<layer>>
        ELSE [i \in DOMAIN meta.chunks |->
                CHOOSE d \in ToSet(m.layers) : d.digest = meta.chunks[i]]

Resolvable(layer) ==
    /\ Meta(cfg, layer.title).size > 0
    /\ ToSet(Meta(cfg, layer.title).chunks) \subseteq {d.digest : d \in ToSet(m.layers)}

Entry(layer) ==
    [title |-> layer.title, meta |-> Meta(cfg, layer.title), layer |-> layer,
     encoded |-> IsEncoded(layer),
     chunks |-> IF IsEncoded(layer) THEN resolveEncodedFile(layer) ELSE <<>>]

\* The entries of the layers, one after another.
Planned ==
    LET plan[n \in 0..Len(m.layers)] ==
          IF n = 0 THEN <<>>
          ELSE IF Emits(n) THEN Append(plan[n - 1], Entry(m.layers[n]))
          ELSE plan[n - 1]
    IN  plan[Len(m.layers)]

planLayers ==
    /\ pc = "valid"
    /\ IF \E k \in DOMAIN m.layers : /\ Emits(k) /\ IsEncoded(m.layers[k])
                                     /\ ~Resolvable(m.layers[k])
       THEN Fail("unresolvable")
       ELSE entries' = Planned /\ Goto("planned") /\ UNCHANGED <<m, pipe>>
    /\ UNCHANGED <<export, mode, writer, cfg, pull>>

\* bufferCaps of one entry.
Stored(e) == {e.chunks[i].size : i \in DOMAIN e.chunks}
inputCap(e) == IF IsZstdMediaType(e.layer.type) THEN Max(Stored(e)) ELSE 0
outputCap(e) == IF IsZstdMediaType(e.layer.type)
                THEN rawChunkStride(e.meta.size, Len(e.chunks)) ELSE Max(Stored(e))

\* newChunkPipeline: one set of buffers for all the files that were split.
newChunkPipeline ==
    /\ pc = "planned"
    /\ pull' \in PullModes
    /\ LET split == {e \in ToSet(entries) : e.encoded /\ Len(e.chunks) >= 2}
           in  == Max({0} \cup {inputCap(e) : e \in split})
           out == Max({0} \cup {outputCap(e) : e \in split})
       IN  pipe' = [window |-> PrefetchWindow(Concurrency(pull'.prefetch),
                                              PullBudget(pull'.budgetMiB), in, out),
                    inputCap |-> in, outputCap |-> out]
    /\ Goto("streaming")
    /\ UNCHANGED <<export, mode, writer, m, cfg, entries>>

\* The header of an entry: files without a mode get 0640, and only files with a
\* sparse map get a sparse size.
layerHeader(e) ==
    [name |-> e.title, size |-> IF e.encoded THEN e.meta.size ELSE e.layer.size,
     mode |-> IF e.meta.mode = 0 THEN 640 ELSE e.meta.mode,
     sparse |-> IF e.meta.sparse.map = NoSparse.map THEN NoSparse ELSE e.meta.sparse]

\* layerHeader refuses a sparse map without a size when it reaches the entry.
NoSparseSize(sparse) == sparse.map # NoSparse.map /\ sparse.size <= 0
HeaderRefused(e) == NoSparseSize(e.meta.sparse)

\* exportEnvelope: the engine's own object with the name replaced, or the typed
\* fields of a config that has none.
exportEnvelope(localName) ==
    IF cfg.engine = NoEngine THEN [name |-> localName, rest |-> "typed fields"]
    ELSE [cfg.engine EXCEPT !.name = localName]

Stopped == pc \in {"failed", "streaming"} /\ UNCHANGED vars

Next == \/ Push \/ Rewrite \/ pickIndexChild \/ NotIndex \/ FetchSnapshotConfig
        \/ Validate \/ planLayers \/ newChunkPipeline \/ Stopped

Spec == Init /\ [][Next]_vars

-----------------------------------------------------------------------------
(* Properties.                                                             *)

\* What the layers of an entry decode to, and whether the reader decodes them
\* the way they were encoded.
Blobs(e) == IF e.encoded THEN [i \in DOMAIN e.chunks |-> e.chunks[i].digest]
            ELSE <<e.layer.digest>>
Assembled(e) == FlattenSeq([i \in DOMAIN Blobs(e) |-> Blobs(e)[i].data])
DecodedAsEncoded(e) ==
    \A b \in ToSet(Blobs(e)) :
        b.enc = IF IsZstdMediaType(e.layer.type) THEN "zstd" ELSE "raw"

\* The size checks of streamFile and BlobSizeChecker let the entry through.
SizeChecked(e) == Len(Assembled(e)) = layerHeader(e).size

\* The entry is file f, byte for byte, under its own header.
Delivers(e, f) ==
    /\ DecodedAsEncoded(e) /\ Assembled(e) = f.data
    /\ layerHeader(e) = [name |-> f.name, size |-> Len(f.data), sparse |-> f.sparse,
                         mode |-> IF f.mode = 0 THEN 640 ELSE f.mode]

\* What this pusher publishes, this reader reads, whatever the options, with two
\* exceptions that a push does not look for: a config above the reader's cap
\* (pull.go:91, 103) and a file whose sparse map came without a positive size
\* (pull.go:293).  No other check of Stream refuses the manifest, and the import
\* tar has every file of the export in order, under the engine's own config with
\* only its name replaced.  The knowledge this needs is spread over push, manifest
\* and pull: media types against the reader's list, chunk lists, version markers.
PushedIsPullable ==
    writer = "this" =>
        /\ err \in {None, "fetch", "config too large"}
        /\ err = "config too large" => ConfigSize(SnapshotConfig) > maxSnapshotConfigSize
        /\ pc = "streaming" =>
             /\ Len(entries) = Len(export)
             /\ \A k \in DOMAIN entries :
                  /\ SizeChecked(entries[k]) /\ Delivers(entries[k], export[k])
                  /\ HeaderRefused(entries[k]) => NoSparseSize(export[k].sparse)
             /\ exportEnvelope("local") = [name |-> "local", rest |-> "engine fields"]

\* What planLayers (pull.go:251-283) makes of a manifest by another writer: an
\* entry that passes the checks is the file of its title, byte for byte, decoded
\* as it was encoded and under that file's own header.  Which files there are is
\* the manifest's business alone, every title of its layers and no other: nothing
\* compares them with the files of the config.  So a chunk that is missing,
\* repeated or out of place is refused or does no harm, and every file is there
\* once, unless the only layer of a file is missing or repeated: then the tar
\* lacks the file or has it twice, without an error.
NeverMisassembled ==
    pc = "streaming" =>
        LET titles == {e.title : e \in ToSet(entries)}
        IN  /\ \A e \in ToSet(entries) : SizeChecked(e) /\ ~HeaderRefused(e) =>
                 \E k \in DOMAIN export : e.title = export[k].name /\ Delivers(e, export[k])
            /\ titles = {d.title : d \in ToSet(m.layers)}
            /\ writer \notin {"file missing", "file repeated"} =>
                 /\ Len(entries) = Len(export)
                 /\ titles = {f.name : f \in ToSet(export)}

\* A v1 artifact is one raw layer per file, in order, so that a reader that
\* knows nothing of chunks and zstd restores it; anything else is marked v2,
\* which such a reader refuses (snapshotVersionMarkers, push.go:214-220).
V1ReadersUnharmed ==
    pc = "published" /\ writer = "this" /\ m.artifact = "snapshot.v1" =>
        /\ Len(m.layers) = Len(export)
        /\ \A k \in DOMAIN m.layers : /\ m.layers[k].title = export[k].name
                                       /\ m.layers[k].digest = Blob("raw", export[k].data)
                                       /\ ~IsZstdMediaType(m.layers[k].type)

\* The buffers of a prefetching pull hold every chunk it is going to put in
\* them, stored and decoded, and all of them together are within the budget.
\* The reader knows the raw size of a chunk only through rawChunkStride
\* (pullencoded.go:318-323), and a decoder that runs out of room fails the pull.
PrefetchFits ==
    pc = "streaming" /\ pipe.window > 0 =>
        /\ \A e \in ToSet(entries) : e.encoded /\ Len(e.chunks) >= 2 =>
             \A i \in DOMAIN e.chunks :
                 /\ Len(e.chunks[i].digest.data) <= pipe.outputCap
                 /\ IsZstdMediaType(e.layer.type) => e.chunks[i].size <= pipe.inputCap
        /\ pipe.window * pipe.inputCap + (pipe.window + 1) * pipe.outputCap
             <= PullBudget(pull.budgetMiB)
=============================================================================
