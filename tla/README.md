# Verification of cocoon-common

TLA+ models of the concurrent and stateful parts of cocoon-common, the TLC runs
that check small instances of them, and TLAPS proofs that hold for every
instance. `PROJECT.json` lists the components, the runs, the mutants, the map
from definitions to source lines, the hazards and the theorems.

To run a check: `tlc -workers 2 -config <cfg> <module>`; to check a proof:
`tlapm <module>.tla`.

## 1. The system

cocoon-common is the library the Cocoon VM services share. Most of its packages
declare types, constants and string helpers; the behaviour is in these parts.

| Part | State | Operations | Who else is involved |
|---|---|---|---|
| snapshot push (`snapshot/push.go`, `pushpipeline.go`) | two buffer pools, an errgroup with its context, the descriptors of every file, the tar position | `Push`, `readAndUploadEntries`, `enqueueChunks`, `uploadChunk`, `uploadSpooled`, `putBlobIfMissing` | the `cocoon snapshot export` subprocess behind a pipe, the registry, the caller's context |
| snapshot pull (`snapshot/pull.go`, `pullencoded.go`) | the import tar, the channel of futures, two buffer pools, a shared zstd decoder, one context per file | `Stream`, `writeImportTar`, `streamFile`, `newChunkSource`, `fetch`, `WriteTo`, `drain` | the registry, the tar's consumer, the caller's context |
| transfer sizing (`pipelineParams`, `newChunkPipeline`, `rawChunkStride`, `bufPool`) | buffer capacities | sizes workers, chunks, window and buffers for a memory budget | both pipelines |
| wire format (`snapshot`, `manifest`) | the manifest and the config blob | `buildSnapshotManifest`, `uploadSnapshotConfig`, `validateSnapshotLayers`, `planLayers`, `resolveEncodedFile` | writers and readers of other versions |
| httpx (`httpx/httpx.go`) | server goroutines, two error slices, two contexts | `Run` | net/http, clients, the caller's context |
| ociutil (`ociutil/ociutil.go`) | `BlobSizeChecker`: a limit and a done flag | `Read`, `finish` | the body of an HTTP response |
| oci (`oci/oci.go`) | one puller per client, one pusher per upload session, which remembers what it has sent | `GetManifest`, `GetBlob`, `HasBlob`, `HasManifest`, `PutBlob`, `PutManifest`, `DeleteManifest`, `UploadSession` | the registry; vk-cocoon, which pushes and pulls; cocoon-operator, which probes and deletes |
| meta naming (`meta/vmname.go`, `owner.go`, `vmspec.go`) | none: names encode set and slot | `VMNameForPod`, `ExtractAgentSlot`, `RoleForPod`, `ShouldSnapshotVM` | both programs derive roles from names |
| meta lifecycle (`meta/lifecycle.go`, `hibernate.go`; `k8s/clientpatch.go`, `patch.go`) | annotations of a pod | `StampCocoonSetGeneration`, `HibernateState.Apply`, `LifecycleStatus.Annotations`, `Snapshot`, `Patch` | operator and vk-cocoon write the same object, clients read it |
| cloudimg (`cloudimg/cloudimg.go`) | the layers still to copy | `Stream`, `StreamParsed` | the registry, a writer |
| k8s helpers (`k8s/tls.go`, `ctx.go`) | a key pair on disk, a ticker, a timer | `LoadOrGenerateCert`, `RunTicker`, `SleepCtx` | whoever rotates the pair, the service's context |
| k8s admission, apis, log | none | decoding, defaults, logger set-up | Kubernetes |

How they interact: `Push` publishes blobs, then a config blob, then a manifest
through an `Uploader`; `Stream` reads a manifest and its config through a
`Downloader`, plans the tar entries, sizes the prefetch pipeline and reassembles
each file; every blob passes a `BlobSizeChecker`. The two halves never meet
except through the registry, so the format is a protocol between versions. The
snapshots of a VM are kept under the tags `hibernate` and `latest` of a
repository named after it; vk-cocoon writes them, and cocoon-operator decides
from the name of the VM and the policy which ones to delete. The two programs
talk through annotations of the pod, which each of them patches.

What is hard here, and what would make each part correct:

- **push**: the manifest describes the whole export or is not published, although
  a subprocess that died between two entries looks like the end of the tar, one
  that ended well may be far ahead of a reader that was cancelled, tasks fail late and cancel the reader, and answers get lost; no upload sends bytes
  other than those that were hashed; a cancelled or failed push always returns.
- **pull**: the import tar holds the right bytes in the right order whatever order
  the fetches end in; a cancelled spawner ends the stream without an error; after
  an error fetches are cancelled, joined, and only then is the decoder closed; no
  buffer is lost or shared.
- **sizing**: pools stay within the budget, at least one worker remains, every
  chunk fits its buffer, also at the boundaries and where an int64 wraps.
- **format**: what this pusher writes this reader restores, up to the reader's cap
  on the config; a file another writer wrote is refused or restored right; readers
  of v1 never see chunks.
- **httpx**: no server is left behind, no error lost, the grace period is real.
- **ociutil**: exactly the announced size, for any way of cutting reads.
- **oci**: a tag never names a blob that is not there, although pushes fail, are
  retried, and garbage is collected between them; "not there" and "failed" are
  never taken for each other; what a broken attempt leaves behind does not make
  its retry fail; a cleanup ends.
- **naming**: both programs read the role a VM was created with.
- **lifecycle**: a completion is one of what the generation it is reported for asked; a
  failure reason does not outlive its failure; the report arrives in the end.
- **cloudimg**: the whole disk in order, or an error.
- **k8s helpers**: no fallback to a self-signed certificate but for the documented
  reasons, no mixed pair; loops end when the service is cancelled.

`PROJECT.json` has the hazards one by one, each at its line.

## 2. Modules

| Module | Models | Runs / proofs |
|---|---|---|
| `ImportStream` | abstract: what `Stream` promises about the import tar | property of `pull_liveness`; theorem `PullRefines` |
| `PullPipeline` | `writeImportTar` and the prefetch pipeline | `pull_*` |
| `PullPipelineInv`, `PullPipelineProofs` | its inductive invariant `IInv` and the proofs | 8 theorems |
| `PushPublish` | abstract: what `Push` promises about the registry | property of `push_safety`; theorem `PushRefines` |
| `PushPipeline` | `Pusher.Push` | `push_safety`, `push_liveness` |
| `PushPipelineInv`, `PushPipelineProofs` | its inductive invariant `IInv` and the proofs | 9 theorems |
| `TransferBudget` | the sizing arithmetic, as operators | used by `PushMemory`, `SnapshotFormat` |
| `PushMemory` (extends `TransferBudget`), `PushMemoryProofs` | buffer capacities over a long push | `push_memory`, `push_memory_expand`; 5 theorems |
| `SnapshotFormat` (extends `TransferBudget`), `SnapshotFormatProofs` | `Push`'s output against `Stream`'s checks and plan, `manifest` | `format`; 6 theorems |
| `VMName` | names, slots, roles and the snapshot policy, as operators | used by `SnapshotStore` |
| `SnapshotStore` (extends `VMName`), `SnapshotStoreProofs` | `oci.OCIRegistry` between vk-cocoon, cocoon-operator and a registry | `snapshot_store`; 5 theorems |
| `Lifecycle`, `LifecycleProofs` | lifecycle annotations and their patches | `lifecycle`; 3 theorems |
| `HttpxRun` | `httpx.Run` | used by `Service` |
| `Service` (extends `HttpxRun`), `ServiceProofs` | certificate, servers and loops of a service | `service`; 6 theorems, 3 of them about `Run` alone |
| `BlobSize` | `ociutil.BlobSizeChecker` | `blob_zero_read` |
| `CloudImage` (extends `BlobSize`), `CloudImageProofs` | `cloudimg.Stream` over the checker | `cloud_image`; 8 theorems, 4 of them about the checker alone |

`MC*` modules give the constants values. Definitions whose comment starts with
"Fault:" are deliberately wrong variants of the definition after them; no
specification uses them, and `PROJECT.json` says which property each one breaks.

### PullPipeline

`pc` is the goroutine that called `Stream`: `envelope`, then per entry `entry`
(header), `copy` (plain layers, and encoded files without a window) or
`range`/`await`/`write` (`WriteTo`) with `drain`/`join` after an error, `sized`
(the comparison of `written` and `meta.Size`), `returned`. `spc` is the spawner
of `newChunkSource`, with the channel `futures` and its capacity `window-1`;
`fpc[i]` is the fetch of chunk `i`, from `start` through `reading`, `stored`,
`decoding` to `ready` or `failed`. `freeIn`/`freeOut` are the channels of the
two `bufPool`s, `fin`/`fout` what a fetch has borrowed, `inData`/`outData` what
every buffer holds: a buffer's bytes are the blob they come from and whether
they are still a zstd frame. Every call that can fail has a failing alternative;
`CancelParent` may happen at any time. The order of buffers inside a pool is
left open. Where files are read, one chunk is one unit of length.

The fetch's context is the file's: it is done when the caller's is, or after
`cancel`. A fetch may still succeed after that, as the real one may.

### PushPipeline

`pc` is the goroutine that called `Push`: `export`, `params`, the read loop
(`next`, `chunk`, `fill`, `go`, `spool`, `spoolPut`), `wait` (`eg.Wait` and the
merge of errors), `close`, `reap`, `config`, `manifest`, `returned`. A task
`<<e, i>>` uploads chunk `i` of tar entry `e`: `start`, `encode`, `check`
(HasBlob), `put`. `exporter` is the subprocess: it may die at any time, and then
the reader sees the end of the tar, a torn header or a short body; and it may end
well at any time, as small files fit in the pipe, and then the reader still finds
the rest of the tar there. `blobs` pairs
a digest with the bytes stored under it, so that a buffer overwritten between
hash and upload shows; a failed upload may have stored its blob, and a manifest
may be accepted although its answer is lost. The state of the group's context is
`egDone`. Bytes are counted in units of half a MiB, which makes the compression
threshold 2.

`HasBlob` and `PutBlob` are two steps, so two tasks with the same bytes, or a
task and an earlier push, interleave in every way.

`PushPublish` is the promise: blobs are only added; at most one manifest is
published, which describes all files of the export in terms of blobs that are
stored; success is reported only for a published manifest; after the return
nothing changes. The refinement maps the registry's state and the result: the
stored digests are those with the right bytes under them, the content of the
export is the set of its files as pairs of place in the tar and bytes, and the
manifest lists such pairs in tar order, each file's bytes decoded from the blobs
its descriptors name.

### TransferBudget and PushMemory

The constants of the code (a MiB, the wrap of int64, maxima and defaults) are
CONSTANTS with the assumption that the maxima do not overflow, so a small
instance meets every boundary. `PushMemory` follows only capacities: `take`
replaces a buffer that is too small, `EncodeAll` appends and may grow the output
buffer, and the deferred `put` returns the grown one. What append makes of a buffer
that is too small is its choice between the length it needs and a quarter more,
plus `AppendSlack` for the constant and the size class (`Grown`).

### SnapshotFormat

An export is pushed (`Push`), the manifest is perhaps replaced by what another
writer would have published (`Rewrite`: v1 marker, other kinds, unknown media
types, missing titles or sizes, layers that are missing, repeated or reversed, no
engine config, inside an index), and `Stream` runs up to the first byte: resolve the
index, fetch and check the config, validate, plan, size the pipeline. A digest is
the blob, a media type its base and a zstd flag, a file's mode, the map of a sparse
file and the engine config are opaque. The size of a config, which the reader caps,
is one unit per file and per chunk (`ConfigSize`). Exports have distinct names; a
sparse file may come with any size, also the zero that `layerHeader` refuses, and
without a map there is no size (`sparseFileMeta`).

`PushedIsPullable` names the two ways in which a push succeeds and its snapshot
cannot be pulled: a config above the cap, which only the reader has, and a sparse
map without a positive size. `NeverMisassembled` names the one way in which a tar is
wrong without an error: `planLayers` goes by the layers of the manifest and does not
compare them with the files of the config, so a manifest in which the only layer of
a file is missing or repeated gives a tar without the file, or with the file twice.
No writer in this repository makes such a manifest.

### VMName and SnapshotStore

A name is a sequence of words and separators, so that dots and dashes and sets
whose names are prefixes of others meet as they do in strings; `Atoi` and `Itoa`
are tables, and "00" is a word `Atoi` reads but `Itoa` does not write. The hash at
the end stands for what it is computed from: collisions are not considered.
`NumeralAssumption` says that `Atoi` reads back what `Itoa` writes, and that no
numeral has a dot in it. `PodsAssumption` describes the pods the operator creates:
owned by their CocoonSet, with the role of their slot. It leaves out toolboxes
whose name is a number, which the admission webhook rejects (`docs/apis.md`): the
name of such a toolbox is that of an agent.

`SnapshotStore` follows one pod: it runs, hibernates (`push` under the tag
`hibernate`), is released once the operator has seen the tag, wakes (`wake`), is
deleted, perhaps with a last snapshot under `latest`, and its tags are cleaned up.
The operators `Found`, `GetManifest`, `DeleteManifest`, `isNotFound`,
`ignoreNotFound` turn an answer of the registry ("ok", "404", "fault") into what
the client returns; `UploadSession` is what the pusher of a new session knows;
`Compressed` is where an attempt starts to read its body: `PutBlob` opens an attempt,
`SendBlob` sends the body from there, and a registry that gets other bytes than
those of the digest refuses them. A fault is a request that was carried out or not,
with no answer; after it the body is where the attempt left it. vk-cocoon may restart during a push.
Assumed of what is not in this repository: garbage collection spares blobs of
tagged manifests and does not run during a push; vk-cocoon stops a VM only after
its push has succeeded; the operator releases it only after a true `HasManifest`;
a wake or a cleanup that fails is tried again.

### Lifecycle

`annos` is the pod at the API server, `seen` the request in vk-cocoon's copy of it,
`cache` the request in the operator's copy, and `op.obj` the pod the operator is about
to patch, which may miss what vk-cocoon has reported since.
`want` is what is asked of the pod, a generation and whether to hibernate, and
`asked` everything that was ever asked. An edit of the CocoonSet makes a new
generation; a CocoonHibernation asks for the other thing under the same one, as
often as it likes. The operator writes generation and request in one `k8s.Patch`,
vk-cocoon its `LifecycleStatus` in one merge patch, and skips a report whose
`Snapshot` equals what the pod is known to report. The API server applies a patch
atomically, whatever version of the pod it was made from: `client.MergeFrom` carries
no resourceVersion. A call that fails may have been carried out; a call does not
take effect after a later one of the same writer. A reconciliation that finds its
copy in order makes an empty patch, which changes nothing, and is left out.

`StaleBase` says what copy the operator patches. `FALSE`: one that has its own last
patch in it, because it read the pod from the API server or waited for its cache;
nobody else writes the two keys of the request, so the base is right about them.
`TRUE`: any copy its cache held. Nothing in `k8s.Patch` asks for the former, and
`CompletionIsMine` needs it. From a base that misses the operator's last patch, a key
the stale copy already has right is left out: the pod is stamped with the new
generation beside the request of the old one, and vk-cocoon reports the completion of
the old operation for the new generation, which `docs/meta.md` ("Counter-based
completion lets a client tell ...") excludes. The fault `OperatorGet_Stale`, and
`MCLifecycle.cfg` with `StaleBase = TRUE`, show it. This is what an operator has to see
to when it uses `k8s.Patch`.

Two things are required of vk-cocoon. It reads generation and request from one copy.
And after a report whose answer was lost it no longer takes the last report it knows
of for what the pod says: with requests that come back to an earlier one under the
same generation, a pod could otherwise stay on "creating", because "ready" equals
the report before and is skipped.

A completion tells of the generation, not of the request: of two equal requests of a
CocoonHibernation under one generation, the completion of the first cannot be told
from that of the second. `CompletionIsMine` does not claim it.

### HttpxRun, Service, BlobSize, CloudImage

`HttpxRun` has one serve and one stop goroutine per server, the caller's and the
run's context, the shutdown timer, and clients that keep connections busy.
`Service` puts the start of a service in front of it, `LoadOrGenerateCert` over
two files that are replaced, removed or expire one at a time while they are read,
(`seen` records how far the look at them got, and how it ended)
and two loops beside it on the same context, one in `RunTicker` and one around
`SleepCtx`. It extends `HttpxRun`, so the theorems about `Run` are about its part.
`BlobSize` reads one blob through the checker with buffers of any length; its
body cuts reads anywhere, returns EOF with the last bytes or after them, and may
fail at any time. `CloudImage` selects and sorts the disk layers and copies them
through such a checker, one after another, each step of the checker a step of the
copy; the writer may fail too. A published image is assumed to be well formed:
a digest names one blob (`LayersAssumption`), and every part of the disk has a
layer of a disk type, with titles that sort in the order of the disk as strings
(`TitlesAssumption`), which is what publishers must see to: "part10" sorts before
"part2". Nothing is assumed of the order of the layers in the manifest, of the
sizes it announces, or of layers that are not disks. The stable sort is a CHOOSE of
the sorted enumeration of the disk layers; titles differ, so there is just one.

## 3. Runs

| Run | Question | Bounds |
|---|---|---|
| `pull_safety` | bytes, order, buffers, join before close, pools | up to 4 chunks per file, 3 entries, window 3: more chunks than window, so that the channel fills and buffers are reused, also across files; mixed encodings; config sizes too small and too large |
| `pull_liveness` | a cancelled, failing or healthy pull returns; refinement | 3 chunks, window 2, two entries, prefetched and sequential |
| `push_safety` | completeness, integrity, buffers, root cause; refinement of `PushPublish` | with and without compression, chunks of 2 units or none; files of 5 = 2·2+1, 4 = 2·2, 3, 2, 1 and 0 units, equal chunks, 2 workers, 3 buffers per pool, an empty registry and one with a chunk in it, exports without `snapshot.json`, with a malformed entry or a directory |
| `push_liveness` | a cancelled push, and one with a failed task, returns | 3 chunks and a spooled file |
| `push_memory` | budget and worker count | a MiB of 2 bytes, wrap at 64: budgets from below one chunk to past the wrap; frames at most as large as their chunk (`MaxOverhead` 0) |
| `push_memory_expand` | the same budget when a frame may be one byte longer than its chunk and append grows by a quarter: **violated** | one option set |
| `format` | pushed is pullable, never mis-assembled, v1 is plain, prefetch fits | files of 0 to 9 units around chunk sizes 2 and 4, each media type, 16 kinds of other writers, a config cap of 8 units, 12 pull options |
| `service` | nothing left serving, grace, returns, certificate, loops end | two servers, two versions of the pair, each valid or expired |
| `cloud_image` | exact size, no false alarm, whole image | images of up to three parts, in and out of order, with layers that are not disks, with wrong sizes, without disks, of another kind; every way of cutting reads |
| `snapshot_store` | complete tags, no state lost, pushes fail by a fault only, policy, cleanup ends | 6 pods with names that get in each other's way, 4 policies, 3 snapshots that share a layer, 2 faults: a fault and a retry that meets a second one |
| `lifecycle` | completion, reasons, reports settle | 2 generations, any number of requests in each, 2 faults, an operator that sees to its own last patch |
| `blob_zero_read` | exact size when a body may return `0, nil`: **violated** | sizes -1 to 4, blobs of 0 to 5 bytes, buffers up to 3 |

Symmetry is used only in safety runs, and only over buffers, which are
interchangeable. The two violations are findings:

- `pipelineParams` says the two pools together stay within the budget. A chunk
  that does not compress has a frame larger than the chunk; `EncodeAll` then
  grows the output buffer, and `uploadChunk` puts the grown one into the pool.
  append does not add the few bytes of the frame but grows a large slice by about a
  quarter, so that each output buffer, once grown, is a quarter of a chunk larger
  than planned, for the rest of the push.
- `BlobSizeChecker` says it allows no trailing data. Its probe is one `Read` of
  one byte; a body that answers `0, nil`, as `io.Reader` allows though it is
  discouraged, passes with data left. net/http bodies are not known to do so.

### Fairness

Goroutines that can run do run: weak fairness of the consumer, the spawner, the
reader, and each fetch and task while it does not wait for the registry. A
registry call is only sure to end once its context is done (`CtxDone /\ ...`,
`egDone /\ ...`): the `Downloader` and `Uploader` take a context and honour it.
The tar writer and the callback of `Progress` are assumed to return. In
`push_liveness` the subprocess keeps writing as long as it lives (a
`CocoonRunner` is given the caller's context and is expected to end with it),
but it exits for certain only once its pipe has been closed: that is what makes
the order of `Close` and `wait` matter. `HealthyReturns` adds the assumption that the
registry ends every read, as a premise of the property itself. In `HttpxRun` the
shutdown timer fires and a server that was shut down returns from Start; clients
owe nothing. In `Service` the branch of the cancellation in a select has strong
fairness: Go chooses at random among ready branches, so a loop that comes back
to its select for ever takes that branch in the end; callbacks return. In
`SnapshotStore` only the cleanup is fair, which the operator requeues until it
succeeds. In `Lifecycle` both programs are level-triggered controllers: watch,
reconciliation, work and report go on while there is something to do; that users
stop asking is the premise of `ReportsSettle`. Faults are
bounded by `MaxFaults` in both, so a behaviour has a last one.

## 4. Proofs

All theorems are for every value of the constants that satisfies the named
assumptions next to their declaration.

**PullPipelineProofs.** `TypeOK`, `TarFaithful`, `ExclusiveBuffers`,
`NothingInFlight`, `DecoderOutlivesFetches` and `TakesNeverBlock` are invariants,
and the pipeline refines `ImportStream`. None of these is inductive alone: that
the chunk written is the next one needs the order of the channel, that needs the
spawner's counter, that a buffer still holds the chunk needs exclusiveness, and
that nothing is in flight at the end needs every live fetch to have its future
in the channel or in the consumer's hand. `IInv` (`PullPipelineInv`) says so:
the futures in the channel and in hand are exactly the consecutive chunk numbers
between those written and those sent; fetches are live exactly for those;
every buffer is either in its pool or with exactly one live fetch, as its
state says; a buffer in `stored` or `ready` holds the right chunk; entries
before the current one are complete. One lemma per action shows that it is
preserved. `TakesNeverBlock` then is a counting argument: live fetches are at
most `window` plus the one being written, a taken buffer has a live owner, and
the pools have `window` and `window + 1` buffers. Refinement is a step
simulation with the identity on the tar's variables. The proof assumes what
`newChunkPipeline` guarantees about pool sizes (`PoolAssumption`).

**PushPipelineProofs.** `TypeOK`, `BlobsIntact`, `PublishedComplete`,
`ExclusiveBuffers`, `NothingInFlight`, `CanceledOnlyByCaller` and `TakesNeverBlock`
are invariants for every export, worker count and pool, and a push refines
`PushPublish`. `PublishedComplete` is where everything meets, and alone it says
nothing about the states before the manifest. `IInv` (`PushPipelineInv`) adds, in
the order the proofs need them: where the reader is in the tar and that its buffer
holds the chunk it is about to hand over (`ReadInv`); that tasks exist for exactly
the chunks handed over, at most `Workers` of them running and none once the group
has been waited for (`TaskInv`, `SlotInv`); that every buffer is in its pool or has
the one owner its task's state says (`BufInv`); that an owned buffer holds the
task's chunk, and a finished task of a group without an error has left a
descriptor of a stored blob (`DataInv`); that the groups are the files read so far,
in tar order (`GroupInv`); that without an error reading stops only at the end of
the tar or behind a subprocess that failed, which `Reap` then turns into an error
(`EndInv`), or by a cancellation, which the check of the context then reports even
when the subprocess has ended well; and that a cancellation is the caller's or gives way to a task's error
(`ErrInv`). One lemma per action. `TakesNeverBlock` is a count: buffers that are
not in the pool inject into running tasks and the reader, of which there are at
most `Workers + 1`. The refinement needs that decoding the descriptors of a
chunked file gives back its bytes, an induction over the number of chunks, done
with a set of naturals rather than an operator parameter.

**PushMemoryProofs.** For all options: accepted ones leave a worker and
`2(workers+1)` chunks within the budget (`PushPoolsFit`), and a wrapped byte count
never makes the budget larger than the one requested, both from facts about
division and multiplication that are proved first. Then `AlwaysAWorker`, and the
memory bound over any number of chunks. `PoolInv` counts: no raw buffer is larger than a
chunk and no output buffer larger than append makes it for a frame, and the buffers in a pool,
with the reader and with workers are together at most `workers + 1`, since a take
and a put move one and growing replaces one. What is pinned is a `FoldFunction`,
a recursion over subsets; that it has a solution (`SumExists`) and is at most the
largest value times the number of places that are not zero (`SumBound`) is an
induction over the size of the set, done with a set of naturals. With
`PushPoolsFit` this gives `PoolsStayWithinOverhead`: whatever the encoder does,
the excess over the budget asked for is at most that of `workers + 1` output buffers
grown by append, each by the frame's overhead, a quarter of a frame and
`AppendSlack`, which bounds what `push_memory_expand` finds; where frames do not grow
(`MaxOverhead` 0, as in `push_memory`) it is `PoolsWithinBudget` itself. Both
have the hypothesis `NoNegativeWrap`, which the attempt to prove them brought up:
"negative means default" is tested after the shift, so a `MemoryBudgetMiB` below
-2^43, whose byte count wraps to a positive one, would be taken as that budget. No
caller passes one; a positive budget that wraps is covered, by
`BudgetNeverExceedsRequest`.

**SnapshotFormatProofs.** `PushedIsPullable`, `V1ReadersUnharmed`,
`NeverMisassembled` and `PrefetchFits`, for every export of any number of files of
any length and all options; the last two also for the manifests of the other
writers. `FInv` says that the manifest is the pusher's own until somebody rewrites
it; that whoever did, each layer left is a layer of the export, that unless a title or
the only layer of a file is missing, or such a layer repeated, each file has a layer
and only split files have several (`LayersOK`), and
each file of the config describes a file of the export (`FilesOK`); and that every
stage of `Stream` has passed the checks of the stages before it. The manifest is a `FlattenSeq`: `FlattenLays` and `Covered` say where the
layers of each file lie in it and that there are no others. That the recursions
`FlattenSeq` and `Planned` have a solution is shown once, for any loop of n rounds
(`RoundsExist`), by induction with a set of naturals.

For its own manifest, `OwnAccepted` shows that no check but the cap refuses it: the
reader's list has every media type the pusher writes, a compressed or split file makes the
artifact v2, and every chunk of a list is a layer. `PlanIsFiles` is an induction
over the files and, within a file, over its layers: names differ, so the first layer
of a file makes an entry and the others do not. The entry is the file
(`EntryDelivers`) because cutting bytes into chunks and joining them gives them back
(`CutAndJoin`), whichever layer of equal digest a chunk was resolved to.

For another writer's manifest the order of the layers is not known, so the plan is
counted: a layer makes an entry exactly if it is the first with its title
(`EmitsFirst`), hence the plan is as long as there are such layers (`PlanCounts`),
and these are one per file (`OneEntryEach`), unless the manifest itself lacks or
repeats a file. The blobs of an entry are those of its
file in order, or those without the first one (`KnownBlobs`); the latter join to
fewer bytes than the config announces (`TailIsShorter`), so the size check refuses
them. A sparse size left out is refused with the header unless there is no map, and
then the file had no size either. What passes both checks is the file
(`KnownDelivers`).

The buffers fit because the entries of a plan that is split are split files of the
export (`SplitEntry`), whose blobs are at most a chunk long (`BlobOfSplit`), and
because `rawChunkStride`, computed from the size of the file and the length of a
list from which chunks may be missing, is at least the chunk size
(`StrideCoversChunk`); `PullPoolsFit` bounds the buffers together.

`FormatAssumption` asks that exports are sequences of files with distinct names
whose contents are sequences; `EngineAssumption` that names are not empty, that there
is no sparse size without a map, and that the table of media types has
the five types it has in `manifest/media.go`. Only `PushedIsPullable` and
`NeverMisassembled` need the latter assumption.

**SnapshotStoreProofs.** `TagsComplete`, `NoStateLost`, `PushFailsOnlyByFault` and
`PolicyHonoured`, for any pods, policies, snapshots and number of faults. `IInv`
says that the blobs of a tagged manifest are stored; that what a push has ticked
off, and what the pusher of its session remembers as sent, is stored while it
lasts, which is the step a shared pusher would break; that the body of an open
attempt is at its start, so that a push ends early only with a fault; that until it wakes the tag
of a released VM names the snapshot it went to sleep with, and a wake in progress
is pulling that one; and that `latest` is only ever written under a policy that
asks for it. `PolicyHonoured` needs more than a state argument: that the role both
programs read from the name of the VM is the one it was created with. The lemmas
on names (`SlotOfAgent`, `SlotOfToolbox`, `RoleIsRead`) show it for names of any
length made of any words: `VMNameForPod` puts the set's prefix in front, dots
become dashes on both sides alike, so cutting the prefix leaves exactly the slot or
the toolbox name, and a rest that is written differently from a number `Itoa`
writes is no slot.

**LifecycleProofs.** `CompletionIsMine` and `NoTailingMessage` for any number of
generations, requests, faults and restarts; the first under the hypothesis
`~StaleBase`, the second without it. Generation and request travel in one patch, so
on the pod, in vk-cocoon's copy and in its job they belong together (`Asked`); the
report at hand and the one on the pod are honest about a generation that exists
(`Honest`); and a base that had the operator's last patch in it goes on agreeing with
the pod on the two keys the operator alone writes, which is why a patch from a copy
that misses reports harms nobody (`OpInv`). With a stale base the same invariant holds
without the clauses that tie a request to its generation.

**ServiceProofs.** `NothingLeftServing` and `GraceIsHonoured` for any number of
servers, of `Run` alone and inside a service. The invariant ties `pc` to the two
wait groups and the error slots (`WaitInv`), and says that a server on which Shutdown
was called takes no connection and one whose Shutdown is over has none in use unless
the time was up (`DrainInv`). `CertSound` for any number of rotations: while
`LoadOrGenerateCert` runs nothing is served, what is past the look had its paths, a
pair that is looked at further has both halves and they match, and once it is done
no file is read again.

**CloudImageProofs.** Of the checker alone: bytes handed out plus bytes left are the
blob, limit plus bytes handed out the announced size. `ExactSize` under the
assumption that the body never returns `0, nil`, which `blob_zero_read` shows to be
needed; `NeverBeyond` and `NoFalseAlarm` without it. Of `Stream`: `ImageWhole`, and
the two properties of the checker for every layer it copies, for images of any
number of layers in any order. The order is the argument: titles of disk layers
differ and `Before` is asymmetric, so two sorted enumerations of the same layers
cannot differ anywhere, by pigeonhole (`Identity`, `SortIsUnique`), and what
`diskLayers` chooses is the order of the disk (`DisksInOrder`). The invariant
`Progress` then says that what is written and what is still to do make up the
disk, each written part with all the bytes of its blob; a step of the copy is a
step of the checker, whose own invariant is used again for every layer.

Type correctness of the two pipelines, and `NeverBeyond`, hold by these proofs
only; no run repeats them.

Every invariant and action property of the passing runs is so proved. Only
model-checked are the liveness properties (`CancelReturns`, `DrainReturns`,
`HealthyReturns`, `TaskErrReturns`, `FailureReturns`, `ServiceStops`,
`CleanupConverges`, `ReportsSettle`): fairness and ENABLED are out of the provers'
reach.

## 5. What is not modelled

- Digest computation and hash collisions, JSON, PAX and tar encodings, timestamps,
  progress reports and log lines.
- The transport of the oci client (`bulkTransport`, keychains, `parseRef`) and the
  fallback of `withPusher` when no pusher can be made, which only gives up reuse.
- Exports with two files of one name: both are uploaded, and the metadata of the
  later one replaces the earlier one's. The engine does not write them.
- Garbage collection during a push: no client can protect a blob between the
  check and the manifest, and the registry is assumed to.
- `ociutil.ParseRef`, `IsRelativeRef`, `SHA256Hex`: string functions.
- The annotations of `VMSpec` and `VMRuntime`, snapshot requests and statuses
  (`meta/snapshot.go`), the restore and keep flags: getters and setters of single
  keys, whose protocol is in programs that are not in this repository.
- `k8s/admission` (one request in, one response out), `condition.go`, `event.go` and
  the client configuration (single client-go calls), `log`.
- API types and generated deep copies: declarations without behaviour, but for the
  default of the snapshot policy, which is in `VMName`.

## 6. Plan

Done: the pipelines, their sizing and their two abstract specifications, the
format, the registry client in its use, naming, the lifecycle protocol, cloud
images, and a service; the proofs of section 4, which leave no safety property of
the runs unproved. Worth adding when the code around them grows: the snapshot
request and status annotations of `meta/snapshot.go`, once the programs that speak
that protocol are at hand.
