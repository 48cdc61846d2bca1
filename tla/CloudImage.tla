----------------------------- MODULE CloudImage -----------------------------
(***************************************************************************)
(* cloudimg.Stream: the disk of a cloud image, split into layers, copied   *)
(* to a writer part by part, each through the size checker of BlobSize     *)
(* (cloudimg/cloudimg.go).                                                 *)
(*                                                                         *)
(* The variables of BlobSize are the checker of the part being copied.     *)
(***************************************************************************)
EXTENDS BlobSize, Sequences, FiniteSets

\* An image is [kind, disk, layers]: what the manifest is classified as, the
\* digests of the disk's parts in order, and the layers of the manifest,
\* [media, title, digest, size, total], total being the size of the blob.
CONSTANT Images

IsDiskMediaType(media) ==
    media \in {"disk.qcow2", "disk.qcow2.part", "disk.raw", "disk.raw.part",
               "windows.disk.qcow2", "windows.disk.qcow2.part", "windows.disk.raw",
               "windows.disk.raw.part"}

Disks(layers) == {i \in DOMAIN layers : IsDiskMediaType(layers[i].media)}

\* Titles are strings of characters.
Before(a, b) == \E n \in 0..Len(a) :
                   /\ n < Len(b) /\ SubSeq(a, 1, n) = SubSeq(b, 1, n)
                   /\ n < Len(a) => a[n + 1] < b[n + 1]

\* A digest names one blob.
ASSUME LayersAssumption ==
    \A x \in Images :
      /\ x.layers \in Seq({x.layers[i] : i \in DOMAIN x.layers})
      /\ x.disk \in Seq({x.layers[i].digest : i \in DOMAIN x.layers})
      /\ \A i \in DOMAIN x.layers :
           /\ x.layers[i].title \in Seq(Nat)
           /\ x.layers[i].size \in Int /\ x.layers[i].total \in Nat
      /\ \A i, j \in DOMAIN x.layers :
           x.layers[i].digest = x.layers[j].digest => x.layers[i].total = x.layers[j].total

\* Whoever publishes an image makes a layer of each part of the disk, and titles
\* them so that they sort in order, as strings: numbers need leading zeros.
ASSUME TitlesAssumption ==
    \A x \in Images : \E part \in [DOMAIN x.disk -> Disks(x.layers)] :
      /\ \A d \in Disks(x.layers) : \E i \in DOMAIN x.disk : part[i] = d
      /\ \A i \in DOMAIN x.disk : x.layers[part[i]].digest = x.disk[i]
      /\ \A i, j \in DOMAIN x.disk :
           i < j => Before(x.layers[part[i]].title, x.layers[part[j]].title)

VARIABLES image,
          todo,   \* disk layers still to copy
          copying,\* io.Copy runs on the first of them
          out,    \* the parts written: digest and bytes
          result  \* "new", "running", "ok" or "error"

imageVars == <<image, todo, copying, out, result>>

ImageInit ==
    /\ image \in Images
    /\ todo = <<>> /\ copying = FALSE /\ out = <<>> /\ result = "new"
    /\ size = 0 /\ total = 0 /\ left = 0 /\ N = 0 /\ done = TRUE /\ delivered = 0
    /\ failed = FALSE /\ seen = "eof"

\* Fault: the parts are taken in the order of the manifest.
diskLayers_Unsorted(layers) == SelectSeq(layers, LAMBDA l : IsDiskMediaType(l.media))

\* A stable sort by title.
diskLayers(layers) ==
    LET n == Cardinality(Disks(layers))
        Earlier(i, j) == \/ Before(layers[i].title, layers[j].title)
                         \/ layers[i].title = layers[j].title /\ i < j
        order == CHOOSE p \in [1..n -> Disks(layers)] :
                    \A i, j \in 1..n : i < j => Earlier(p[i], p[j])
    IN  [i \in 1..n |-> layers[order[i]]]

Stream ==
    /\ result = "new"
    /\ todo' = diskLayers(image.layers)
    /\ result' = IF image.kind = "cloud-image" /\ todo' # <<>> THEN "running" ELSE "error"
    /\ UNCHANGED <<image, copying, out, vars>>

\* copyBlob: ReadBlob, and a checker on the body.
OpenBlob ==
    /\ result = "running" /\ ~copying /\ todo # <<>>
    /\ copying' = TRUE
    /\ size' = todo[1].size /\ total' = todo[1].total
    /\ left' = todo[1].total /\ N' = todo[1].size
    /\ done' = FALSE /\ delivered' = 0 /\ failed' = FALSE /\ seen' = "more"
    /\ UNCHANGED <<image, todo, out, result>>

OpenErr ==
    /\ result = "running" /\ ~copying /\ todo # <<>>
    /\ result' = "error"
    /\ UNCHANGED <<image, todo, copying, out, vars>>

Copy ==
    /\ copying /\ (ReadDone \/ ReadLimit \/ ReadBody)
    /\ UNCHANGED imageVars

\* io.Copy stops at an error of the checker, or of the writer after a read.
CopyErr ==
    /\ copying /\ (seen = "error" \/ delivered > 0)
    /\ result' = "error" /\ copying' = FALSE
    /\ out' = Append(out, [digest |-> todo[1].digest, bytes |-> delivered])
    /\ UNCHANGED <<image, todo, vars>>

CopyDone ==
    /\ copying /\ seen = "eof"
    /\ out' = Append(out, [digest |-> todo[1].digest, bytes |-> delivered])
    /\ todo' = Tail(todo) /\ copying' = FALSE
    /\ result' = IF Len(todo) = 1 THEN "ok" ELSE "running"
    /\ UNCHANGED <<image, vars>>

Returned == result \in {"ok", "error"} /\ UNCHANGED <<imageVars, vars>>

ImageNext == Stream \/ OpenBlob \/ OpenErr \/ Copy \/ CopyErr \/ CopyDone \/ Returned

ImageSpec == ImageInit /\ [][ImageNext]_<<imageVars, vars>>

-----------------------------------------------------------------------------
(* Properties.                                                             *)

\* A Stream that succeeds wrote the disk: all of its parts and nothing else,
\* in the order of the disk whatever the order of the manifest, and each with
\* all of its bytes (cloudimg.go:49).
ImageWhole ==
    result = "ok" =>
        /\ [i \in DOMAIN out |-> out[i].digest] = image.disk
        /\ \A i \in DOMAIN out, k \in DOMAIN image.layers :
              out[i].digest = image.layers[k].digest => out[i].bytes = image.layers[k].total
=============================================================================
