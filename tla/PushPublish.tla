---------------------------- MODULE PushPublish ----------------------------
(***************************************************************************)
(* What Pusher.Push promises about the registry, with no tar, chunks,      *)
(* buffers or tasks: blobs are only added, then at most one manifest is    *)
(* published, which describes the whole content of the export in terms of  *)
(* blobs that are all there, and the call reports success only if it has   *)
(* published.  It may fail at any time, also after the registry took the   *)
(* manifest, and once it has returned it changes nothing any more.         *)
(***************************************************************************)
EXTENDS Naturals, Sequences

VARIABLES content,   \* the files of the export: pairs of a place in the tar and the bytes
          stored,    \* digests the registry holds the right bytes for
          published, \* what the tag points to: <<>> or <<[files, refs]>>
          outcome    \* "none" until Push returns, then "ok" or "error"

vars == <<content, stored, published, outcome>>

Init == published = <<>> /\ outcome = "none"

Running == published = <<>> /\ outcome = "none"

Upload == /\ Running
          /\ stored \subseteq stored'
          /\ UNCHANGED <<content, published, outcome>>

\* The files are those of the export, each once and in tar order.
Lists(files) ==
    /\ {files[g] : g \in DOMAIN files} = content
    /\ \A g, h \in DOMAIN files : g < h => files[g][1] < files[h][1]

\* The answer to a manifest that was taken may be lost.
Publish == /\ Running
           /\ Len(published') = 1
           /\ Lists(published'[1].files)
           /\ published'[1].refs \subseteq stored
           /\ outcome' \in {"ok", "error"}
           /\ UNCHANGED <<content, stored>>

\* An upload that fails may still have stored its blob.
Fail == /\ Running
        /\ stored \subseteq stored'
        /\ outcome' = "error"
        /\ UNCHANGED <<content, published>>

Next == Upload \/ Publish \/ Fail

Spec == Init /\ [][Next]_vars
=============================================================================
