---------------------------- MODULE ImportStream ----------------------------
(***************************************************************************)
(* What snapshot.Stream promises its caller about the import tar, with no  *)
(* prefetching, buffers or goroutines: the envelope comes first, then the  *)
(* entries of the plan in order, each body growing one chunk at a time in  *)
(* chunk order and never beyond the size in its tar header.  An entry is   *)
(* left only when its body has exactly the announced size, the call        *)
(* returns nil only after the last entry, and it may fail at any time.     *)
(***************************************************************************)
EXTENDS Naturals, Sequences

CONSTANTS Plans     \* the layer plans a call may be given

VARIABLES entries,  \* the plan of this call: what planLayers returned
          envelope, \* has snapshot.json been written?
          cur,      \* number of entry headers written
          body,     \* body[f]: the chunks written for entry f
          status    \* "running", or what the call returned: "ok" / "error"

vars == <<entries, envelope, cur, body, status>>

\* A chunk's bytes, before and after zstd: which blob they come from, and
\* whether they are still a zstd frame.
Content(blob, enc) == [of |-> blob, enc |-> enc]

\* The chunk the import tar must hold at position i of entry e's body.
Wanted(e, i) == Content(e.blobs[i], "raw")

Complete(f) == Len(body[f]) = entries[f].size

Init == /\ entries \in Plans
        /\ envelope = FALSE
        /\ cur = 0
        /\ body = [f \in DOMAIN entries |-> <<>>]
        /\ status = "running"

Begin == /\ status = "running" /\ ~envelope
         /\ envelope' = TRUE
         /\ UNCHANGED <<entries, cur, body, status>>

Open == /\ status = "running" /\ envelope
        /\ cur < Len(entries)
        /\ cur > 0 => Complete(cur)
        /\ cur' = cur + 1
        /\ UNCHANGED <<entries, envelope, body, status>>

Emit == /\ status = "running" /\ cur > 0
        /\ Len(body[cur]) < entries[cur].size
        /\ Len(body[cur]) < Len(entries[cur].blobs)
        /\ body' = [body EXCEPT ![cur] =
                       Append(@, Wanted(entries[cur], Len(body[cur]) + 1))]
        /\ UNCHANGED <<entries, envelope, cur, status>>

Finish == /\ status = "running" /\ envelope
          /\ cur = Len(entries)
          /\ cur > 0 => Complete(cur)
          /\ status' = "ok"
          /\ UNCHANGED <<entries, envelope, cur, body>>

Fail == /\ status = "running"
        /\ status' = "error"
        /\ UNCHANGED <<entries, envelope, cur, body>>

Next == Begin \/ Open \/ Emit \/ Finish \/ Fail

Spec == Init /\ [][Next]_vars
=============================================================================
