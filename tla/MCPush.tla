------------------------------- MODULE MCPush -------------------------------
(***************************************************************************)
(* Small instances of PushPipeline.                                        *)
(***************************************************************************)
EXTENDS PushPipeline, TLC

Json == [kind |-> "json", data |-> <<>>]
Dir == [kind |-> "other", data |-> <<>>]
Bad == [kind |-> "bad", data |-> <<>>]
File(units) == [kind |-> "file", data |-> units]

\* Chunk boundaries hit exactly and missed by one, a small and an empty file,
\* equal chunks, a directory, no snapshot.json, a malformed entry.
SafetyExports ==
    {<<Json, File(<<"a", "b", "a", "b", "a">>), File(<<"a">>)>>,
     <<Dir, File(<<"a", "b", "a", "a">>), Json>>,
     <<File(<<"a", "b", "b">>), Bad>>,
     <<File(<<"a", "b", "b">>)>>,
     <<File(<<>>), Json, File(<<"b", "a">>)>>}

\* The registry is empty or has one chunk from an earlier push.
SomeExisting == {{}, {Blob("raw", <<"a", "b">>), Blob("zstd", <<"a", "b">>)}}

\* Compressed or not, in chunks of 1 MiB or whole.
AllOptions == [zstd : BOOLEAN, chunk : {0, 2}]
RawChunks == {[zstd |-> FALSE, chunk |-> 2]}
NoneExisting == {{}}

\* Enough for three tasks in flight and a file the reader uploads itself.
LiveExports == {<<Json, File(<<"a", "b", "a", "b", "b">>), File(<<"b">>)>>}

BufSymmetry == Permutations(RawBufs) \cup Permutations(OutBufs)
=============================================================================
