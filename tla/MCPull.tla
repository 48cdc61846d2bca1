------------------------------- MODULE MCPull -------------------------------
(***************************************************************************)
(* Small instances of PullPipeline.                                        *)
(***************************************************************************)
EXTENDS PullPipelineInv, TLC

Plain(d) == [encoded |-> FALSE, zstd |-> FALSE, size |-> 1, blobs |-> <<d>>]
Raw(ds, n) == [encoded |-> TRUE, zstd |-> FALSE, size |-> n, blobs |-> ds]
Zstd(ds, n) == [encoded |-> TRUE, zstd |-> TRUE, size |-> n, blobs |-> ds]

\* Plans a push produces; one that mixes encodings; and configs that announce
\* a size the chunks do not add up to.
SafetyPlans ==
    {<<Plain("a"), Zstd(<<"a", "b", "a", "c">>, 4), Zstd(<<"c">>, 1)>>,
     <<Raw(<<"a", "b", "c", "d">>, 4), Zstd(<<"d", "b">>, 2)>>,
     <<Raw(<<"a", "b", "c">>, 2)>>,
     <<Raw(<<"a", "b">>, 3)>>}

\* One prefetched file of each encoding, followed by a sequential one, and a
\* sequential one that announces too much.
LivePlans == {<<Zstd(<<"a", "b", "c">>, 3), Plain("d")>>,
              <<Raw(<<"a", "b", "a">>, 3), Raw(<<"c", "d">>, 2)>>,
              <<Zstd(<<"a">>, 2), Plain("d")>>}

BufSymmetry == Permutations(InBufs) \cup Permutations(OutBufs)
=============================================================================
