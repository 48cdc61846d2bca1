---------------------------- MODULE MCCloudImage ----------------------------
(***************************************************************************)
(* Images of one part, with every announced and real size, and images of   *)
(* three parts whose layers come in any order, with other files between.   *)
(***************************************************************************)
EXTENDS CloudImage, SequencesExt

MCSizes == -1..4
MCTotals == 0..5

Layer(media, title, digest, s, t) ==
    [media |-> media, title |-> title, digest |-> digest, size |-> s, total |-> t]

OnePart == {[kind |-> "cloud-image", disk |-> <<"a">>,
             layers |-> <<Layer("disk.raw", <<1>>, "a", s, t)>>] :
            s \in MCSizes, t \in MCTotals}

\* "00", "01" and "10", and a file of checksums whose title sorts between.
Parts == {Layer("disk.qcow2.part", <<0, 0>>, "a", 1, 1),
          Layer("disk.qcow2.part", <<0, 1>>, "b", 2, 2),
          Layer("windows.disk.raw.part", <<1, 0>>, "c", 0, 0)}
Sums == Layer("text/plain", <<0>>, "sums", 1, 1)

Split == {[kind |-> "cloud-image", disk |-> <<"a", "b", "c">>, layers |-> ls] :
          ls \in {s \in [1..4 -> Parts \cup {Sums}] : ToSet(s) = Parts \cup {Sums}}}

Refused == {[kind |-> "container-image", disk |-> <<>>, layers |-> <<Sums>>],
            [kind |-> "cloud-image", disk |-> <<>>, layers |-> <<Sums>>]}

MCImages == OnePart \cup Split \cup Refused
=============================================================================
