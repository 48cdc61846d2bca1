------------------------------ MODULE MCFormat ------------------------------
(***************************************************************************)
(* Small instances of SnapshotFormat: a MiB is 2 units.                    *)
(***************************************************************************)
EXTENDS SnapshotFormat

MCVMTypes == [name \in {"config.json", "state.json", "memory-ranges", "cidata.img",
                        "overlay.qcow2"} |->
    CASE name = "config.json" -> "vm.config"
      [] name = "state.json" -> "vm.state"
      [] name = "memory-ranges" -> "vm.memory"
      [] name = "cidata.img" -> "vm.cidata"
      [] name = "overlay.qcow2" -> "disk.qcow2"]

File(name, data, perm, sparse) ==
    [name |-> name, data |-> data, mode |-> perm, sparse |-> sparse]

Holes(size) == [map |-> "holes", size |-> size]

\* The bytes of a file of n units: its first and last units differ, so that
\* chunks out of order are noticed, and some of its chunks are equal.
Bytes(n) == [i \in 1..n |-> IF i % 3 = 0 THEN "b" ELSE IF i = n THEN "c" ELSE "a"]

\* Every size from empty to past three chunks, for a file of each media type,
\* next to a file with some of the same chunks; the largest ones have a config
\* above the cap.  Sparse maps come with a size, with none and with a negative one.
MCExports ==
    {<<File("config.json", Bytes(1), 0, NoSparse), File(name, Bytes(n), 600, Holes(9)),
       File("cidata.img", Bytes(3), 644, NoSparse)>> :
        name \in {"memory-ranges", "data.raw", "vda.qcow2", "notes", "state.json"},
        n \in 0..7}
      \cup {<<File("overlay.qcow2", Bytes(n), 600, Holes(size))>> :
                n \in {0, 4, 9}, size \in {-1, 0, 10}}

MCPushModes == [zstd : BOOLEAN, chunk : {0, 2, 4}]
MCPullModes == [prefetch : {0, 1, 3}, budgetMiB : {0, 3, 5, 6}]
=============================================================================
