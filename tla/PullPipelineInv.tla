-------------------------- MODULE PullPipelineInv --------------------------
(***************************************************************************)
(* The inductive invariant behind the properties of PullPipeline: where    *)
(* every future, every fetch and every buffer is while a file is being     *)
(* prefetched.                                                             *)
(***************************************************************************)
EXTENDS PullPipeline

\* The consumer is inside WriteTo of a chunkSource.
Prefetching == pc \in {"range", "await", "write", "drain", "join"}

\* Futures received so far: those sent and no longer in the channel.
Got == sent - Len(futures)

InFlight == {"start", "reading", "stored", "decoding", "ready", "failed"}

\* Progress of the tar agrees with the consumer's position.
TarInv ==
    /\ envelope = FALSE => cur = 0
    /\ (pc # "envelope" /\ pc # "returned") => envelope
    /\ pc = "envelope" => ~envelope
    /\ (Prefetching \/ pc \in {"copy", "sized"}) => cur > 0
    /\ status = "running" <=> pc # "returned"
    /\ decOpen <=> pc # "returned"
    /\ pc = "entry" /\ cur > 0 => Len(body[cur]) = Entry.size
    /\ status = "ok" => /\ cur = Len(entries)
                        /\ envelope
                        /\ cur > 0 => Len(body[cur]) = Entry.size

\* Bodies: a prefix of the wanted chunks, complete before the current entry,
\* empty after it, as long as the futures consumed while prefetching.
BodyInv ==
    /\ \A f \in DOMAIN entries :
         /\ BodyPrefix(f)
         /\ Len(body[f]) <= entries[f].size
         /\ f < cur => Len(body[f]) = entries[f].size
         /\ f > cur => body[f] = <<>>
    /\ pc = "range" => Len(body[cur]) = Got
    /\ pc \in {"await", "write"} => Len(body[cur]) = held - 1

\* The channel holds the futures Got+1..sent, oldest first, and the consumer
\* at most the one before them.
ChanInv ==
    IF Prefetching
    THEN /\ spc \in {"offer", "spawn", "exit"}
         /\ fileWindow(Entry) >= 2
         /\ sent <= Len(Entry.blobs)
         /\ Len(futures) <= sent /\ Len(futures) <= fileWindow(Entry) - 1
         /\ \A k \in 1..Len(futures) : futures[k] = Got + k
         /\ IF pc \in {"await", "write", "join"} THEN held = Got /\ held > 0
                                                ELSE held = 0
         /\ spc = "spawn" => sent > 0 /\ (Got = sent => pc \in {"await", "join"})
    ELSE /\ spc \in {"idle", "exit"} /\ futures = <<>> /\ held = 0

\* Which fetches exist: a fetch is live exactly while its future is in the
\* channel or in the consumer's hand.
FetchInv ==
    \A i \in Slots :
        IF ~Prefetching THEN fpc[i] \in {"none", "done"}
        ELSE IF i > sent \/ (i = sent /\ spc = "spawn") THEN fpc[i] = "none"
        ELSE IF i > Got \/ (i = held /\ pc # "write") THEN fpc[i] \in InFlight
        ELSE IF i = held THEN fpc[i] = "received"
        ELSE fpc[i] = "done"

OwnsIn(i) == fpc[i] \in {"reading", "stored", "decoding"} /\ Entry.zstd
OwnsOut(i) == \/ fpc[i] \in {"decoding", "ready", "received"}
              \/ fpc[i] = "reading" /\ ~Entry.zstd

\* Every buffer is in its pool or borrowed by exactly one fetch.
BufInv ==
    /\ \A i \in Slots : /\ fin[i] # NoBuf <=> OwnsIn(i)
                        /\ fout[i] # NoBuf <=> OwnsOut(i)
                        /\ fpc[i] \in {"stored", "decoding"} => Entry.zstd
    /\ ExclusiveBuffers
    /\ \A b \in InBufs : b \in freeIn \/ \E i \in Slots : fin[i] = b
    /\ \A b \in OutBufs : b \in freeOut \/ \E i \in Slots : fout[i] = b

\* What a borrowed buffer holds.
DataInv ==
    \A i \in Slots :
        /\ fpc[i] \in {"stored", "decoding"} =>
               inData[fin[i]] = Content(Entry.blobs[i], "zstd")
        /\ fpc[i] \in {"ready", "received"} =>
               outData[fout[i]] = Content(Entry.blobs[i], "raw")

IInv == TypeOK /\ TarInv /\ BodyInv /\ ChanInv /\ FetchInv /\ BufInv /\ DataInv
=============================================================================
