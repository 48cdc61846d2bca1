------------------------- MODULE PullPipelineProofs -------------------------
(***************************************************************************)
(* Proofs about PullPipeline for every plan, every number of chunks, every *)
(* window and every pool of buffers.                                       *)
(***************************************************************************)
EXTENDS PullPipelineInv, FiniteSetTheorems, TLAPS

\* What the assumption on plans says about the entry being written.
LEMMA EntryFacts ==
    ASSUME TypeOK, cur > 0
    PROVE  /\ Entry \in EntryRecord /\ IsEntry(Entry)
           /\ cur \in DOMAIN entries /\ body[cur] \in Seq(Contents)
           /\ Len(Entry.blobs) \in Slots /\ Entry.blobs \in Seq(Blobs)
           /\ fileWindow(Entry) \in Nat /\ fileWindow(Entry) <= Len(Entry.blobs)
           /\ fileWindow(Entry) <= Window
<1>1. entries \in Seq(EntryRecord) /\ \A f \in DOMAIN entries : IsEntry(entries[f])
  BY PlansAssumption DEF TypeOK
<1>2. cur \in DOMAIN entries
  BY <1>1 DEF TypeOK
<1>3. Entry \in EntryRecord /\ IsEntry(Entry)
  BY <1>1, <1>2 DEF Entry
<1>4. Len(Entry.blobs) \in Slots /\ Entry.blobs \in Seq(Blobs)
  BY <1>3, WindowAssumption DEF IsEntry, EntryRecord, Slots
<1>5. body[cur] \in Seq(Contents)
  BY <1>2 DEF TypeOK
<1>6. /\ fileWindow(Entry) \in Nat /\ fileWindow(Entry) <= Len(Entry.blobs)
      /\ fileWindow(Entry) <= Window
  <2> DEFINE n == Len(Entry.blobs)
  <2>1. n \in Nat /\ Window \in Nat
    BY <1>4, WindowAssumption DEF Slots
  <2> HIDE DEF n
  <2>2. fileWindow(Entry) = IF Window < 2 \/ n < 2 THEN 0
                            ELSE IF Window < n THEN Window ELSE n
    BY DEF fileWindow, n
  <2>3. /\ fileWindow(Entry) \in Nat /\ fileWindow(Entry) <= n
        /\ fileWindow(Entry) <= Window
    BY <2>1, <2>2
  <2> QED
    BY <2>3 DEF n
<1> QED
  BY <1>2, <1>3, <1>4, <1>5, <1>6

\* The initial states satisfy the invariant.
LEMMA InitIInv == Init => IInv
<1> SUFFICES ASSUME Init PROVE IInv
  OBVIOUS
<1>0. entries \in Seq(EntryRecord) /\ \A f \in DOMAIN entries : IsEntry(entries[f])
  BY PlansAssumption DEF Init
<1>1. TypeOK
  <2>1. Junk \in Contents
    BY DEF Junk, Contents, Content
  <2>2. body \in [DOMAIN entries -> Seq(Contents)]
    BY DEF Init
  <2>3. fpc \in [Slots -> FetchStates]
    BY DEF Init, FetchStates
  <2>4. cur \in 0..Len(entries) /\ sent \in 0..MaxChunks /\ held \in 0..MaxChunks
    BY <1>0, WindowAssumption DEF Init
  <2>5. futures \in Seq(Slots)
    BY DEF Init
  <2>6. /\ fin \in [Slots -> InBufs \cup {NoBuf}]
        /\ fout \in [Slots -> OutBufs \cup {NoBuf}]
        /\ freeIn \in SUBSET InBufs /\ freeOut \in SUBSET OutBufs
        /\ inData \in [InBufs -> Contents] /\ outData \in [OutBufs -> Contents]
    BY <2>1 DEF Init
  <2> QED
    BY <2>2, <2>3, <2>4, <2>5, <2>6 DEF Init, TypeOK
<1>2. TarInv
  BY DEF Init, TarInv, Prefetching
<1>3. BodyInv
  <2> SUFFICES ASSUME NEW f \in DOMAIN entries
               PROVE  /\ BodyPrefix(f) /\ Len(body[f]) <= entries[f].size
                      /\ ~(f < cur) /\ body[f] = <<>>
    BY DEF Init, BodyInv
  <2>1. body[f] = <<>> /\ Len(body[f]) = 0 /\ cur = 0 /\ f \in Nat
    BY <1>0 DEF Init
  <2>2. entries[f] \in EntryRecord /\ IsEntry(entries[f])
    BY <1>0
  <2>3. entries[f].size \in Nat /\ Len(entries[f].blobs) \in Nat
    BY <2>2 DEF EntryRecord
  <2> QED
    BY <2>1, <2>3 DEF BodyPrefix
<1>4. ChanInv
  BY DEF Init, ChanInv, Prefetching
<1>5. FetchInv
  BY DEF Init, FetchInv, Prefetching
<1>6. BufInv
  BY NoBufAssumption DEF Init, BufInv, ExclusiveBuffers, OwnsIn, OwnsOut
<1>7. DataInv
  BY DEF Init, DataInv
<1> QED
  BY <1>1, <1>2, <1>3, <1>4, <1>5, <1>6, <1>7 DEF IInv

-----------------------------------------------------------------------------
(* Steps outside prefetching leave the channel, the fetches and the        *)
(* buffers alone.                                                          *)

\* With no file being prefetched, the invariants about channel, fetches and
\* buffers do not depend on the consumer's position or on the entry.
LEMMA QuietStep ==
    ASSUME TypeOK, ChanInv, FetchInv, BufInv, DataInv, ~Prefetching, ~Prefetching',
           UNCHANGED <<chanVars, held, fpc, bufVars>>
    PROVE  ChanInv' /\ FetchInv' /\ BufInv' /\ DataInv'
<1>1. ChanInv'
  BY DEF ChanInv, chanVars
<1>2. \A i \in Slots : fpc[i] \in {"none", "done"}
  BY DEF FetchInv
<1>3. FetchInv'
  BY <1>2 DEF FetchInv
<1>4. \A i \in Slots : ~OwnsIn(i) /\ ~OwnsOut(i) /\ ~OwnsIn(i)' /\ ~OwnsOut(i)'
  BY <1>2 DEF OwnsIn, OwnsOut
<1>5. BufInv'
  BY <1>2, <1>4 DEF BufInv, ExclusiveBuffers, bufVars
<1>6. DataInv'
  BY <1>2 DEF DataInv
<1> QED
  BY <1>1, <1>3, <1>5, <1>6

\* A step of the sequential part of the consumer.
Sequential == \/ WriteEnvelope \/ EnvelopeErr \/ HeaderErr \/ CopyChunk \/ CopyEnd
              \/ CopyErr \/ SizeCheck \/ SizeErr \/ Finish \/ FinishErr

\* The steps of the sequential consumer outside a prefetched file.
LEMMA SequentialStep == IInv /\ Sequential => IInv'
<1> SUFFICES ASSUME IInv, Sequential PROVE IInv'
  OBVIOUS
<1> USE DEF IInv
<1>1. /\ ~Prefetching /\ ~Prefetching'
      /\ UNCHANGED <<chanVars, held, fpc, bufVars>>
      /\ UNCHANGED <<entries, cur>>
  BY DEF Sequential, WriteEnvelope, EnvelopeErr, HeaderErr, CopyChunk, CopyEnd,
         CopyErr, SizeCheck, SizeErr, Finish, FinishErr, Return, Prefetching,
         tarVars, ctxVars
<1>2. ChanInv' /\ FetchInv' /\ BufInv' /\ DataInv'
  BY <1>1, QuietStep
<1>3. CASE CopyChunk
  <2>1. pc = "copy" /\ cur > 0 /\ pc' = "copy"
    BY <1>3 DEF CopyChunk, TarInv
  <2>2. /\ cur \in DOMAIN entries /\ body[cur] \in Seq(Contents)
        /\ Entry \in EntryRecord /\ Entry.blobs \in Seq(Blobs)
    BY <2>1, EntryFacts
  <2> DEFINE n == Len(body[cur])
             c == Content(Entry.blobs[n + 1], "raw")
  <2>3. n \in Nat /\ n < Len(Entry.blobs) /\ n < Entry.size
    BY <1>3, <2>2 DEF CopyChunk, HasRoom
  <2>4. c \in Contents
    BY <2>2, <2>3 DEF Content, Contents
  <2>5. body' = [body EXCEPT ![cur] = Append(body[cur], c)]
    BY <1>3 DEF CopyChunk, AppendChunk
  <2>6. UNCHANGED <<entries, envelope, cur, status, pc, ctxVars, decOpen>>
    BY <1>3 DEF CopyChunk
  <2> HIDE DEF c, n
  <2>7. /\ body'[cur] = Append(body[cur], c) /\ Len(body'[cur]) = n + 1
        /\ \A f \in DOMAIN entries : f # cur => body'[f] = body[f]
        /\ body' \in [DOMAIN entries -> Seq(Contents)]
    BY <2>2, <2>4, <2>5 DEF TypeOK, n
  <2>8. TypeOK'
    BY <1>1, <2>6, <2>7 DEF TypeOK, chanVars, bufVars, ctxVars
  <2>9. TarInv'
    BY <2>1, <2>6 DEF TarInv, Prefetching
  <2>10. BodyInv'
    <3>1. BodyPrefix(cur)'
      BY <2>2, <2>3, <2>6, <2>7 DEF BodyInv, BodyPrefix, c, n, Entry
    <3>2. \A f \in DOMAIN entries : f # cur => BodyPrefix(f)'
      BY <2>6, <2>7 DEF BodyInv, BodyPrefix
    <3> QED
      BY <2>1, <2>2, <2>3, <2>6, <2>7, <3>1, <3>2 DEF BodyInv, Entry, EntryRecord, TypeOK
  <2> QED
    BY <1>2, <2>8, <2>9, <2>10
<1>4. CASE ~CopyChunk
  <2>1. UNCHANGED body
    BY <1>4 DEF Sequential, WriteEnvelope, EnvelopeErr, HeaderErr, CopyEnd,
         CopyErr, SizeCheck, SizeErr, Finish, FinishErr, tarVars
  <2>2. /\ envelope' \in BOOLEAN /\ cancelled' \in BOOLEAN /\ UNCHANGED parentDone
        /\ decOpen' \in BOOLEAN /\ status' \in {"running", "ok", "error"}
        /\ pc' \in {"entry", "sized", "returned"}
    BY <1>4 DEF Sequential, WriteEnvelope, EnvelopeErr, HeaderErr, CopyEnd,
         CopyErr, SizeCheck, SizeErr, Finish, FinishErr, tarVars, ctxVars, Return,
         TypeOK
  <2>3. TypeOK'
    BY <1>1, <2>1, <2>2 DEF TypeOK, chanVars, bufVars
  <2>4. BodyInv'
    BY <1>1, <2>1, <2>2 DEF BodyInv, BodyPrefix
  <2>5. cur \in Nat /\ (cur > 0 => IsEntry(Entry))
    BY EntryFacts DEF TypeOK
  <2>6. TarInv'
    <3>1. CASE WriteEnvelope
      BY <1>1, <2>1, <3>1 DEF WriteEnvelope, TarInv, Prefetching
    <3>2. CASE CopyEnd
      BY <1>1, <2>1, <2>5, <3>2 DEF CopyEnd, TarInv, Prefetching, IsEntry, Entry, tarVars
    <3>3. CASE SizeCheck
      BY <1>1, <2>1, <3>3 DEF SizeCheck, SizeOk, TarInv, Prefetching, Entry, tarVars
    <3>4. CASE Finish
      BY <1>1, <2>1, <3>4 DEF Finish, Return, TarInv, Prefetching, Entry
    <3>5. CASE EnvelopeErr \/ HeaderErr \/ CopyErr \/ SizeErr \/ FinishErr
      BY <1>1, <2>1, <3>5 DEF EnvelopeErr, HeaderErr, CopyErr, SizeErr, FinishErr,
         Return, TarInv, Prefetching
    <3> QED
      BY <1>4, <3>1, <3>2, <3>3, <3>4, <3>5 DEF Sequential
  <2> QED
    BY <1>2, <2>3, <2>4, <2>6
<1> QED
  BY <1>3, <1>4

\* The next header: whatever the previous file left behind, nothing of it is
\* in flight, so a fresh channel and fresh fetches can be set up.
LEMMA OpenEntryStep == IInv /\ OpenEntry => IInv'
<1> SUFFICES ASSUME IInv, OpenEntry PROVE IInv'
  OBVIOUS
<1> USE DEF IInv
<1>1. /\ pc = "entry" /\ cur < Len(entries) /\ cur' = cur + 1
      /\ cancelled' = FALSE
      /\ UNCHANGED <<entries, envelope, body, status, held, parentDone, bufVars,
                     decOpen>>
  BY DEF OpenEntry
<1>2. /\ ~Prefetching /\ spc \in {"idle", "exit"} /\ futures = <<>> /\ held = 0
      /\ \A i \in Slots : fpc[i] \in {"none", "done"}
  BY <1>1 DEF Prefetching, ChanInv, FetchInv
<1>3. /\ entries \in Seq(EntryRecord) /\ cur \in Nat /\ cur' \in DOMAIN entries
      /\ cur' \in 1..Len(entries) /\ cur' \in 0..Len(entries)
  BY <1>1, PlansAssumption DEF TypeOK
<1>a. cancelled' \in BOOLEAN /\ envelope' \in BOOLEAN /\ parentDone' \in BOOLEAN
  BY <1>1 DEF TypeOK
<1>4. CASE entries[cur'].encoded /\ fileWindow(entries[cur']) >= 2
  <2>1. /\ pc' = "range" /\ spc' = "offer" /\ sent' = 0 /\ futures' = <<>>
        /\ fpc' = [i \in Slots |-> "none"]
    BY <1>4 DEF OpenEntry
  <2>2. TypeOK'
    <3>1. fpc' \in [Slots -> FetchStates] /\ futures' \in Seq(Slots)
      BY <2>1 DEF FetchStates
    <3>2. sent' \in 0..MaxChunks
      BY <2>1, WindowAssumption
    <3> QED
      BY <1>1, <1>3, <1>a, <2>1, <3>1, <3>2 DEF TypeOK, bufVars
  <2>3. Entry' \in EntryRecord /\ IsEntry(Entry') /\ Entry' = entries[cur']
    BY <1>1, <1>3, PlansAssumption DEF TypeOK, Entry
  <2>4. Len(Entry'.blobs) \in Nat /\ fileWindow(Entry)' = fileWindow(entries[cur'])
    BY <2>3, <1>1 DEF EntryRecord, fileWindow
  <2>5. fileWindow(Entry)' \in Nat
    BY <2>4, WindowAssumption, <2>3 DEF fileWindow
  <2>6. TarInv'
    BY <1>1, <1>3, <2>1 DEF TarInv, Prefetching
  <2>7. body'[cur'] = <<>> /\ Len(body'[cur']) = 0
    BY <1>1, <1>3 DEF BodyInv
  <2>8. BodyInv'
    <3>1. \A f \in DOMAIN entries : f < cur' => Len(body[f]) = entries[f].size
      BY <1>1, <1>3 DEF BodyInv, TarInv, Entry
    <3>2. Got' = 0
      <4>1. Len(futures') = 0
        BY <2>1
      <4>2. sent' = 0
        BY <2>1
      <4> QED
        BY <4>1, <4>2 DEF Got
    <3>3. \A f \in DOMAIN entries : BodyPrefix(f)'
      BY <1>1 DEF BodyInv, BodyPrefix
    <3> QED
      BY <1>1, <1>3, <2>1, <2>7, <3>1, <3>2, <3>3 DEF BodyInv
  <2>9. ChanInv'
    BY <1>1, <1>2, <1>4, <2>1, <2>4, <2>5 DEF ChanInv, Prefetching, Got
  <2>10. FetchInv'
    BY <2>1 DEF FetchInv, Prefetching, Slots
  <2>11. BufInv'
    BY <1>1, <1>2, <2>1 DEF BufInv, ExclusiveBuffers, bufVars, OwnsIn, OwnsOut
  <2>12. DataInv'
    BY <2>1 DEF DataInv
  <2> QED
    BY <2>2, <2>6, <2>8, <2>9, <2>10, <2>11, <2>12
<1>5. CASE ~(entries[cur'].encoded /\ fileWindow(entries[cur']) >= 2)
  <2>1. pc' = "copy" /\ UNCHANGED <<chanVars, fpc>>
    BY <1>5 DEF OpenEntry
  <2>2. TypeOK'
    BY <1>1, <1>3, <1>a, <2>1 DEF TypeOK, bufVars, chanVars
  <2>3. TarInv'
    BY <1>1, <1>3, <2>1 DEF TarInv, Prefetching
  <2>4. BodyInv'
    <3>1. \A f \in DOMAIN entries : f < cur' => Len(body[f]) = entries[f].size
      BY <1>1, <1>3 DEF BodyInv, TarInv, Entry
    <3> QED
      BY <1>1, <1>3, <2>1, <3>1 DEF BodyInv, BodyPrefix
  <2>5. ChanInv' /\ FetchInv' /\ BufInv' /\ DataInv'
    BY <1>1, <1>2, <2>1, QuietStep DEF Prefetching
  <2> QED
    BY <2>2, <2>3, <2>4, <2>5
<1> QED
  BY <1>4, <1>5

-----------------------------------------------------------------------------
(* Steps of the spawner.                                                   *)

\* The spawner runs only while its file is being prefetched.
LEMMA SpawnerFacts ==
    ASSUME IInv, spc \in {"offer", "spawn"}
    PROVE  /\ Prefetching /\ cur > 0 /\ Entry \in EntryRecord
           /\ Len(Entry.blobs) \in Slots /\ fileWindow(Entry) \in Nat
           /\ sent \in Nat /\ Len(futures) \in Nat /\ MaxChunks \in Nat
           /\ futures \in Seq(Slots)
<1>1. Prefetching
  BY DEF IInv, ChanInv
<1>2. cur > 0
  BY <1>1 DEF IInv, TarInv
<1> QED
  BY <1>1, <1>2, EntryFacts, WindowAssumption DEF IInv, TypeOK

\* A step of the spawner keeps the tar and the buffers as they are.
LEMMA SpawnerFrame ==
    ASSUME IInv, UNCHANGED <<tarVars, pc, held, ctxVars, bufVars, decOpen>>
    PROVE  /\ TarInv'
           /\ Got' = Got => BodyInv'
           /\ UNCHANGED fpc => BufInv' /\ DataInv'
<1>1. TarInv'
  BY DEF IInv, TarInv, tarVars, Prefetching, Entry
<1>2. Got' = Got => BodyInv'
  BY DEF IInv, BodyInv, BodyPrefix, tarVars
<1>3. UNCHANGED fpc => BufInv'
  BY DEF IInv, BufInv, ExclusiveBuffers, OwnsIn, OwnsOut, tarVars, bufVars, Entry
<1>4. UNCHANGED fpc => DataInv'
  BY DEF IInv, DataInv, tarVars, bufVars, Entry
<1> QED
  BY <1>1, <1>2, <1>3, <1>4

\* The future of the next chunk enters the channel.
LEMMA OfferStep == IInv /\ Offer => IInv'
<1> SUFFICES ASSUME IInv, Offer PROVE IInv'
  OBVIOUS
<1>1. /\ spc = "offer" /\ sent < Len(Entry.blobs)
      /\ Len(futures) < fileWindow(Entry) - 1
      /\ futures' = Append(futures, sent + 1) /\ sent' = sent + 1 /\ spc' = "spawn"
      /\ UNCHANGED <<tarVars, pc, held, ctxVars, fpc, bufVars, decOpen>>
  BY DEF Offer, MoreChunks
<1>2. /\ Prefetching /\ cur > 0 /\ Entry \in EntryRecord
      /\ Len(Entry.blobs) \in Slots /\ fileWindow(Entry) \in Nat
      /\ sent \in Nat /\ Len(futures) \in Nat /\ MaxChunks \in Nat
      /\ futures \in Seq(Slots)
  BY <1>1, SpawnerFacts
<1>3. sent + 1 \in Slots
  BY <1>1, <1>2 DEF Slots
<1>4. /\ futures' \in Seq(Slots) /\ Len(futures') = Len(futures) + 1
      /\ \A k \in 1..Len(futures) : futures'[k] = futures[k]
      /\ futures'[Len(futures) + 1] = sent + 1
  BY <1>1, <1>2, <1>3
<1>5. Got' = Got /\ Got \in Int
  BY <1>1, <1>2, <1>4 DEF Got
<1>6. TypeOK'
  BY <1>1, <1>3, <1>4 DEF IInv, TypeOK, tarVars, bufVars, ctxVars, Slots
<1>7. TarInv' /\ BodyInv' /\ BufInv' /\ DataInv'
  BY <1>1, <1>5, SpawnerFrame
<1>8. fileWindow(Entry)' = fileWindow(Entry) /\ Entry' = Entry
  BY <1>1 DEF Entry, tarVars, fileWindow
<1>9. ChanInv'
  <2>1. \A k \in 1..Len(futures') : futures'[k] = Got' + k
    BY <1>1, <1>2, <1>4, <1>5, SMTT(30) DEF IInv, ChanInv, Got
  <2> QED
    BY <1>1, <1>2, <1>4, <1>5, <1>8, <2>1 DEF IInv, ChanInv, Got, Prefetching
<1>10. FetchInv'
  BY <1>1, <1>2, <1>5 DEF IInv, FetchInv, ChanInv, Prefetching, Got, Slots
<1> QED
  BY <1>6, <1>7, <1>9, <1>10 DEF IInv

\* The spawner ends, cancelled or done, and closes the channel.
LEMMA SpawnerExitStep == IInv /\ (OfferCancelled \/ SpawnerEnd) => IInv'
<1> SUFFICES ASSUME IInv, OfferCancelled \/ SpawnerEnd PROVE IInv'
  OBVIOUS
<1>1. /\ spc = "offer" /\ spc' = "exit"
      /\ UNCHANGED <<tarVars, pc, sent, futures, held, ctxVars, fpc, bufVars, decOpen>>
  BY DEF OfferCancelled, SpawnerEnd
<1>2. TypeOK'
  BY <1>1 DEF IInv, TypeOK, tarVars, bufVars, ctxVars
<1>3. TarInv' /\ BodyInv' /\ BufInv' /\ DataInv'
  BY <1>1, SpawnerFrame DEF Got
<1>4. ChanInv'
  BY <1>1 DEF IInv, ChanInv, Got, Prefetching, Entry, tarVars
<1>5. FetchInv'
  BY <1>1 DEF IInv, FetchInv, Got, Prefetching
<1> QED
  BY <1>2, <1>3, <1>4, <1>5 DEF IInv

\* The fetch of an offered chunk is started.
LEMMA SpawnStep == IInv /\ Spawn => IInv'
<1> SUFFICES ASSUME IInv, Spawn PROVE IInv'
  OBVIOUS
<1>1. /\ spc = "spawn" /\ spc' = "offer"
      /\ fpc' = [fpc EXCEPT ![sent] = "start"]
      /\ UNCHANGED <<tarVars, pc, sent, futures, held, ctxVars, bufVars, decOpen>>
  BY DEF Spawn
<1>2. /\ Prefetching /\ cur > 0 /\ sent \in Nat /\ Len(futures) \in Nat
      /\ Len(Entry.blobs) \in Slots
  BY <1>1, SpawnerFacts
<1>3. sent \in Slots /\ fpc[sent] = "none"
  <2>1. sent > 0 /\ sent <= Len(Entry.blobs)
    BY <1>1, <1>2 DEF IInv, ChanInv
  <2>2. sent \in Slots
    BY <1>2, <2>1, WindowAssumption DEF Slots
  <2> QED
    BY <1>1, <1>2, <2>2 DEF IInv, FetchInv
<1>4. /\ fpc'[sent] = "start" /\ \A i \in Slots : i # sent => fpc'[i] = fpc[i]
      /\ fpc' \in [Slots -> FetchStates]
  BY <1>1, <1>3 DEF IInv, TypeOK, FetchStates
<1>5. TypeOK'
  BY <1>1, <1>4 DEF IInv, TypeOK, tarVars, bufVars, ctxVars
<1>6. TarInv' /\ BodyInv'
  BY <1>1, SpawnerFrame DEF Got
<1>7. ChanInv'
  BY <1>1, <1>2 DEF IInv, ChanInv, Got, Prefetching, Entry, tarVars
<1>8. FetchInv'
  <2> SUFFICES ASSUME NEW i \in Slots
               PROVE IF i > sent THEN fpc'[i] = "none"
                     ELSE IF i > Got \/ (i = held /\ pc # "write") THEN fpc'[i] \in InFlight
                     ELSE IF i = held THEN fpc'[i] = "received"
                     ELSE fpc'[i] = "done"
    BY <1>1, <1>2 DEF FetchInv, Got, Prefetching
  <2>1. CASE i = sent
    BY <1>1, <1>2, <1>4, <2>1 DEF IInv, ChanInv, Got, InFlight, Prefetching
  <2>2. CASE i # sent
    BY <1>1, <1>2, <1>4, <2>2 DEF IInv, FetchInv
  <2> QED
    BY <2>1, <2>2
<1>9. BufInv'
  BY <1>1, <1>3, <1>4 DEF IInv, BufInv, ExclusiveBuffers, OwnsIn, OwnsOut, bufVars,
     tarVars, Entry
<1>10. DataInv'
  BY <1>1, <1>3, <1>4 DEF IInv, DataInv, bufVars, tarVars, Entry
<1> QED
  BY <1>5, <1>6, <1>7, <1>8, <1>9, <1>10 DEF IInv

-----------------------------------------------------------------------------
(* Steps of a fetch.                                                       *)

consumerVars == <<tarVars, pc, chanVars, held, ctxVars, decOpen>>

\* A live fetch belongs to the file being prefetched.
LEMMA FetchFacts ==
    ASSUME IInv, NEW i \in Slots, fpc[i] \in InFlight
    PROVE  /\ Prefetching /\ cur > 0 /\ Entry \in EntryRecord
           /\ i \in DOMAIN Entry.blobs /\ Entry.blobs[i] \in Blobs
           /\ ~(i > sent) /\ ~(i = sent /\ spc = "spawn")
           /\ i > Got \/ (i = held /\ pc # "write")
<1>1. Prefetching
  BY DEF IInv, FetchInv, InFlight
<1>2. cur > 0
  BY <1>1 DEF IInv, TarInv
<1>3. /\ ~(i > sent) /\ ~(i = sent /\ spc = "spawn")
      /\ i > Got \/ (i = held /\ pc # "write")
  BY <1>1 DEF IInv, FetchInv, InFlight
<1>4. Entry \in EntryRecord /\ Len(Entry.blobs) \in Slots /\ Entry.blobs \in Seq(Blobs)
  BY <1>2, EntryFacts DEF IInv
<1>5. sent \in Nat /\ sent <= Len(Entry.blobs) /\ MaxChunks \in Nat
  BY <1>1, WindowAssumption DEF IInv, ChanInv, TypeOK
<1>6. i \in 1..Len(Entry.blobs)
  BY <1>3, <1>4, <1>5 DEF Slots
<1> QED
  BY <1>1, <1>2, <1>3, <1>4, <1>6

\* A fetch that stays in flight disturbs neither tar nor channel.
LEMMA FetchFrame ==
    ASSUME IInv, NEW i \in Slots, fpc[i] \in InFlight, NEW w \in InFlight,
           UNCHANGED consumerVars, Goto(i, w)
    PROVE  /\ TarInv' /\ BodyInv' /\ ChanInv' /\ FetchInv'
           /\ fpc' \in [Slots -> FetchStates] /\ fpc'[i] = w
           /\ \A j \in Slots : j # i => fpc'[j] = fpc[j]
           /\ Entry' = Entry
<1>1. /\ UNCHANGED <<entries, envelope, cur, body, status, pc, spc, sent, futures,
                    held, cancelled, parentDone, decOpen>>
      /\ Entry' = Entry
  BY DEF consumerVars, tarVars, chanVars, ctxVars, Entry
<1>2. /\ fpc' \in [Slots -> FetchStates] /\ fpc'[i] = w
      /\ \A j \in Slots : j # i => fpc'[j] = fpc[j]
  BY DEF IInv, TypeOK, Goto, FetchStates, InFlight
<1>3. TarInv'
  BY <1>1 DEF IInv, TarInv, Prefetching, Entry
<1>4. BodyInv'
  BY <1>1 DEF IInv, BodyInv, BodyPrefix, Got
<1>5. ChanInv'
  BY <1>1 DEF IInv, ChanInv, Prefetching, Got, fileWindow
<1>6. FetchInv'
  <2> SUFFICES ASSUME NEW j \in Slots
               PROVE  IF i = j THEN fpc'[j] \in InFlight ELSE fpc'[j] = fpc[j]
    BY <1>1, FetchFacts DEF IInv, FetchInv, Prefetching, Got
  <2> QED
    BY <1>2
<1> QED
  BY <1>1, <1>2, <1>3, <1>4, <1>5, <1>6

\* A fetch borrows an input buffer.
LEMMA TakeInStep == ASSUME IInv, NEW i \in Slots, TakeIn(i) PROVE IInv'
<1>1. /\ fpc[i] = "start" /\ Entry.zstd /\ Goto(i, "reading")
      /\ UNCHANGED consumerVars /\ UNCHANGED <<fout, freeOut, outData>>
  BY DEF TakeIn, consumerVars
<1>2. PICK b \in freeIn : /\ freeIn' = freeIn \ {b}
                          /\ fin' = [fin EXCEPT ![i] = b]
                          /\ inData' = [inData EXCEPT ![b] = Junk]
  BY DEF TakeIn
<1>3. /\ TarInv' /\ BodyInv' /\ ChanInv' /\ FetchInv'
      /\ fpc' \in [Slots -> FetchStates] /\ fpc'[i] = "reading"
      /\ \A j \in Slots : j # i => fpc'[j] = fpc[j]
      /\ Entry' = Entry
  BY <1>1, FetchFrame DEF InFlight
<1>4. b \in InBufs /\ b # NoBuf /\ Junk \in Contents
  BY <1>2, NoBufAssumption DEF IInv, TypeOK, Junk, Contents, Content
<1>5. /\ fin' \in [Slots -> InBufs \cup {NoBuf}] /\ fin'[i] = b
      /\ \A j \in Slots : j # i => fin'[j] = fin[j]
      /\ freeIn' \in SUBSET InBufs
      /\ inData' \in [InBufs -> Contents]
      /\ \A c \in InBufs : c # b => inData'[c] = inData[c]
  BY <1>2, <1>4 DEF IInv, TypeOK
<1>6. TypeOK'
  BY <1>1, <1>3, <1>5 DEF IInv, TypeOK, consumerVars, tarVars, chanVars, ctxVars
<1>7. \A j \in Slots : fin[j] # b /\ (fin[j] = NoBuf \/ fin[j] \in InBufs)
  BY <1>2 DEF IInv, BufInv, ExclusiveBuffers, TypeOK
<1>8. BufInv'
  <2>1. \A j \in Slots : /\ (fin[j] # NoBuf <=> OwnsIn(j))'
                         /\ (fout[j] # NoBuf <=> OwnsOut(j))'
                         /\ (fpc[j] \in {"stored", "decoding"} => Entry.zstd)'
    BY <1>1, <1>3, <1>4, <1>5 DEF IInv, BufInv, OwnsIn, OwnsOut
  <2>2. ExclusiveBuffers'
    BY <1>1, <1>2, <1>5, <1>7 DEF IInv, BufInv, ExclusiveBuffers
  <2>3. \A c \in InBufs : c \in freeIn' \/ \E j \in Slots : fin'[j] = c
    <3>1. fin[i] = NoBuf
      BY <1>1 DEF IInv, BufInv, OwnsIn
    <3> QED
      BY <1>2, <1>5, <3>1, NoBufAssumption DEF IInv, BufInv
  <2> QED
    BY <1>1, <2>1, <2>2, <2>3 DEF IInv, BufInv
<1>9. DataInv'
  BY <1>1, <1>3, <1>5, <1>7 DEF IInv, DataInv, BufInv, OwnsIn
<1> QED
  BY <1>3, <1>6, <1>8, <1>9 DEF IInv

\* A fetch borrows an output buffer.
LEMMA TakeOutStep == ASSUME IInv, NEW i \in Slots, TakeOut(i) PROVE IInv'
<1>1. PICK w \in {"reading", "decoding"} :
        /\ Goto(i, w)
        /\ w = "reading" => fpc[i] = "start" /\ ~Entry.zstd
        /\ w = "decoding" => fpc[i] = "stored"
  BY DEF TakeOut
<1>2. UNCHANGED consumerVars /\ UNCHANGED <<fin, freeIn, inData>>
  BY DEF TakeOut, consumerVars
<1>3. PICK b \in freeOut : /\ freeOut' = freeOut \ {b}
                           /\ fout' = [fout EXCEPT ![i] = b]
                           /\ outData' = [outData EXCEPT ![b] = Junk]
  BY DEF TakeOut
<1>4. /\ TarInv' /\ BodyInv' /\ ChanInv' /\ FetchInv'
      /\ fpc' \in [Slots -> FetchStates] /\ fpc'[i] = w
      /\ \A j \in Slots : j # i => fpc'[j] = fpc[j]
      /\ Entry' = Entry
  BY <1>1, <1>2, FetchFrame DEF InFlight
<1>5. b \in OutBufs /\ b # NoBuf /\ Junk \in Contents
  BY <1>3, NoBufAssumption DEF IInv, TypeOK, Junk, Contents, Content
<1>6. /\ fout' \in [Slots -> OutBufs \cup {NoBuf}] /\ fout'[i] = b
      /\ \A j \in Slots : j # i => fout'[j] = fout[j]
      /\ freeOut' \in SUBSET OutBufs
      /\ outData' \in [OutBufs -> Contents]
      /\ \A c \in OutBufs : c # b => outData'[c] = outData[c]
  BY <1>3, <1>5 DEF IInv, TypeOK
<1>7. TypeOK'
  BY <1>2, <1>4, <1>6 DEF IInv, TypeOK, consumerVars, tarVars, chanVars, ctxVars
<1>8. \A j \in Slots : fout[j] # b /\ (fout[j] = NoBuf \/ fout[j] \in OutBufs)
  BY <1>3 DEF IInv, BufInv, ExclusiveBuffers, TypeOK
<1>9. BufInv'
  <2>1. \A j \in Slots : /\ (fin[j] # NoBuf <=> OwnsIn(j))'
                         /\ (fout[j] # NoBuf <=> OwnsOut(j))'
                         /\ (fpc[j] \in {"stored", "decoding"} => Entry.zstd)'
    BY <1>1, <1>2, <1>4, <1>5, <1>6 DEF IInv, BufInv, OwnsIn, OwnsOut
  <2>2. ExclusiveBuffers'
    BY <1>2, <1>3, <1>6, <1>8 DEF IInv, BufInv, ExclusiveBuffers
  <2>3. \A c \in OutBufs : c \in freeOut' \/ \E j \in Slots : fout'[j] = c
    <3>1. fout[i] = NoBuf
      BY <1>1 DEF IInv, BufInv, OwnsOut
    <3> QED
      BY <1>3, <1>6, <3>1, NoBufAssumption DEF IInv, BufInv
  <2> QED
    BY <1>2, <2>1, <2>2, <2>3 DEF IInv, BufInv
<1>10. DataInv'
  BY <1>1, <1>2, <1>4, <1>6, <1>8 DEF IInv, DataInv, BufInv, OwnsOut
<1> QED
  BY <1>4, <1>7, <1>9, <1>10 DEF IInv

\* A fetch has read its whole chunk.
LEMMA ReadOkStep == ASSUME IInv, NEW i \in Slots, ReadOk(i) PROVE IInv'
<1>1. /\ fpc[i] = "reading" /\ UNCHANGED consumerVars
      /\ UNCHANGED <<fin, fout, freeIn, freeOut>>
  BY DEF ReadOk, consumerVars
<1>2. Entry \in EntryRecord /\ Entry.blobs[i] \in Blobs /\ Entry.zstd \in BOOLEAN
  BY <1>1, FetchFacts DEF InFlight, EntryRecord
<1>3. Stored(Entry, i) \in Contents
  BY <1>2 DEF Stored, Contents, Content
<1>4. CASE Entry.zstd
  <2>1. /\ inData' = [inData EXCEPT ![fin[i]] = Stored(Entry, i)]
        /\ Goto(i, "stored") /\ UNCHANGED outData
    BY <1>4 DEF ReadOk
  <2>2. /\ TarInv' /\ BodyInv' /\ ChanInv' /\ FetchInv'
        /\ fpc' \in [Slots -> FetchStates] /\ fpc'[i] = "stored"
        /\ \A j \in Slots : j # i => fpc'[j] = fpc[j]
        /\ Entry' = Entry
    BY <1>1, <2>1, FetchFrame DEF InFlight
  <2>3. fin[i] \in InBufs
    BY <1>1, <1>4 DEF IInv, TypeOK, BufInv, OwnsIn
  <2>4. /\ inData' \in [InBufs -> Contents] /\ inData'[fin[i]] = Stored(Entry, i)
        /\ \A c \in InBufs : c # fin[i] => inData'[c] = inData[c]
    BY <1>3, <2>1, <2>3 DEF IInv, TypeOK
  <2>5. TypeOK'
    BY <1>1, <2>1, <2>2, <2>4 DEF IInv, TypeOK, consumerVars, tarVars, chanVars, ctxVars
  <2>6. BufInv'
    BY <1>1, <1>4, <2>2 DEF IInv, BufInv, ExclusiveBuffers, OwnsIn, OwnsOut
  <2>7. Stored(Entry, i) = Content(Entry.blobs[i], "zstd")
    BY <1>4 DEF Stored
  <2>8. DataInv'
    <3> SUFFICES ASSUME NEW j \in Slots
                 PROVE /\ fpc'[j] \in {"stored", "decoding"} =>
                            inData'[fin[j]] = Content(Entry.blobs[j], "zstd")
                       /\ fpc'[j] \in {"ready", "received"} =>
                            outData[fout[j]] = Content(Entry.blobs[j], "raw")
      BY <1>1, <2>1, <2>2 DEF DataInv
    <3>1. CASE j = i
      BY <2>2, <2>4, <2>7, <3>1
    <3>2. CASE j # i
      <4>1. fpc[j] \in {"stored", "decoding"} => fin[j] \in InBufs /\ fin[j] # fin[i]
        BY <2>3, <3>2, NoBufAssumption DEF IInv, TypeOK, BufInv, OwnsIn, ExclusiveBuffers
      <4> QED
        BY <2>2, <2>4, <3>2, <4>1 DEF IInv, DataInv
    <3> QED
      BY <3>1, <3>2
  <2> QED
    BY <2>2, <2>5, <2>6, <2>8 DEF IInv
<1>5. CASE ~Entry.zstd
  <2>1. /\ outData' = [outData EXCEPT ![fout[i]] = Stored(Entry, i)]
        /\ Goto(i, "ready") /\ UNCHANGED inData
    BY <1>5 DEF ReadOk
  <2>2. /\ TarInv' /\ BodyInv' /\ ChanInv' /\ FetchInv'
        /\ fpc' \in [Slots -> FetchStates] /\ fpc'[i] = "ready"
        /\ \A j \in Slots : j # i => fpc'[j] = fpc[j]
        /\ Entry' = Entry
    BY <1>1, <2>1, FetchFrame DEF InFlight
  <2>3. fout[i] \in OutBufs
    BY <1>1, <1>5 DEF IInv, TypeOK, BufInv, OwnsOut
  <2>4. /\ outData' \in [OutBufs -> Contents] /\ outData'[fout[i]] = Stored(Entry, i)
        /\ \A c \in OutBufs : c # fout[i] => outData'[c] = outData[c]
    BY <1>3, <2>1, <2>3 DEF IInv, TypeOK
  <2>5. TypeOK'
    BY <1>1, <2>1, <2>2, <2>4 DEF IInv, TypeOK, consumerVars, tarVars, chanVars, ctxVars
  <2>6. BufInv'
    BY <1>1, <1>5, <2>2 DEF IInv, BufInv, ExclusiveBuffers, OwnsIn, OwnsOut
  <2>7. Stored(Entry, i) = Content(Entry.blobs[i], "raw")
    BY <1>5 DEF Stored
  <2>8. DataInv'
    <3> SUFFICES ASSUME NEW j \in Slots
                 PROVE /\ fpc'[j] \in {"stored", "decoding"} =>
                            inData[fin[j]] = Content(Entry.blobs[j], "zstd")
                       /\ fpc'[j] \in {"ready", "received"} =>
                            outData'[fout[j]] = Content(Entry.blobs[j], "raw")
      BY <1>1, <2>1, <2>2 DEF DataInv
    <3>1. CASE j = i
      BY <2>2, <2>4, <2>7, <3>1
    <3>2. CASE j # i
      <4>1. fpc[j] \in {"ready", "received"} => fout[j] \in OutBufs /\ fout[j] # fout[i]
        BY <2>3, <3>2, NoBufAssumption DEF IInv, TypeOK, BufInv, OwnsOut, ExclusiveBuffers
      <4> QED
        BY <2>2, <2>4, <3>2, <4>1 DEF IInv, DataInv
    <3> QED
      BY <3>1, <3>2
  <2> QED
    BY <2>2, <2>5, <2>6, <2>8 DEF IInv
<1> QED
  BY <1>4, <1>5

\* Returning a borrowed input buffer keeps the pool a partition.
LEMMA PutInFacts ==
    ASSUME IInv, NEW i \in Slots, OwnsIn(i), PutIn(i)
    PROVE  /\ freeIn' \in SUBSET InBufs /\ fin' \in [Slots -> InBufs \cup {NoBuf}]
           /\ fin'[i] = NoBuf /\ \A j \in Slots : j # i => fin'[j] = fin[j]
           /\ \A j \in Slots : fin'[j] \notin freeIn'
           /\ \A j, k \in Slots : j # k => (fin'[j] = fin'[k] => fin'[j] = NoBuf)
           /\ \A b \in InBufs : b \in freeIn' \/ \E j \in Slots : fin'[j] = b
<1>1. fin[i] \in InBufs /\ fin[i] # NoBuf
  BY DEF IInv, BufInv, TypeOK
<1>2. /\ freeIn' = freeIn \cup {fin[i]} /\ fin' \in [Slots -> InBufs \cup {NoBuf}]
      /\ fin'[i] = NoBuf /\ \A j \in Slots : j # i => fin'[j] = fin[j]
  BY DEF PutIn, IInv, TypeOK
<1>3. freeIn \in SUBSET InBufs
  BY DEF IInv, TypeOK
<1>4. \A j \in Slots : fin'[j] \notin freeIn'
  BY <1>1, <1>2, <1>3, NoBufAssumption DEF IInv, BufInv, ExclusiveBuffers
<1>5. \A j, k \in Slots : j # k => (fin'[j] = fin'[k] => fin'[j] = NoBuf)
  BY <1>2 DEF IInv, BufInv, ExclusiveBuffers
<1>6. \A b \in InBufs : b \in freeIn' \/ \E j \in Slots : fin'[j] = b
  BY <1>2 DEF IInv, BufInv
<1> QED
  BY <1>1, <1>2, <1>3, <1>4, <1>5, <1>6

\* The same for an output buffer.
LEMMA PutOutFacts ==
    ASSUME IInv, NEW i \in Slots, OwnsOut(i), PutOut(i)
    PROVE  /\ freeOut' \in SUBSET OutBufs /\ fout' \in [Slots -> OutBufs \cup {NoBuf}]
           /\ fout'[i] = NoBuf /\ \A j \in Slots : j # i => fout'[j] = fout[j]
           /\ \A j \in Slots : fout'[j] \notin freeOut'
           /\ \A j, k \in Slots : j # k => (fout'[j] = fout'[k] => fout'[j] = NoBuf)
           /\ \A b \in OutBufs : b \in freeOut' \/ \E j \in Slots : fout'[j] = b
<1>1. fout[i] \in OutBufs /\ fout[i] # NoBuf
  BY DEF IInv, BufInv, TypeOK
<1>2. /\ freeOut' = freeOut \cup {fout[i]} /\ fout' \in [Slots -> OutBufs \cup {NoBuf}]
      /\ fout'[i] = NoBuf /\ \A j \in Slots : j # i => fout'[j] = fout[j]
  BY DEF PutOut, IInv, TypeOK
<1>3. freeOut \in SUBSET OutBufs
  BY DEF IInv, TypeOK
<1>4. \A j \in Slots : fout'[j] \notin freeOut'
  BY <1>1, <1>2, <1>3, NoBufAssumption DEF IInv, BufInv, ExclusiveBuffers
<1>5. \A j, k \in Slots : j # k => (fout'[j] = fout'[k] => fout'[j] = NoBuf)
  BY <1>2 DEF IInv, BufInv, ExclusiveBuffers
<1>6. \A b \in OutBufs : b \in freeOut' \/ \E j \in Slots : fout'[j] = b
  BY <1>2 DEF IInv, BufInv
<1> QED
  BY <1>1, <1>2, <1>3, <1>4, <1>5, <1>6

\* A fetch fails to read and gives its buffers back.
LEMMA ReadErrStep == ASSUME IInv, NEW i \in Slots, ReadErr(i) PROVE IInv'
<1>1. /\ fpc[i] = "reading" /\ Goto(i, "failed") /\ UNCHANGED consumerVars
      /\ UNCHANGED <<inData, outData>>
  BY DEF ReadErr, consumerVars
<1>2. /\ TarInv' /\ BodyInv' /\ ChanInv' /\ FetchInv'
      /\ fpc' \in [Slots -> FetchStates] /\ fpc'[i] = "failed"
      /\ \A j \in Slots : j # i => fpc'[j] = fpc[j]
      /\ Entry' = Entry
  BY <1>1, FetchFrame DEF InFlight
<1>3. CASE Entry.zstd
  <2>1. PutIn(i) /\ UNCHANGED <<fout, freeOut>> /\ OwnsIn(i)
    BY <1>1, <1>3 DEF ReadErr, OwnsIn
  <2>2. TypeOK'
    BY <1>1, <1>2, <2>1, PutInFacts DEF IInv, TypeOK, consumerVars, tarVars, chanVars, ctxVars
  <2>3. BufInv'
    BY <1>1, <1>2, <1>3, <2>1, PutInFacts DEF IInv, BufInv, ExclusiveBuffers, OwnsIn, OwnsOut
  <2>4. DataInv'
    BY <1>1, <1>2, <2>1, PutInFacts DEF IInv, DataInv
  <2> QED
    BY <1>2, <2>2, <2>3, <2>4 DEF IInv
<1>4. CASE ~Entry.zstd
  <2>1. PutOut(i) /\ UNCHANGED <<fin, freeIn>> /\ OwnsOut(i)
    BY <1>1, <1>4 DEF ReadErr, OwnsOut
  <2>2. TypeOK'
    BY <1>1, <1>2, <2>1, PutOutFacts DEF IInv, TypeOK, consumerVars, tarVars, chanVars, ctxVars
  <2>3. BufInv'
    BY <1>1, <1>2, <1>4, <2>1, PutOutFacts DEF IInv, BufInv, ExclusiveBuffers, OwnsIn, OwnsOut
  <2>4. DataInv'
    BY <1>1, <1>2, <2>1, PutOutFacts DEF IInv, DataInv
  <2> QED
    BY <1>2, <2>2, <2>3, <2>4 DEF IInv
<1> QED
  BY <1>3, <1>4

\* A fetch decodes into its output buffer and gives the input back.
LEMMA DecodeStep == ASSUME IInv, NEW i \in Slots, Decode(i) PROVE IInv'
<1>1. /\ fpc[i] = "decoding" /\ Goto(i, "ready") /\ UNCHANGED consumerVars
      /\ UNCHANGED <<fout, freeOut, inData>> /\ PutIn(i)
      /\ outData' = [outData EXCEPT ![fout[i]] = Decoded(inData[fin[i]])]
  BY DEF Decode, consumerVars
<1>2. /\ TarInv' /\ BodyInv' /\ ChanInv' /\ FetchInv'
      /\ fpc' \in [Slots -> FetchStates] /\ fpc'[i] = "ready"
      /\ \A j \in Slots : j # i => fpc'[j] = fpc[j]
      /\ Entry' = Entry
  BY <1>1, FetchFrame DEF InFlight
<1>3. Entry.zstd /\ OwnsIn(i) /\ OwnsOut(i)
  BY <1>1 DEF IInv, BufInv, OwnsIn, OwnsOut
<1>4. Decoded(inData[fin[i]]) = Content(Entry.blobs[i], "raw")
  <2>1. inData[fin[i]] = Content(Entry.blobs[i], "zstd")
    BY <1>1 DEF IInv, DataInv
  <2> QED
    BY <2>1 DEF Decoded, Content
<1>5. Content(Entry.blobs[i], "raw") \in Contents
  BY <1>1, FetchFacts DEF InFlight, Content, Contents
<1>6. fout[i] \in OutBufs
  BY <1>3 DEF IInv, TypeOK, BufInv
<1>7. /\ outData' \in [OutBufs -> Contents]
      /\ outData'[fout[i]] = Content(Entry.blobs[i], "raw")
      /\ \A c \in OutBufs : c # fout[i] => outData'[c] = outData[c]
  BY <1>1, <1>4, <1>5, <1>6 DEF IInv, TypeOK
<1>8. TypeOK'
  BY <1>1, <1>2, <1>3, <1>7, PutInFacts DEF IInv, TypeOK, consumerVars, tarVars, chanVars, ctxVars
<1>9. BufInv'
  BY <1>1, <1>2, <1>3, PutInFacts DEF IInv, BufInv, ExclusiveBuffers, OwnsIn, OwnsOut
<1>10. DataInv'
  <2> SUFFICES ASSUME NEW j \in Slots
               PROVE /\ fpc'[j] \in {"stored", "decoding"} =>
                          inData[fin'[j]] = Content(Entry.blobs[j], "zstd")
                     /\ fpc'[j] \in {"ready", "received"} =>
                          outData'[fout[j]] = Content(Entry.blobs[j], "raw")
    BY <1>1, <1>2 DEF DataInv
  <2>1. CASE j = i
    BY <1>2, <1>7, <2>1
  <2>2. CASE j # i
    <3>1. fpc[j] \in {"ready", "received"} => fout[j] \in OutBufs /\ fout[j] # fout[i]
      BY <1>6, <2>2, NoBufAssumption DEF IInv, TypeOK, BufInv, OwnsOut, ExclusiveBuffers
    <3>2. fin'[j] = fin[j] /\ fpc'[j] = fpc[j]
      BY <1>1, <1>2, <1>3, <2>2, PutInFacts
    <3> QED
      BY <1>7, <3>1, <3>2 DEF IInv, DataInv
  <2> QED
    BY <2>1, <2>2
<1> QED
  BY <1>2, <1>8, <1>9, <1>10 DEF IInv

\* A fetch fails to decode and gives both buffers back.
LEMMA DecodeErrStep == ASSUME IInv, NEW i \in Slots, DecodeErr(i) PROVE IInv'
<1>1. /\ fpc[i] = "decoding" /\ Goto(i, "failed") /\ UNCHANGED consumerVars
      /\ UNCHANGED <<inData, outData>> /\ PutIn(i) /\ PutOut(i)
  BY DEF DecodeErr, consumerVars
<1>2. /\ TarInv' /\ BodyInv' /\ ChanInv' /\ FetchInv'
      /\ fpc' \in [Slots -> FetchStates] /\ fpc'[i] = "failed"
      /\ \A j \in Slots : j # i => fpc'[j] = fpc[j]
      /\ Entry' = Entry
  BY <1>1, FetchFrame DEF InFlight
<1>3. OwnsIn(i) /\ OwnsOut(i)
  BY <1>1 DEF IInv, BufInv, OwnsIn, OwnsOut
<1>4. TypeOK'
  BY <1>1, <1>2, <1>3, PutInFacts, PutOutFacts
     DEF IInv, TypeOK, consumerVars, tarVars, chanVars, ctxVars
<1>5. BufInv'
  BY <1>1, <1>2, <1>3, PutInFacts, PutOutFacts
     DEF IInv, BufInv, ExclusiveBuffers, OwnsIn, OwnsOut
<1>6. DataInv'
  BY <1>1, <1>2, <1>3, PutInFacts, PutOutFacts DEF IInv, DataInv
<1> QED
  BY <1>2, <1>4, <1>5, <1>6 DEF IInv

\* Every step of a fetch preserves the invariant.
LEMMA FetchStep == ASSUME IInv, NEW i \in Slots, Fetch(i) PROVE IInv'
  BY TakeInStep, TakeOutStep, ReadOkStep, ReadErrStep, DecodeStep, DecodeErrStep
     DEF Fetch, FetchLocal

-----------------------------------------------------------------------------
(* Steps of the consumer while it prefetches.                              *)

\* What the invariant says while the consumer is at the futures.
LEMMA ConsumerFacts ==
    ASSUME IInv, Prefetching
    PROVE  /\ cur > 0 /\ cur \in DOMAIN entries /\ Entry \in EntryRecord
           /\ Len(Entry.blobs) \in Slots /\ fileWindow(Entry) \in Nat
           /\ body[cur] \in Seq(Contents) /\ Entry.blobs \in Seq(Blobs)
           /\ sent \in Nat /\ Len(futures) \in Nat /\ MaxChunks \in Nat
           /\ futures \in Seq(Slots) /\ Got \in Nat /\ Got <= sent
           /\ sent <= Len(Entry.blobs)
<1>1. cur > 0
  BY DEF IInv, TarInv
<1>2. sent \in Nat /\ futures \in Seq(Slots) /\ Len(futures) \in Nat
  BY WindowAssumption DEF IInv, TypeOK
<1>3. Got \in Nat /\ Got <= sent /\ sent <= Len(Entry.blobs)
  BY <1>2 DEF IInv, ChanInv, Got
<1> QED
  BY <1>1, <1>2, <1>3, EntryFacts, WindowAssumption DEF IInv

\* Receiving a future, in WriteTo or in drain.
LEMMA ReceiveStep == IInv /\ (Receive \/ DrainReceive) => IInv'
<1> SUFFICES ASSUME IInv, Receive \/ DrainReceive PROVE IInv'
  OBVIOUS
<1>1. /\ pc \in {"range", "drain"} /\ pc' \in {"await", "join"}
      /\ pc = "range" <=> pc' = "await"
      /\ futures # <<>> /\ held' = Head(futures) /\ futures' = Tail(futures)
      /\ UNCHANGED <<tarVars, spc, sent, ctxVars, fpc, bufVars, decOpen>>
  BY DEF Receive, DrainReceive, NextFuture
<1>2. Prefetching /\ Prefetching'
  BY <1>1 DEF Prefetching
<1>3. /\ cur > 0 /\ sent \in Nat /\ Len(futures) \in Nat /\ futures \in Seq(Slots)
      /\ Got \in Nat /\ Got <= sent /\ fileWindow(Entry) \in Nat
  BY <1>2, ConsumerFacts
<1>4. /\ Len(futures) > 0 /\ Len(futures') = Len(futures) - 1
      /\ futures' \in Seq(Slots) /\ Head(futures) = futures[1]
      /\ \A k \in 1..Len(futures') : futures'[k] = futures[k + 1]
  BY <1>1, <1>3
<1>5. /\ \A k \in 1..Len(futures) : futures[k] = Got + k
      /\ held = 0 /\ Len(futures) <= sent /\ Len(futures) <= fileWindow(Entry) - 1
      /\ spc = "spawn" => sent > 0
      /\ sent <= Len(Entry.blobs)
  BY <1>1, <1>2 DEF IInv, ChanInv
<1>6. Got' = Got + 1 /\ held' = Got + 1 /\ held' \in Slots
  <2>1. held' = futures[1]
    BY <1>1, <1>4
  <2>2. Got' = sent - Len(futures')
    BY <1>1 DEF Got
  <2>3. futures[1] \in Slots
    BY <1>3, <1>4
  <2> QED
    BY <1>3, <1>4, <1>5, <2>1, <2>2, <2>3 DEF Got
<1>7. Entry' = Entry /\ fileWindow(Entry)' = fileWindow(Entry)
  BY <1>1 DEF Entry, tarVars, fileWindow
<1>8. TypeOK'
  BY <1>1, <1>4, <1>6 DEF IInv, TypeOK, tarVars, ctxVars, bufVars, Slots
<1>9. TarInv'
  BY <1>1, <1>2, <1>7 DEF IInv, TarInv, tarVars, Prefetching
<1>10. BodyInv'
  <2>1. pc' = "await" => Len(body'[cur']) = held' - 1
    BY <1>1, <1>3, <1>6 DEF IInv, BodyInv, tarVars
  <2> QED
    BY <1>1, <2>1 DEF IInv, BodyInv, BodyPrefix, tarVars
<1>11. ChanInv'
  <2>1. \A k \in 1..Len(futures') : futures'[k] = Got' + k
    BY <1>3, <1>4, <1>5, <1>6
  <2>2. spc' \in {"offer", "spawn", "exit"} /\ fileWindow(Entry)' >= 2
    BY <1>1, <1>2, <1>7 DEF IInv, ChanInv
  <2>3. /\ sent' <= Len(Entry'.blobs) /\ Len(futures') <= sent'
        /\ Len(futures') <= fileWindow(Entry)' - 1
    BY <1>1, <1>3, <1>4, <1>5, <1>7
  <2>4. held' = Got' /\ held' > 0
    BY <1>3, <1>6
  <2> QED
    BY <1>1, <1>2, <1>5, <2>1, <2>2, <2>3, <2>4 DEF ChanInv
<1>12. FetchInv'
  <2> SUFFICES ASSUME NEW j \in Slots
               PROVE IF j > sent \/ (j = sent /\ spc = "spawn") THEN fpc[j] = "none"
                     ELSE IF j > Got' \/ j = held' THEN fpc[j] \in InFlight
                     ELSE fpc[j] = "done"
    BY <1>1, <1>2 DEF FetchInv, Prefetching
  <2>1. j > Got' \/ j = held' <=> j > Got
    BY <1>3, <1>6 DEF Slots
  <2> QED
    BY <1>2, <1>5, <2>1 DEF IInv, FetchInv, Slots
<1>13. BufInv'
  BY <1>1, <1>7 DEF IInv, BufInv, ExclusiveBuffers, OwnsIn, OwnsOut, bufVars
<1>14. DataInv'
  BY <1>1, <1>7 DEF IInv, DataInv, bufVars
<1> QED
  BY <1>8, <1>9, <1>10, <1>11, <1>12, <1>13, <1>14 DEF IInv

\* Leaving the loop over the futures: every fetch has been joined.
LEMMA LoopEndStep == IInv /\ (RangeEnd \/ DrainEnd) => IInv'
<1> SUFFICES ASSUME IInv, RangeEnd \/ DrainEnd PROVE IInv'
  OBVIOUS
<1>1. /\ pc \in {"range", "drain"} /\ futures = <<>> /\ spc = "exit"
      /\ UNCHANGED <<entries, envelope, cur, body, chanVars, held, parentDone, fpc, bufVars>>
      /\ cancelled' = TRUE
      /\ \/ pc' = "sized" /\ UNCHANGED <<status, decOpen>>
         \/ pc' = "returned" /\ status' = "error" /\ decOpen' = FALSE
  BY DEF RangeEnd, DrainEnd, FuturesClosed, Return, tarVars
<1>2. Prefetching /\ ~Prefetching'
  BY <1>1 DEF Prefetching
<1>3. /\ held = 0 /\ sent \in Nat /\ cur > 0
  BY <1>1, <1>2, ConsumerFacts DEF IInv, ChanInv
<1>4. Got = sent
  <2>1. Len(futures) = 0
    BY <1>1
  <2> QED
    BY <1>3, <2>1 DEF Got
<1>5. \A i \in Slots : fpc[i] \in {"none", "done"}
  BY <1>1, <1>2, <1>3, <1>4 DEF IInv, FetchInv, Slots
<1>6. TypeOK'
  <2>1. cancelled' \in BOOLEAN /\ decOpen' \in BOOLEAN
    BY <1>1 DEF IInv, TypeOK
  <2> QED
    BY <1>1, <2>1 DEF IInv, TypeOK, chanVars, bufVars
<1>7. TarInv'
  BY <1>1, <1>2, <1>3 DEF IInv, TarInv, Prefetching, Entry
<1>8. BodyInv'
  BY <1>1 DEF IInv, BodyInv, BodyPrefix
<1>9. ChanInv' /\ FetchInv'
  BY <1>1, <1>2, <1>3, <1>5 DEF ChanInv, FetchInv, chanVars
<1>10. BufInv'
  BY <1>1, <1>5 DEF IInv, BufInv, ExclusiveBuffers, OwnsIn, OwnsOut, bufVars, Entry
<1>11. DataInv'
  BY <1>1, <1>5 DEF DataInv
<1> QED
  BY <1>6, <1>7, <1>8, <1>9, <1>10, <1>11 DEF IInv

\* The future in the consumer's hand is the last one received.
LEMMA HeldFacts ==
    ASSUME IInv, pc \in {"await", "write", "join"}
    PROVE  /\ Prefetching /\ held = Got /\ held \in Slots /\ held <= sent
           /\ held \in 1..Len(Entry.blobs) /\ sent \in Nat /\ Got \in Nat
<1>1. Prefetching
  BY DEF Prefetching
<1>2. held = Got /\ held > 0
  BY <1>1 DEF IInv, ChanInv
<1> QED
  BY <1>1, <1>2, ConsumerFacts DEF Slots

\* The consumer awaits a fetch that succeeded.
LEMMA AwaitOkStep == IInv /\ AwaitOk => IInv'
<1> SUFFICES ASSUME IInv, AwaitOk PROVE IInv'
  OBVIOUS
<1>1. /\ pc = "await" /\ fpc[held] = "ready" /\ pc' = "write"
      /\ fpc' = [fpc EXCEPT ![held] = "received"]
      /\ UNCHANGED <<tarVars, chanVars, held, ctxVars, bufVars, decOpen>>
  BY DEF AwaitOk
<1>2. /\ Prefetching /\ held = Got /\ held \in Slots /\ held <= sent
      /\ sent \in Nat /\ Prefetching'
  BY <1>1, HeldFacts DEF Prefetching
<1>3. /\ fpc' \in [Slots -> FetchStates] /\ fpc'[held] = "received"
      /\ \A j \in Slots : j # held => fpc'[j] = fpc[j]
  BY <1>1, <1>2 DEF IInv, TypeOK, FetchStates
<1>4. Entry' = Entry /\ Got' = Got
  BY <1>1 DEF Entry, tarVars, chanVars, Got
<1>5. TypeOK'
  BY <1>1, <1>3 DEF IInv, TypeOK, tarVars, chanVars, ctxVars, bufVars
<1>6. TarInv'
  BY <1>1, <1>2 DEF IInv, TarInv, tarVars, Prefetching
<1>7. BodyInv'
  BY <1>1 DEF IInv, BodyInv, BodyPrefix, tarVars
<1>8. ~(spc = "spawn" /\ Got = sent)
  BY <1>1, <1>2 DEF IInv, FetchInv
<1>9. ChanInv'
  BY <1>1, <1>2, <1>4, <1>8 DEF IInv, ChanInv, chanVars, fileWindow
<1>10. FetchInv'
  BY <1>1, <1>2, <1>3, <1>4, <1>8 DEF IInv, FetchInv, chanVars, Slots
<1>11. BufInv'
  BY <1>1, <1>2, <1>3, <1>4 DEF IInv, BufInv, ExclusiveBuffers, OwnsIn, OwnsOut, bufVars
<1>12. DataInv'
  BY <1>1, <1>2, <1>3, <1>4 DEF IInv, DataInv, bufVars
<1> QED
  BY <1>5, <1>6, <1>7, <1>9, <1>10, <1>11, <1>12 DEF IInv

\* A future is consumed: its fetch is over and the loop goes on.
LEMMA ConsumeFrame ==
    ASSUME IInv, pc \in {"await", "write", "join"},
           pc # "write" => fpc[held] \in {"ready", "failed"},
           pc' \in {"range", "drain"}, held' = 0,
           fpc' = [fpc EXCEPT ![held] = "done"],
           UNCHANGED <<entries, cur, chanVars>>
    PROVE  /\ ChanInv' /\ FetchInv' /\ Prefetching'
           /\ fpc' \in [Slots -> FetchStates] /\ fpc'[held] = "done"
           /\ \A j \in Slots : j # held => fpc'[j] = fpc[j]
           /\ Entry' = Entry /\ Got' = Got
<1>1. /\ Prefetching /\ held = Got /\ held \in Slots /\ held <= sent
      /\ sent \in Nat /\ Prefetching'
  BY HeldFacts DEF Prefetching
<1>2. /\ fpc' \in [Slots -> FetchStates] /\ fpc'[held] = "done"
      /\ \A j \in Slots : j # held => fpc'[j] = fpc[j]
  BY <1>1 DEF IInv, TypeOK, FetchStates
<1>3. Entry' = Entry /\ Got' = Got
  BY DEF Entry, chanVars, Got
<1>4. ~(spc = "spawn" /\ Got = sent)
  BY <1>1 DEF IInv, FetchInv, ChanInv
<1>5. ChanInv'
  BY <1>1, <1>3, <1>4 DEF IInv, ChanInv, chanVars, fileWindow
<1>6. FetchInv'
  BY <1>1, <1>2, <1>3, <1>4 DEF IInv, FetchInv, chanVars, Slots
<1> QED
  BY <1>1, <1>2, <1>3, <1>5, <1>6

\* A failed fetch is joined.
LEMMA JoinErrStep == IInv /\ (AwaitErr \/ DrainJoinErr) => IInv'
<1> SUFFICES ASSUME IInv, AwaitErr \/ DrainJoinErr PROVE IInv'
  OBVIOUS
<1>1. /\ pc \in {"await", "join"} /\ fpc[held] = "failed" /\ pc' = "drain"
      /\ fpc' = [fpc EXCEPT ![held] = "done"] /\ held' = 0
      /\ UNCHANGED <<tarVars, chanVars, parentDone, bufVars, decOpen>>
      /\ cancelled' \in BOOLEAN
  BY DEF AwaitErr, DrainJoinErr, StartDrain, ctxVars, IInv, TypeOK
<1>2. /\ ChanInv' /\ FetchInv' /\ Prefetching'
      /\ fpc' \in [Slots -> FetchStates] /\ fpc'[held] = "done"
      /\ \A j \in Slots : j # held => fpc'[j] = fpc[j]
      /\ Entry' = Entry /\ Got' = Got
  BY <1>1, ConsumeFrame DEF tarVars
<1>3. held \in Slots /\ Prefetching
  BY <1>1, HeldFacts
<1>4. TypeOK'
  BY <1>1, <1>2, <1>3, WindowAssumption DEF IInv, TypeOK, tarVars, chanVars, bufVars
<1>5. TarInv'
  BY <1>1, <1>3 DEF IInv, TarInv, tarVars, Prefetching
<1>6. BodyInv'
  BY <1>1 DEF IInv, BodyInv, BodyPrefix, tarVars
<1>7. BufInv'
  BY <1>1, <1>2, <1>3 DEF IInv, BufInv, ExclusiveBuffers, OwnsIn, OwnsOut, bufVars
<1>8. DataInv'
  BY <1>1, <1>2, <1>3 DEF IInv, DataInv, bufVars
<1> QED
  BY <1>2, <1>4, <1>5, <1>6, <1>7, <1>8 DEF IInv

\* The buffer of a consumed future goes back to the pool.
LEMMA PutHeldFrame ==
    ASSUME IInv, pc \in {"write", "join"}, pc = "join" => fpc[held] = "ready",
           pc' \in {"range", "drain"}, PutHeld, cancelled' \in BOOLEAN,
           UNCHANGED <<entries, envelope, cur, status, chanVars, parentDone, fin,
                       freeIn, inData, outData, decOpen>>
    PROVE  /\ ChanInv' /\ FetchInv' /\ BufInv' /\ DataInv' /\ Prefetching'
           /\ Entry' = Entry /\ Got' = Got
           /\ body' \in [DOMAIN entries -> Seq(Contents)] => TypeOK'
<1>1. /\ fpc' = [fpc EXCEPT ![held] = "done"] /\ held' = 0
      /\ freeOut' = freeOut \cup {fout[held]} /\ fout' = [fout EXCEPT ![held] = NoBuf]
  BY DEF PutHeld
<1>2. /\ ChanInv' /\ FetchInv' /\ Prefetching'
      /\ fpc' \in [Slots -> FetchStates] /\ fpc'[held] = "done"
      /\ \A j \in Slots : j # held => fpc'[j] = fpc[j]
      /\ Entry' = Entry /\ Got' = Got
  BY <1>1, ConsumeFrame
<1>3. held \in Slots /\ Prefetching /\ held = Got /\ held <= sent
      /\ sent \in Nat /\ Got \in Nat
  BY HeldFacts
<1>4. fpc[held] \in {"ready", "received"}
  BY <1>3 DEF IInv, FetchInv, ChanInv
<1>5. OwnsOut(held) /\ PutOut(held)
  BY <1>1, <1>4 DEF OwnsOut, PutOut
<1>6. BufInv'
  BY <1>2, <1>3, <1>4, <1>5, PutOutFacts
     DEF IInv, BufInv, ExclusiveBuffers, OwnsIn, OwnsOut
<1>7. DataInv'
  BY <1>2, <1>3, <1>5, PutOutFacts DEF IInv, DataInv
<1>8. body' \in [DOMAIN entries -> Seq(Contents)] => TypeOK'
  <2>1. /\ freeOut' \in SUBSET OutBufs /\ fout' \in [Slots -> OutBufs \cup {NoBuf}]
        /\ held' \in 0..MaxChunks
    BY <1>1, <1>3, <1>5, PutOutFacts, WindowAssumption
  <2> QED
    BY <1>2, <2>1 DEF IInv, TypeOK, chanVars
<1> QED
  BY <1>2, <1>6, <1>7, <1>8

\* The tar write failed, or a prefetched chunk is dropped by drain.
LEMMA DropStep == IInv /\ (WriteErr \/ DrainJoinOk) => IInv'
<1> SUFFICES ASSUME IInv, WriteErr \/ DrainJoinOk PROVE IInv'
  OBVIOUS
<1>1. /\ pc \in {"write", "join"} /\ (pc = "join" => fpc[held] = "ready")
      /\ pc' = "drain" /\ PutHeld /\ cancelled' \in BOOLEAN
      /\ UNCHANGED <<tarVars, chanVars, parentDone, fin, freeIn, inData, outData, decOpen>>
  BY DEF WriteErr, DrainJoinOk, StartDrain, ctxVars, IInv, TypeOK
<1>2. /\ ChanInv' /\ FetchInv' /\ BufInv' /\ DataInv' /\ TypeOK'
  BY <1>1, PutHeldFrame DEF tarVars, IInv, TypeOK
<1>3. TarInv'
  BY <1>1 DEF IInv, TarInv, tarVars, Prefetching
<1>4. BodyInv'
  BY <1>1 DEF IInv, BodyInv, BodyPrefix, tarVars
<1> QED
  BY <1>2, <1>3, <1>4 DEF IInv

\* The chunk written is the next one of the body.
LEMMA WriteStep == IInv /\ Write => IInv'
<1> SUFFICES ASSUME IInv, Write PROVE IInv'
  OBVIOUS
<1>1. /\ pc = "write" /\ pc' = "range" /\ PutHeld /\ HasRoom
      /\ body' = [body EXCEPT ![cur] = Append(body[cur], outData[fout[held]])]
      /\ UNCHANGED <<entries, envelope, cur, status, chanVars, ctxVars, fin,
                     freeIn, inData, outData, decOpen>>
  BY DEF Write, AppendChunk
<1>2. /\ Prefetching /\ held = Got /\ held \in Slots /\ held <= sent
      /\ held \in 1..Len(Entry.blobs) /\ sent \in Nat /\ Got \in Nat
  BY <1>1, HeldFacts
<1>3. /\ cur > 0 /\ cur \in DOMAIN entries /\ body[cur] \in Seq(Contents)
      /\ Entry \in EntryRecord /\ Entry.blobs \in Seq(Blobs)
  BY <1>2, ConsumerFacts
<1>4. fpc[held] = "received"
  BY <1>1, <1>2 DEF IInv, FetchInv, ChanInv
<1>5. outData[fout[held]] = Content(Entry.blobs[held], "raw")
  BY <1>2, <1>4 DEF IInv, DataInv
<1> DEFINE n == Len(body[cur])
           c == Content(Entry.blobs[n + 1], "raw")
<1>6. n = held - 1 /\ n \in Nat /\ n < Len(Entry.blobs) /\ n < Entry.size
  BY <1>1, <1>2, <1>3 DEF IInv, BodyInv, HasRoom
<1>7. outData[fout[held]] = c /\ c \in Contents
  <2>1. held = n + 1
    BY <1>2, <1>6
  <2>2. Entry.blobs[held] \in Blobs
    BY <1>2, <1>3
  <2> QED
    BY <1>5, <2>1, <2>2 DEF Content, Contents
<1> HIDE DEF n, c
<1>8. /\ body'[cur] = Append(body[cur], c) /\ Len(body'[cur]) = n + 1
      /\ \A f \in DOMAIN entries : f # cur => body'[f] = body[f]
      /\ body' \in [DOMAIN entries -> Seq(Contents)]
  BY <1>1, <1>3, <1>7 DEF IInv, TypeOK, n
<1>9. cancelled' \in BOOLEAN /\ UNCHANGED parentDone
  BY <1>1 DEF ctxVars, IInv, TypeOK
<1>10. /\ ChanInv' /\ FetchInv' /\ BufInv' /\ DataInv' /\ TypeOK' /\ Got' = Got
  BY <1>1, <1>8, <1>9, PutHeldFrame
<1>11. TarInv'
  BY <1>1 DEF IInv, TarInv, Prefetching
<1>12. BodyInv'
  <2>1. BodyPrefix(cur)'
    BY <1>1, <1>3, <1>6, <1>8 DEF IInv, BodyInv, BodyPrefix, c, n, Entry
  <2>2. \A f \in DOMAIN entries : f # cur => BodyPrefix(f)'
    BY <1>1, <1>8 DEF IInv, BodyInv, BodyPrefix
  <2>3. Len(body'[cur]) = Got'
    BY <1>2, <1>6, <1>8, <1>10
  <2>4. Entry.size \in Nat /\ Entry = entries[cur] /\ cur \in Nat
    BY <1>3 DEF Entry, EntryRecord, IInv, TypeOK
  <2>5. Len(body'[cur]) <= entries[cur].size
    BY <1>6, <1>8, <2>4
  <2>6. ASSUME NEW f \in DOMAIN entries
        PROVE  /\ Len(body'[f]) <= entries[f].size
               /\ f < cur => Len(body'[f]) = entries[f].size
               /\ f > cur => body'[f] = <<>>
    <3>1. CASE f = cur
      BY <2>4, <2>5, <3>1
    <3>2. CASE f # cur
      BY <1>8, <3>2 DEF IInv, BodyInv
    <3> QED
      BY <3>1, <3>2
  <2> QED
    BY <1>1, <2>1, <2>2, <2>3, <2>6 DEF BodyInv
<1> QED
  BY <1>10, <1>11, <1>12 DEF IInv

-----------------------------------------------------------------------------
(* The invariant and its consequences.                                     *)

\* The cancellation and a stuttering step.
LEMMA IdleStep == IInv /\ (CancelParent \/ UNCHANGED vars) => IInv'
<1> SUFFICES ASSUME IInv, CancelParent \/ UNCHANGED vars PROVE IInv'
  OBVIOUS
<1>1. /\ UNCHANGED <<tarVars, pc, chanVars, held, cancelled, fpc, bufVars, decOpen>>
      /\ parentDone' \in BOOLEAN
  BY DEF CancelParent, vars, ctxVars, IInv, TypeOK
<1>2. TypeOK'
  BY <1>1 DEF IInv, TypeOK, tarVars, chanVars, bufVars
<1>3. TarInv' /\ BodyInv'
  BY <1>1 DEF IInv, TarInv, BodyInv, BodyPrefix, Prefetching, Entry, Got, tarVars, chanVars
<1>4. ChanInv'
  BY <1>1 DEF IInv, ChanInv, Prefetching, Entry, Got, tarVars, chanVars
<1>5. FetchInv'
  BY <1>1 DEF IInv, FetchInv, Prefetching, Got, chanVars
<1>6. BufInv' /\ DataInv'
  BY <1>1 DEF IInv, BufInv, ExclusiveBuffers, OwnsIn, OwnsOut, DataInv, Entry,
     tarVars, bufVars
<1> QED
  BY <1>2, <1>3, <1>4, <1>5, <1>6 DEF IInv

\* Every step of the pipeline preserves the invariant.
LEMMA NextIInv == IInv /\ [Next]_vars => IInv'
<1> SUFFICES ASSUME IInv, [Next]_vars PROVE IInv'
  OBVIOUS
<1>1. CASE Consumer
  BY <1>1, SequentialStep, OpenEntryStep, ReceiveStep, LoopEndStep, AwaitOkStep,
     JoinErrStep, DropStep, WriteStep DEF Consumer, Sequential
<1>2. CASE CopyChunk \/ CopyErr
  BY <1>2, SequentialStep DEF Sequential
<1>3. CASE Spawner
  BY <1>3, OfferStep, SpawnerExitStep, SpawnStep DEF Spawner
<1>4. CASE \E i \in Slots : Fetch(i)
  BY <1>4, FetchStep
<1>5. CASE CancelParent \/ Terminated \/ UNCHANGED vars
  BY <1>5, IdleStep DEF Terminated
<1> QED
  BY <1>1, <1>2, <1>3, <1>4, <1>5 DEF Next

\* The invariant holds in every behaviour of the pipeline.
THEOREM Invariance == Spec => []IInv
<1>1. Init => IInv
  BY InitIInv
<1>2. IInv /\ [Next]_vars => IInv'
  BY NextIInv
<1> QED
  BY <1>1, <1>2, PTL DEF Spec

\* Type correctness of the pull pipeline.
THEOREM TypeCorrect == Spec => []TypeOK
<1>1. IInv => TypeOK
  BY DEF IInv
<1> QED
  BY <1>1, Invariance, PTL

\* The tar holds the chunks in order, and no entry is left, and no success
\* returned, with a body of the wrong size.
THEOREM TarIsFaithful == Spec => []TarFaithful
<1>1. IInv => TarFaithful
  <2> SUFFICES ASSUME IInv, NEW f \in DOMAIN entries
               PROVE  /\ BodyPrefix(f)
                      /\ f < cur \/ status = "ok" => Len(body[f]) = entries[f].size
    BY DEF TarFaithful
  <2>1. BodyPrefix(f) /\ (f < cur => Len(body[f]) = entries[f].size)
    BY DEF IInv, BodyInv
  <2>2. entries \in Seq(EntryRecord) /\ f \in 1..Len(entries)
    BY PlansAssumption DEF IInv, TypeOK
  <2>3. status = "ok" /\ ~(f < cur) => Len(body[f]) = entries[f].size
    BY <2>2 DEF IInv, TarInv, Entry
  <2> QED
    BY <2>1, <2>3
<1> QED
  BY <1>1, Invariance, PTL

\* No buffer is ever shared or used after it went back to its pool.
THEOREM BuffersExclusive == Spec => []ExclusiveBuffers
<1>1. IInv => ExclusiveBuffers
  BY DEF IInv, BufInv
<1> QED
  BY <1>1, Invariance, PTL

\* Between files and after return nothing is in flight and no buffer lost.
THEOREM NothingLeftInFlight == Spec => []NothingInFlight
<1>1. IInv => NothingInFlight
  <2> SUFFICES ASSUME IInv, pc \in {"entry", "sized", "returned"}
               PROVE  /\ spc \in {"idle", "exit"} /\ futures = <<>>
                      /\ \A i \in Slots : ~Live(i)
                      /\ freeIn = InBufs /\ freeOut = OutBufs
    BY DEF NothingInFlight
  <2>1. /\ spc \in {"idle", "exit"} /\ futures = <<>>
        /\ \A i \in Slots : fpc[i] \in {"none", "done"}
    BY DEF IInv, ChanInv, FetchInv, Prefetching
  <2>2. \A i \in Slots : fin[i] = NoBuf /\ fout[i] = NoBuf
    BY <2>1 DEF IInv, BufInv, OwnsIn, OwnsOut
  <2>3. freeIn = InBufs /\ freeOut = OutBufs
    <3>1. \A b \in InBufs : b \in freeIn
      BY <2>2, NoBufAssumption DEF IInv, BufInv
    <3>2. \A b \in OutBufs : b \in freeOut
      BY <2>2, NoBufAssumption DEF IInv, BufInv
    <3>3. freeIn \subseteq InBufs /\ freeOut \subseteq OutBufs
      BY DEF IInv, TypeOK
    <3> QED
      BY <3>1, <3>2, <3>3
  <2> QED
    BY <2>1, <2>3 DEF Live
<1> QED
  BY <1>1, Invariance, PTL

\* The decoder is never closed under a running fetch.
THEOREM DecoderSafe == Spec => []DecoderOutlivesFetches
<1>1. IInv => DecoderOutlivesFetches
  <2> SUFFICES ASSUME IInv, ~decOpen PROVE \A i \in Slots : ~Live(i)
    BY DEF DecoderOutlivesFetches
  <2>1. decOpen <=> pc # "returned"
    BY Zenon DEF IInv, TarInv
  <2>2. pc = "returned"
    BY <2>1
  <2> QED
    BY <2>2 DEF IInv, FetchInv, Prefetching, Live
<1> QED
  BY <1>1, Invariance, PTL

\* If every member of a finite set of buffers is borrowed by a fetch of a set
\* L, then there are at least as many fetches in L as buffers.
LEMMA BorrowersBound ==
    ASSUME NEW B, NEW L, IsFiniteSet(B), IsFiniteSet(L), NEW owner,
           \A b \in B : \E j \in L : owner[j] = b
    PROVE  Cardinality(B) <= Cardinality(L)
<1> DEFINE g == [b \in B |-> CHOOSE j \in L : owner[j] = b]
<1>1. \A b \in B : g[b] \in L /\ owner[g[b]] = b
  OBVIOUS
<1>2. g \in Injection(B, L)
  BY <1>1 DEF Injection, IsInjective
<1> QED
  BY <1>2, FS_Injection

\* The fetches in flight fit the window.
LEMMA LiveFitsWindow ==
    ASSUME IInv, NEW i \in Slots, fpc[i] \in InFlight
    PROVE  LET L == {j \in Slots : Live(j)} \ {i}
           IN  IsFiniteSet(L) /\ Cardinality(L) < Window
<1> DEFINE L == {j \in Slots : Live(j)}
           I == Got .. sent
           J == (Got + 1) .. sent
<1>1. Prefetching
  BY FetchFacts
<1>2. /\ sent \in Nat /\ Got \in Nat /\ Got <= sent /\ Len(futures) \in Nat
      /\ fileWindow(Entry) \in Nat /\ cur > 0
  BY <1>1, ConsumerFacts
<1>3. sent - Got = Len(futures)
  BY <1>2 DEF Got
<1>4. Len(futures) <= fileWindow(Entry) - 1 /\ fileWindow(Entry) <= Window /\ Window \in Nat
  BY <1>1, <1>2, EntryFacts, WindowAssumption DEF IInv, ChanInv
<1>5. L \subseteq I
  <2> SUFFICES ASSUME NEW j \in Slots, Live(j) PROVE j \in I
    OBVIOUS
  <2>1. j <= sent /\ (j > Got \/ j = held)
    BY <1>1, <1>2 DEF IInv, FetchInv, Live, Slots
  <2>2. j = held => j = Got
    BY <1>1 DEF IInv, ChanInv, Slots
  <2> QED
    BY <1>2, <2>1, <2>2 DEF Slots
<1>6. IsFiniteSet(I) /\ Cardinality(I) = Len(futures) + 1
  BY <1>2, <1>3, FS_Interval
<1>7. IsFiniteSet(L) /\ Cardinality(L) <= Len(futures) + 1
  BY <1>5, <1>6, FS_Subset
<1>8. i \in L
  BY DEF Live, InFlight
<1>9. /\ IsFiniteSet(L \ {i}) /\ Cardinality(L \ {i}) = Cardinality(L) - 1
      /\ Cardinality(L) \in Nat
  BY <1>7, <1>8, FS_RemoveElement, FS_CardinalityType
<1> QED
  BY <1>2, <1>4, <1>7, <1>9

\* A fetch that needs a buffer finds one in the pool: the bound on futures
\* makes the pools large enough for every interleaving.
THEOREM PoolsSuffice == Spec => []TakesNeverBlock
<1>1. IInv => TakesNeverBlock
  <2> SUFFICES ASSUME IInv, NEW i \in Slots, fpc[i] \in {"start", "stored"}
               PROVE  /\ fpc[i] = "start" /\ Entry.zstd => freeIn # {}
                      /\ freeOut # {}
    BY DEF TakesNeverBlock
  <2> DEFINE L == {j \in Slots : Live(j)} \ {i}
  <2>1. IsFiniteSet(L) /\ Cardinality(L) < Window
    BY LiveFitsWindow DEF InFlight
  <2>2. Window >= 2 /\ Window \in Nat
    <3>1. Prefetching /\ cur > 0
      BY FetchFacts DEF InFlight
    <3> QED
      BY <3>1, EntryFacts, WindowAssumption DEF IInv, ChanInv
  <2>3. /\ IsFiniteSet(InBufs) /\ Cardinality(InBufs) = Window
        /\ IsFiniteSet(OutBufs) /\ Cardinality(OutBufs) = Window + 1
    BY <2>2, PoolAssumption
  <2>4. Cardinality(L) \in Nat
    BY <2>1, FS_CardinalityType
  <2>5. ASSUME fpc[i] = "start", freeIn = {} PROVE FALSE
    <3>1. \A b \in InBufs : \E j \in L : fin[j] = b
      BY <2>5, NoBufAssumption DEF IInv, BufInv, OwnsIn, Live
    <3> HIDE DEF L
    <3>2. Cardinality(InBufs) <= Cardinality(L)
      BY <2>1, <2>3, <3>1, BorrowersBound
    <3> QED
      BY <2>1, <2>2, <2>3, <2>4, <3>2
  <2>6. ASSUME freeOut = {} PROVE FALSE
    <3>1. \A b \in OutBufs : \E j \in L : fout[j] = b
      BY <2>6, NoBufAssumption DEF IInv, BufInv, OwnsOut, Live
    <3> HIDE DEF L
    <3>2. Cardinality(OutBufs) <= Cardinality(L)
      BY <2>1, <2>3, <3>1, BorrowersBound
    <3> QED
      BY <2>1, <2>2, <2>3, <2>4, <3>2
  <2> QED
    BY <2>5, <2>6
<1> QED
  BY <1>1, Invariance, PTL

-----------------------------------------------------------------------------
(* Refinement: the pipeline implements ImportStream.                       *)

\* The initial states are initial states of ImportStream.
LEMMA InitRefines == Init => Tar!Init
  BY DEF Init, Tar!Init

\* Steps that do not write to the tar.
Silent == UNCHANGED tarVars

\* Steps that leave the tar and the outcome alone.
LEMMA SilentSteps ==
    ASSUME IInv, Next,
           ~(WriteEnvelope \/ OpenEntry \/ CopyChunk \/ Write),
           status' = status
    PROVE  Silent
<1>1. \A i \in Slots : Fetch(i) => Silent
  BY DEF Fetch, FetchLocal, TakeIn, TakeOut, ReadOk, ReadErr, Decode, DecodeErr, Silent
<1>2. Spawner => Silent
  BY DEF Spawner, Offer, OfferCancelled, Spawn, SpawnerEnd, Silent
<1>3. CopyErr => Silent
  BY DEF CopyErr, Silent, tarVars
<1>4. CancelParent \/ Terminated => Silent
  BY DEF CancelParent, Terminated, vars, Silent
<1>5. Consumer => Silent
  BY DEF Consumer, EnvelopeErr, HeaderErr, CopyEnd, SizeCheck, SizeErr, Receive,
     RangeEnd, AwaitOk, AwaitErr, WriteErr, DrainReceive, DrainJoinOk,
     DrainJoinErr, DrainEnd, Finish, FinishErr, Silent, tarVars
<1> QED
  BY <1>1, <1>2, <1>3, <1>4, <1>5 DEF Next

\* A step that ends the call.
LEMMA ReturnSteps ==
    ASSUME IInv, Next, status' # status
    PROVE  /\ pc # "returned" /\ UNCHANGED <<entries, envelope, cur, body>>
           /\ \/ status' = "error"
              \/ status' = "ok" /\ pc = "entry" /\ cur = Len(entries)
<1>1. ~(\E i \in Slots : Fetch(i))
  BY DEF Fetch, FetchLocal, TakeIn, TakeOut, ReadOk, ReadErr, Decode, DecodeErr, tarVars
<1>2. ~Spawner /\ ~CopyChunk /\ ~CancelParent /\ ~Terminated
  BY DEF Spawner, Offer, OfferCancelled, Spawn, SpawnerEnd, CopyChunk,
     CancelParent, Terminated, vars, tarVars
<1>3. CASE CopyErr
  BY <1>3 DEF CopyErr, Return
<1>4. CASE Consumer
  BY <1>4 DEF Consumer, WriteEnvelope, OpenEntry, Write, EnvelopeErr, HeaderErr,
     CopyEnd, SizeCheck, SizeErr, Receive, RangeEnd, AwaitOk, AwaitErr, WriteErr,
     DrainReceive, DrainJoinOk, DrainJoinErr, DrainEnd, Finish, FinishErr, Return, tarVars
<1> QED
  BY <1>1, <1>2, <1>3, <1>4 DEF Next

\* Every step of the pipeline is a step of ImportStream or leaves the tar alone.
LEMMA StepRefines == IInv /\ [Next]_vars => [Tar!Next]_(Tar!vars)
<1> SUFFICES ASSUME IInv, [Next]_vars PROVE Tar!Next \/ UNCHANGED Tar!vars
  OBVIOUS
<1>0. status = "running" <=> pc # "returned"
  BY Zenon DEF IInv, TarInv
<1>1. CASE UNCHANGED vars
  BY <1>1 DEF vars, tarVars, Tar!vars
<1>2. CASE WriteEnvelope
  <2>1. Tar!Begin
    BY <1>0, <1>2 DEF WriteEnvelope, Tar!Begin, IInv, TarInv
  <2> QED
    BY <2>1 DEF Tar!Next
<1>3. CASE OpenEntry
  <2>1. envelope /\ (cur > 0 => Len(body[cur]) = entries[cur].size)
    BY <1>3 DEF OpenEntry, IInv, TarInv, Entry
  <2>2. Tar!Open
    BY <1>0, <1>3, <2>1 DEF OpenEntry, Tar!Open, Tar!Complete
  <2> QED
    BY <2>2 DEF Tar!Next
<1>4. CASE CopyChunk
  <2>1. cur > 0 /\ pc = "copy"
    BY <1>4 DEF CopyChunk, IInv, TarInv
  <2>2. Tar!Emit
    BY <1>0, <1>4, <2>1 DEF CopyChunk, Tar!Emit, Tar!Wanted, Tar!Content, Content,
       HasRoom, AppendChunk, Entry
  <2> QED
    BY <2>2 DEF Tar!Next
<1>5. CASE Write
  <2>1. pc = "write" /\ HasRoom
    BY <1>5 DEF Write
  <2>2. /\ Prefetching /\ held \in Slots /\ held = Got /\ held <= sent
        /\ held \in 1..Len(Entry.blobs) /\ sent \in Nat
    BY <2>1, HeldFacts
  <2>3. cur > 0 /\ body[cur] \in Seq(Contents)
    BY <2>2, ConsumerFacts
  <2>4. Len(body[cur]) = held - 1
    BY <2>1 DEF IInv, BodyInv
  <2>5. held = Len(body[cur]) + 1 /\ Len(body[cur]) < Len(Entry.blobs)
    BY <2>2, <2>3, <2>4
  <2>6. outData[fout[held]] = Content(Entry.blobs[held], "raw")
    BY <2>1, <2>2 DEF IInv, DataInv, FetchInv, ChanInv
  <2>7. body' = [body EXCEPT ![cur] = Append(body[cur], Tar!Wanted(entries[cur], Len(body[cur]) + 1))]
    BY <1>5, <2>5, <2>6 DEF Write, AppendChunk, Tar!Wanted, Tar!Content, Content, Entry
  <2>8. Tar!Emit
    BY <1>0, <1>5, <2>1, <2>3, <2>5, <2>7 DEF Write, Tar!Emit, HasRoom, Entry
  <2> QED
    BY <2>8 DEF Tar!Next
<1>6. CASE Next /\ status' # status
  <2>1. /\ pc # "returned" /\ UNCHANGED <<entries, envelope, cur, body>>
        /\ \/ status' = "error"
           \/ status' = "ok" /\ pc = "entry" /\ cur = Len(entries)
    BY <1>6, ReturnSteps
  <2>2. CASE status' = "error"
    BY <1>0, <2>1, <2>2 DEF Tar!Fail, Tar!Next
  <2>3. CASE status' = "ok" /\ pc = "entry" /\ cur = Len(entries)
    <3>1. envelope /\ (cur > 0 => Len(body[cur]) = entries[cur].size)
      BY <2>3 DEF IInv, TarInv, Entry
    <3> QED
      BY <1>0, <2>1, <2>3, <3>1 DEF Tar!Finish, Tar!Complete, Tar!Next
  <2> QED
    BY <2>1, <2>2, <2>3
<1>7. CASE Next /\ status' = status /\ ~(WriteEnvelope \/ OpenEntry \/ CopyChunk \/ Write)
  BY <1>7, SilentSteps DEF Silent, tarVars, Tar!vars
<1> QED
  BY <1>1, <1>2, <1>3, <1>4, <1>5, <1>6, <1>7

\* The prefetching pipeline implements the sequential promise of Stream.
THEOREM PullRefines == Spec => ImplementsImportStream
<1>1. Init => Tar!Init
  BY InitRefines
<1>2. IInv /\ [Next]_vars => [Tar!Next]_(Tar!vars)
  BY StepRefines
<1> QED
  BY <1>1, <1>2, Invariance, PTL DEF Spec, ImplementsImportStream, Tar!Spec
=============================================================================
