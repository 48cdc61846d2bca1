------------------------------ MODULE BlobSize ------------------------------
(***************************************************************************)
(* ociutil.BlobSizeChecker: a reader that lets a blob through only if it   *)
(* has exactly the size its descriptor announces (ociutil/ociutil.go).     *)
(*                                                                         *)
(* The checker sits on an io.LimitedReader on the body.  The body is an    *)
(* io.Reader and takes the liberties the interface gives it: short reads,  *)
(* EOF with the last bytes or after them, an error at any time, and, when  *)
(* ZeroReads, no bytes and no error.  Its caller, io.Copy or io.ReadFull,  *)
(* reads with a buffer of any length until the checker reports an end.     *)
(***************************************************************************)
EXTENDS Integers

CONSTANTS Sizes,    \* sizes a descriptor may announce
          Totals,   \* bytes a blob may really have
          MaxRead,  \* bound: length of the caller's buffer
          ZeroReads \* the body may return 0, nil

ASSUME BoundsAssumption == /\ Sizes \subseteq Int /\ Totals \subseteq Nat
                           /\ MaxRead \in Nat \ {0} /\ ZeroReads \in BOOLEAN

VARIABLES size, total,
          left,      \* bytes the body has not returned yet
          N,         \* lim.N: what the LimitedReader still lets through
          done,      \* v.done
          delivered, \* bytes the caller got
          failed,    \* the body has returned an error
          seen       \* what the caller knows: "more", "eof" or "error"

vars == <<size, total, left, N, done, delivered, failed, seen>>

Init == /\ size \in Sizes /\ total \in Totals
        /\ left = total /\ N = size /\ done = FALSE /\ delivered = 0
        /\ failed = FALSE /\ seen = "more"

\* What body.Read of a buffer of n bytes may return, with b bytes to go.
Returns(b, n) ==
    {r \in [n : 0..n, err : {"nil", "eof", "fail"}] :
        /\ r.n <= b
        /\ r.err = "eof" => r.n = b
        /\ r.err = "nil" /\ r.n = 0 => ZeroReads}

\* Fault: a blob that goes on after its announced size is not noticed.
finish_NoProbe(b, limit, verdict) ==
    /\ verdict = IF limit > 0 THEN "short" ELSE "exact"
    /\ left' = b /\ UNCHANGED failed

\* Fault: an exhausted limit counts as a missing byte.
finish_OffByOne(b, limit, verdict) ==
    /\ limit >= 0
    /\ verdict = "short"
    /\ left' = b /\ UNCHANGED failed

\* finish: the limit must be used up, and a probe of one byte must find none.
finish(b, limit, verdict) ==
    \/ /\ limit > 0
       /\ verdict = "short"
       /\ left' = b /\ UNCHANGED failed
    \/ /\ limit <= 0
       /\ \E probe \in Returns(b, 1) :
            /\ left' = b - probe.n
            /\ failed' = (failed \/ probe.err = "fail")
            /\ verdict = IF probe.n > 0 THEN "long"
                         ELSE IF probe.err = "fail" THEN "failed" ELSE "exact"

\* The caller is told: the end comes one call after the last bytes.
Conclude(n, verdict) ==
    IF verdict # "exact" THEN seen' = "error" /\ UNCHANGED done
    ELSE /\ done' = TRUE
         /\ seen' = IF n > 0 THEN "more" ELSE "eof"

Verdicts == {"short", "long", "failed", "exact"}

ReadDone ==
    /\ seen = "more" /\ done
    /\ seen' = "eof"
    /\ UNCHANGED <<size, total, left, N, done, delivered, failed>>

\* The LimitedReader is at its limit and reports EOF by itself.
ReadLimit ==
    /\ seen = "more" /\ ~done /\ N <= 0
    /\ \E verdict \in Verdicts : finish(left, N, verdict) /\ Conclude(0, verdict)
    /\ UNCHANGED <<size, total, N, delivered>>

\* The LimitedReader reads from the body.
ReadBody ==
    /\ seen = "more" /\ ~done /\ N > 0
    /\ \E len \in 1..MaxRead :
       \E r \in Returns(left, IF len <= N THEN len ELSE N) :
         /\ N' = N - r.n /\ delivered' = delivered + r.n
         /\ \/ /\ r.err = "nil"
               /\ left' = left - r.n /\ UNCHANGED <<done, failed, seen>>
            \/ /\ r.err = "fail"
               /\ left' = left - r.n /\ failed' = TRUE
               /\ seen' = "error" /\ UNCHANGED done
            \/ /\ r.err = "eof"
               /\ \E verdict \in Verdicts : /\ finish(left - r.n, N - r.n, verdict)
                                            /\ Conclude(r.n, verdict)
    /\ UNCHANGED <<size, total>>

Ended == seen # "more" /\ UNCHANGED vars

Next == ReadDone \/ ReadLimit \/ ReadBody \/ Ended

Spec == Init /\ [][Next]_vars

-----------------------------------------------------------------------------
(* Properties.                                                             *)

\* "enforces exact size and no trailing data" (ociutil.go:20): a caller that
\* reaches the end without an error got the whole blob, and the blob has the
\* announced size, however the body cuts its reads and signals its end.
ExactSize == seen = "eof" /\ size >= 0 => delivered = size /\ total = size

\* No caller is handed more than was announced, whatever the blob has and
\* however long the buffers it reads with: a tar entry cannot be overrun
\* (pull.go:304).
NeverBeyond == size >= 0 => delivered <= size

\* A blob of the right size whose body does not fail is never refused.
NoFalseAlarm == seen = "error" /\ total = size => failed
=============================================================================
