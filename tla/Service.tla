------------------------------ MODULE Service ------------------------------
(***************************************************************************)
(* A cocoon service as docs/runtime.md and docs/kubernetes.md put one      *)
(* together: a key pair from k8s.LoadOrGenerateCert (k8s/tls.go), servers  *)
(* under httpx.Run, and two background loops on the same context, one in   *)
(* k8s.RunTicker and one around k8s.SleepCtx (k8s/ctx.go).                 *)
(*                                                                         *)
(* While the pair is loaded somebody rotates it: certificate and key are   *)
(* two files, replaced or missing one at a time.  A file holds the version *)
(* of the pair it belongs to, 0 when it is missing.                        *)
(***************************************************************************)
EXTENDS HttpxRun

CONSTANT MaxVersion  \* bound: versions of the key pair

ASSUME VersionAssumption == MaxVersion \in Nat \ {0}

VARIABLES paths,    \* both paths are configured
          cert, key,\* the version on disk
          valid,    \* versions that have not expired
          boot,     \* "stat", "cert", "key", "expiry", "loaded", "failed" or "up"
          read,     \* versions read so far: cert and key
          source,   \* "none", "disk" or "self-signed"
          seen,     \* what the last look at the disk found: "nothing" before the first,
                    \* "absent", "found", "cert", "pair", or "error" for anything else
          ticker,   \* RunTicker: "select", "fn" or "returned"
          tick,     \* ticker.C holds a tick
          sleeper,  \* the loop around SleepCtx: "sleep", "fn" or "returned"
          timer     \* the timer of SleepCtx has fired

files == <<paths, cert, key, valid>>
bootVars == <<files, boot, read, source, seen>>
loopVars == <<ticker, tick, sleeper, timer>>
serviceVars == <<vars, bootVars, loopVars>>

Versions == 1..MaxVersion

ServiceInit ==
    /\ Init
    /\ paths \in BOOLEAN /\ cert \in 0..1 /\ key \in 0..1 /\ valid \in SUBSET Versions
    /\ boot = "stat" /\ read = [cert |-> 0, key |-> 0] /\ source = "none"
    /\ seen = "nothing"
    /\ ticker = "select" /\ tick = FALSE /\ sleeper = "sleep" /\ timer = FALSE

-----------------------------------------------------------------------------
(* k8s.LoadOrGenerateCert                                                  *)

\* The outcome of tryLoadDiskCert: an error, or a source.
Fail == boot' = "failed" /\ UNCHANGED source
SelfSigned == \/ boot' = "loaded" /\ source' = "self-signed"
              \/ Fail

NoPaths ==
    /\ boot = "stat" /\ ~paths
    /\ SelfSigned
    /\ UNCHANGED <<vars, files, read, seen, loopVars>>

Stat ==
    /\ boot = "stat" /\ paths
    /\ \/ cert # 0 /\ seen' = "found" /\ boot' = "cert" /\ UNCHANGED source
       \/ cert = 0 /\ seen' = "absent" /\ SelfSigned
       \/ seen' = "error" /\ Fail
    /\ UNCHANGED <<vars, files, read, loopVars>>

\* Fault: a certificate that is gone by the time it is read counts as missing.
ReadCert_FallBack ==
    /\ boot = "cert"
    /\ \/ /\ cert # 0 /\ seen' = "cert" /\ read' = [read EXCEPT !.cert = cert]
          /\ boot' = "key" /\ UNCHANGED source
       \/ seen' = "error" /\ (IF cert = 0 THEN SelfSigned ELSE Fail) /\ UNCHANGED read
    /\ UNCHANGED <<vars, files, loopVars>>

\* tls.LoadX509KeyPair reads the certificate, then the key.  Either read may fail,
\* also because the file is gone since the Stat.
ReadCert ==
    /\ boot = "cert"
    /\ \/ /\ cert # 0 /\ seen' = "cert" /\ read' = [read EXCEPT !.cert = cert]
          /\ boot' = "key" /\ UNCHANGED source
       \/ seen' = "error" /\ Fail /\ UNCHANGED read
    /\ UNCHANGED <<vars, files, loopVars>>

\* A pair whose halves do not match is an error.
ReadKey ==
    /\ boot = "key" /\ read' = [read EXCEPT !.key = key]
    /\ \/ key = read.cert /\ seen' = "pair" /\ boot' = "expiry" /\ UNCHANGED source
       \/ seen' = "error" /\ Fail
    /\ UNCHANGED <<vars, files, loopVars>>

\* isCertExpired looks at the certificate that was read, not at the file.
CheckExpiry ==
    /\ boot = "expiry"
    /\ \/ /\ read.cert \in valid
          /\ boot' = "loaded" /\ source' = "disk"
       \/ read.cert \notin valid /\ SelfSigned
    /\ UNCHANGED <<vars, files, read, seen, loopVars>>

\* The files change while they are read: a half is removed or replaced.
Rotate ==
    /\ boot \in {"stat", "cert", "key", "expiry"}
    /\ \/ cert' \in ({0, cert + 1} \cap 0..MaxVersion) \ {cert} /\ UNCHANGED <<key, valid>>
       \/ key' \in ({0, cert} \ {key}) /\ UNCHANGED <<cert, valid>>
       \/ \E v \in valid : valid' = valid \ {v} /\ UNCHANGED <<cert, key>>
    /\ UNCHANGED <<vars, paths, boot, read, source, seen, loopVars>>

-----------------------------------------------------------------------------
(* The servers and the loops.                                              *)

\* The pair is handed to the server, and Run and the loops start.  Nobody looks
\* at the files or at the outcome again: their variables are cleared.
Start ==
    /\ boot = "loaded" /\ boot' = "up"
    /\ paths' = FALSE /\ cert' = 0 /\ key' = 0 /\ valid' = {}
    /\ read' = [cert |-> 0, key |-> 0] /\ source' = "none" /\ seen' = "nothing"
    /\ UNCHANGED <<vars, loopVars>>

Serve == boot = "up" /\ Next /\ UNCHANGED <<bootVars, loopVars>>

\* Fault: the cancellation is looked at only when no tick is waiting.
TickerDone_TickFirst ==
    /\ boot = "up" /\ ticker = "select" /\ parentDone /\ ~tick
    /\ ticker' = "returned"
    /\ UNCHANGED <<vars, bootVars, tick, sleeper, timer>>

\* RunTicker's select, one branch each: if both are ready, either is taken.
TickerDone ==
    /\ boot = "up" /\ ticker = "select" /\ parentDone
    /\ ticker' = "returned"
    /\ UNCHANGED <<vars, bootVars, tick, sleeper, timer>>

TickerTick ==
    /\ boot = "up" /\ ticker = "select" /\ tick
    /\ ticker' = "fn" /\ tick' = FALSE
    /\ UNCHANGED <<vars, bootVars, sleeper, timer>>

TickerFn ==
    /\ ticker = "fn" /\ ticker' = "select"
    /\ UNCHANGED <<vars, bootVars, tick, sleeper, timer>>

\* SleepCtx returns false: the loop ends.
SleepDone ==
    /\ boot = "up" /\ sleeper = "sleep" /\ parentDone
    /\ sleeper' = "returned"
    /\ UNCHANGED <<vars, bootVars, ticker, tick, timer>>

\* The time is up; a duration of zero or less does not wait, but still sees a
\* context that is done.
SleepOver ==
    /\ boot = "up" /\ sleeper = "sleep" /\ (timer \/ ~parentDone)
    /\ sleeper' = "fn" /\ timer' = FALSE
    /\ UNCHANGED <<vars, bootVars, ticker, tick>>

SleepFn ==
    /\ sleeper = "fn" /\ sleeper' = "sleep"
    /\ UNCHANGED <<vars, bootVars, ticker, tick, timer>>

\* Time passes; a tick that is not taken is not doubled.
Clock ==
    /\ boot = "up"
    /\ \/ ticker # "returned" /\ ~tick /\ tick' = TRUE /\ UNCHANGED timer
       \/ sleeper = "sleep" /\ ~timer /\ timer' = TRUE /\ UNCHANGED tick
    /\ UNCHANGED <<vars, bootVars, ticker, sleeper>>

NotStarted == boot = "failed" /\ UNCHANGED serviceVars

ServiceNext == \/ NoPaths \/ Stat \/ ReadCert \/ ReadKey \/ CheckExpiry \/ Rotate
               \/ Start \/ Serve \/ TickerDone \/ TickerTick \/ TickerFn
               \/ SleepDone \/ SleepOver \/ SleepFn \/ Clock \/ NotStarted

\* Select chooses at random among its ready branches, so a loop that keeps
\* coming back to it takes the branch of the cancellation in the end.
ServiceSpec ==
    /\ ServiceInit /\ [][ServiceNext]_serviceVars
    /\ Fairness /\ WF_serviceVars(Start)
    /\ SF_serviceVars(TickerDone) /\ SF_serviceVars(SleepDone)
    /\ WF_serviceVars(TickerFn) /\ WF_serviceVars(SleepFn)

-----------------------------------------------------------------------------
(* Properties.                                                             *)

\* "Falls back when either path is empty, the certificate file is missing, or
\* the certificate has expired; a missing key file, malformed keypair, or
\* other disk read error is returned" (docs/kubernetes.md), also when the pair
\* is rotated while it is loaded: no service runs on a certificate of its own
\* making unless no path was given, the certificate was not there when it was
\* looked for, or the whole pair was read, its halves matched and it had expired;
\* and none runs with halves of two pairs or an expired one (tls.go:73-91).
CertSound ==
    LET pair == seen = "pair" /\ read.cert # 0 /\ read.key = read.cert
    IN  /\ source = "self-signed" =>
             ~paths \/ seen = "absent" \/ (pair /\ read.cert \notin valid)
        /\ source = "disk" => paths /\ pair /\ read.cert \in valid

\* A cancelled service stops: Run returns, and neither loop goes on for ever
\* with a tick or a timer that is always ready (ctx.go:13).
ServiceStops ==
    boot = "up" /\ parentDone
        ~> pc = "returned" /\ ticker = "returned" /\ sleeper = "returned"
=============================================================================
