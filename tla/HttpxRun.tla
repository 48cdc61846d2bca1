------------------------------ MODULE HttpxRun ------------------------------
(***************************************************************************)
(* httpx.Run: a set of HTTP servers started together and shut down         *)
(* together (httpx/httpx.go).                                              *)
(*                                                                         *)
(* Each server has a goroutine in Start (serve) and, later, one in         *)
(* Shutdown (stop).  net/http is external: ListenAndServe fails to bind,   *)
(* serves until it fails or is shut down, and returns ErrServerClosed at   *)
(* once if the shutdown came first; Shutdown closes the listeners, then    *)
(* waits for busy connections until its context is done.                   *)
(***************************************************************************)
EXTENDS Naturals

CONSTANT Servers

ASSUME ServersAssumption == Servers # {}

VARIABLES pc,        \* Run: "serving", "stopping", "waiting", "returned"
          parentDone,\* the caller's context is done
          runDone,   \* runCtx is done
          expired,   \* the shutdown timeout has passed
          serve,     \* serve[s]: "new", "listening" or "over"
          serveErr,  \* serveErrs[s]
          closing,   \* servers that Shutdown has been called on
          stop,      \* stop[s]: "new", "draining" or "over"
          stopErr,   \* shutdownErrs[s]
          busy,      \* servers with a connection in use
          reported   \* the errors Run returned, per server

vars == <<pc, parentDone, runDone, expired, serve, serveErr, closing, stop,
          stopErr, busy, reported>>

Init == /\ pc = "serving"
        /\ parentDone = FALSE /\ runDone = FALSE /\ expired = FALSE
        /\ serve = [s \in Servers |-> "new"] /\ serveErr = [s \in Servers |-> "none"]
        /\ closing = {}
        /\ stop = [s \in Servers |-> "new"] /\ stopErr = [s \in Servers |-> "none"]
        /\ busy = {} /\ reported = {}

\* ListenAndServe has bound its address.
Listen(s) ==
    /\ serve[s] = "new" /\ s \notin closing
    /\ serve' = [serve EXCEPT ![s] = "listening"]
    /\ UNCHANGED <<pc, parentDone, runDone, expired, serveErr, closing, stop,
                   stopErr, busy, reported>>

\* Fault: an error of Start is kept but trips nothing.
StartFailed_Quiet(s) ==
    /\ serve[s] # "over"
    /\ serve' = [serve EXCEPT ![s] = "over"]
    /\ serveErr' = [serveErr EXCEPT ![s] = "failed"]
    /\ UNCHANGED <<pc, parentDone, runDone, expired, closing, stop, stopErr, busy,
                   reported>>

\* Start returned an error: at the bind, or while it served or was closed.
StartFailed(s) ==
    /\ serve[s] # "over"
    /\ serve' = [serve EXCEPT ![s] = "over"]
    /\ serveErr' = [serveErr EXCEPT ![s] = "failed"]
    /\ runDone' = TRUE
    /\ UNCHANGED <<pc, parentDone, expired, closing, stop, stopErr, busy, reported>>

\* Start returned ErrServerClosed, which is not an error.
StartClosed(s) ==
    /\ serve[s] # "over" /\ s \in closing
    /\ serve' = [serve EXCEPT ![s] = "over"]
    /\ UNCHANGED <<pc, parentDone, runDone, expired, serveErr, closing, stop,
                   stopErr, busy, reported>>

\* <-runCtx.Done(), and the shutdown goroutines are started.
Stop ==
    /\ pc = "serving" /\ (runDone \/ parentDone)
    /\ pc' = "stopping"
    /\ UNCHANGED <<parentDone, runDone, expired, serve, serveErr, closing, stop,
                   stopErr, busy, reported>>

Shutdown(s) ==
    /\ pc = "stopping" /\ stop[s] = "new"
    /\ closing' = closing \cup {s}
    /\ stop' = [stop EXCEPT ![s] = "draining"]
    /\ UNCHANGED <<pc, parentDone, runDone, expired, serve, serveErr, stopErr, busy,
                   reported>>

Drained(s) ==
    /\ stop[s] = "draining" /\ s \notin busy
    /\ stop' = [stop EXCEPT ![s] = "over"]
    /\ UNCHANGED <<pc, parentDone, runDone, expired, serve, serveErr, closing,
                   stopErr, busy, reported>>

\* Fault: the shutdown context is derived from the caller's.
ShutdownCtxDone_Inherited == expired \/ parentDone

\* shutdownCtx is WithoutCancel: only its timeout ends it.
ShutdownCtxDone == expired

DrainTimeout(s) ==
    /\ stop[s] = "draining" /\ s \in busy /\ ShutdownCtxDone
    /\ stop' = [stop EXCEPT ![s] = "over"]
    /\ stopErr' = [stopErr EXCEPT ![s] = "timeout"]
    /\ UNCHANGED <<pc, parentDone, runDone, expired, serve, serveErr, closing, busy,
                   reported>>

\* shutdownWG.Wait
ShutdownDone ==
    /\ pc = "stopping" /\ \A s \in Servers : stop[s] = "over"
    /\ pc' = "waiting"
    /\ UNCHANGED <<parentDone, runDone, expired, serve, serveErr, closing, stop,
                   stopErr, busy, reported>>

\* Fault: Run returns as soon as the servers are shut down.
ServeDone_NoWait == TRUE

\* wg.Wait
ServeDone == \A s \in Servers : serve[s] = "over"

Return ==
    /\ pc = "waiting" /\ ServeDone
    /\ reported' = {<<s, serveErr[s]>> : s \in {t \in Servers : serveErr[t] # "none"}}
                   \cup {<<s, stopErr[s]>> : s \in {t \in Servers : stopErr[t] # "none"}}
    /\ pc' = "returned"
    /\ UNCHANGED <<parentDone, runDone, expired, serve, serveErr, closing, stop,
                   stopErr, busy>>

\* The environment: the caller cancels, the timer of shutdownCtx fires,
\* clients connect and are served.
CancelParent ==
    /\ ~parentDone /\ pc # "returned"
    /\ parentDone' = TRUE
    /\ UNCHANGED <<pc, runDone, expired, serve, serveErr, closing, stop, stopErr,
                   busy, reported>>

Expire ==
    /\ pc = "stopping" /\ ~expired
    /\ expired' = TRUE
    /\ UNCHANGED <<pc, parentDone, runDone, serve, serveErr, closing, stop, stopErr,
                   busy, reported>>

Connect(s) ==
    /\ serve[s] = "listening" /\ s \notin closing \cup busy
    /\ busy' = busy \cup {s}
    /\ UNCHANGED <<pc, parentDone, runDone, expired, serve, serveErr, closing, stop,
                   stopErr, reported>>

Disconnect(s) ==
    /\ s \in busy
    /\ busy' = busy \ {s}
    /\ UNCHANGED <<pc, parentDone, runDone, expired, serve, serveErr, closing, stop,
                   stopErr, reported>>

Terminated == pc = "returned" /\ UNCHANGED vars

Next == \/ Stop \/ ShutdownDone \/ Return \/ CancelParent \/ Expire \/ Terminated
        \/ \E s \in Servers : \/ Listen(s) \/ StartFailed(s) \/ StartClosed(s)
                              \/ Shutdown(s) \/ Drained(s) \/ DrainTimeout(s)
                              \/ Connect(s) \/ Disconnect(s)

Spec == Init /\ [][Next]_vars

\* Goroutines run, the timer fires, and a server that is being closed returns
\* from Start.  Clients owe nothing.
Fairness ==
    /\ WF_vars(Stop) /\ WF_vars(ShutdownDone) /\ WF_vars(Return) /\ WF_vars(Expire)
    /\ \A s \in Servers : /\ WF_vars(Shutdown(s))
                          /\ WF_vars(Drained(s) \/ DrainTimeout(s))
                          /\ WF_vars(s \in closing /\ (StartClosed(s) \/ StartFailed(s)))

FairSpec == Spec /\ Fairness

-----------------------------------------------------------------------------
(* Properties.                                                             *)

\* The values the variables of Run can have; in particular a server that was
\* closed has no error.
TypeOK == /\ pc \in {"serving", "stopping", "waiting", "returned"}
          /\ parentDone \in BOOLEAN /\ runDone \in BOOLEAN /\ expired \in BOOLEAN
          /\ serve \in [Servers -> {"new", "listening", "over"}]
          /\ serveErr \in [Servers -> {"none", "failed"}]
          /\ stop \in [Servers -> {"new", "draining", "over"}]
          /\ stopErr \in [Servers -> {"none", "timeout"}]
          /\ closing \in SUBSET Servers /\ busy \in SUBSET Servers
          /\ reported \in SUBSET (Servers \X {"failed", "timeout"})

\* Run leaves no server accepting connections behind, and no error unreported,
\* including those of a server that failed while it was being shut down
\* (httpx.go:85-88).
NothingLeftServing ==
    pc = "returned" =>
        /\ \A s \in Servers : serve[s] = "over" /\ stop[s] = "over"
        /\ \A s \in Servers : /\ serveErr[s] # "none" => <<s, serveErr[s]>> \in reported
                              /\ stopErr[s] # "none" => <<s, stopErr[s]>> \in reported

\* Run goes on past the shutdown of its servers with a connection still in use
\* only after the whole shutdown timeout, also when it is the caller's cancellation
\* that started the shutdown, or comes in the middle of it, and when the server of
\* the connection had failed before (httpx.go:73-83).
GraceIsHonoured == pc \in {"waiting", "returned"} /\ ~expired => busy = {}

\* Once a server has failed, Run shuts the others down and returns, without
\* the caller's help (httpx.go:58).
FailureReturns == (\E s \in Servers : serveErr[s] # "none") ~> pc = "returned"
=============================================================================
