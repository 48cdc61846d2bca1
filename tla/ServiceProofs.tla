--------------------------- MODULE ServiceProofs ---------------------------
(***************************************************************************)
(* The safety of httpx.Run for any number of servers, and of the service   *)
(* around it for any number of versions of its key pair.                   *)
(***************************************************************************)
EXTENDS Service, TLAPS

\* The two waits of Run: behind the first every Shutdown is over, behind the
\* second every Start is, so that no error can come after Run collected them.
WaitInv ==
    /\ pc \in {"waiting", "returned"} => \A s \in Servers : stop[s] = "over"
    /\ pc = "returned" =>
         \A s \in Servers : /\ serve[s] = "over"
                            /\ serveErr[s] # "none" => <<s, serveErr[s]>> \in reported
                            /\ stopErr[s] # "none" => <<s, stopErr[s]>> \in reported

\* A server that Shutdown was called on takes no connection, and one whose Shutdown
\* is over has none in use, unless the time was up.
DrainInv == \A s \in Servers : /\ stop[s] # "new" => s \in closing
                               /\ stop[s] = "over" /\ s \in busy => expired

IInv == TypeOK /\ WaitInv /\ DrainInv

\* The initial state is good.
LEMMA InitInv == Init => IInv
BY DEF Init, IInv, TypeOK, WaitInv, DrainInv

\* A step of the goroutine in Start.
LEMMA ServeStep ==
    ASSUME IInv, NEW s \in Servers, Listen(s) \/ StartFailed(s) \/ StartClosed(s)
    PROVE  IInv'
<1>1. TypeOK'
      BY DEF IInv, TypeOK, Listen, StartFailed, StartClosed
<1>2. WaitInv'
      BY DEF IInv, TypeOK, WaitInv, Listen, StartFailed, StartClosed
<1>3. DrainInv'
      BY DEF IInv, TypeOK, DrainInv, Listen, StartFailed, StartClosed
<1> QED BY <1>1, <1>2, <1>3 DEF IInv

\* A step of the goroutine in Shutdown.
LEMMA StopStep ==
    ASSUME IInv, NEW s \in Servers, Shutdown(s) \/ Drained(s) \/ DrainTimeout(s)
    PROVE  IInv'
<1>1. TypeOK'
      BY DEF IInv, TypeOK, Shutdown, Drained, DrainTimeout
<1>2. WaitInv'
      BY DEF IInv, TypeOK, WaitInv, Shutdown, Drained, DrainTimeout
<1>3. DrainInv'
      BY DEF IInv, TypeOK, DrainInv, Shutdown, Drained, DrainTimeout,
             ShutdownCtxDone
<1> QED BY <1>1, <1>2, <1>3 DEF IInv

\* A step of Run itself.
LEMMA RunStep ==
    ASSUME IInv, Stop \/ ShutdownDone \/ Return
    PROVE  IInv'
<1>1. TypeOK'
  <2>1. CASE Stop \/ ShutdownDone
        BY <2>1 DEF IInv, TypeOK, Stop, ShutdownDone
  <2>2. CASE Return
    <3>1. reported' \in SUBSET (Servers \X {"failed", "timeout"})
          BY <2>2 DEF IInv, TypeOK, Return
    <3> QED BY <2>2, <3>1 DEF IInv, TypeOK, Return
  <2> QED BY <2>1, <2>2
<1>2. WaitInv'
  <2>1. CASE Stop \/ ShutdownDone
        BY <2>1 DEF IInv, TypeOK, WaitInv, Stop, ShutdownDone
  <2>2. CASE Return
        BY <2>2 DEF IInv, TypeOK, WaitInv, Return, ServeDone
  <2> QED BY <2>1, <2>2
<1>3. DrainInv'
      BY DEF IInv, DrainInv, Stop, ShutdownDone, Return
<1> QED BY <1>1, <1>2, <1>3 DEF IInv

\* A step of the environment, or none.
LEMMA EnvironmentStep ==
    ASSUME IInv,
           \/ CancelParent \/ Expire \/ UNCHANGED vars
           \/ \E s \in Servers : Connect(s) \/ Disconnect(s)
    PROVE  IInv'
<1>1. TypeOK'
      BY DEF IInv, TypeOK, CancelParent, Expire, Connect, Disconnect, vars
<1>2. WaitInv'
      BY DEF IInv, WaitInv, CancelParent, Expire, Connect, Disconnect, vars
<1>3. DrainInv'
      BY DEF IInv, TypeOK, DrainInv, CancelParent, Expire, Connect,
             Disconnect, vars
<1> QED BY <1>1, <1>2, <1>3 DEF IInv

\* Every step of Run keeps its invariant.
LEMMA RunNext == ASSUME IInv, [Next]_vars PROVE IInv'
BY ServeStep, StopStep, RunStep, EnvironmentStep DEF Next, Terminated

\* The inductive invariant.
THEOREM Invariance == Spec => []IInv
<1>1. IInv /\ [Next]_vars => IInv'
      BY RunNext
<1> QED BY <1>1, InitInv, PTL DEF Spec

\* When Run returns, every server has stopped and every error it or its
\* shutdown met is in the joined error, for any number of servers.
THEOREM RunStopsEverything == Spec => []NothingLeftServing
<1>1. IInv => NothingLeftServing
      BY DEF IInv, WaitInv, NothingLeftServing
<1> QED BY <1>1, Invariance, PTL

\* No IInv state has Run past the shutdown with a connection in use before the time.
LEMMA NoneInUse == IInv => GraceIsHonoured
BY DEF IInv, TypeOK, WaitInv, DrainInv, GraceIsHonoured

\* Run goes on with a connection still in use only after the whole shutdown timeout,
\* for any number of servers, whatever ended the serving and whichever of the servers
\* had failed.
THEOREM ShutdownIsGraceful == Spec => []GraceIsHonoured
<1>1. IInv => GraceIsHonoured
      BY NoneInUse
<1> QED BY <1>1, Invariance, PTL

-----------------------------------------------------------------------------
(* The service: Run behind LoadOrGenerateCert, beside two loops.           *)

Early == {"stat", "cert", "key", "expiry"}

\* What tryLoadDiskCert has seen so far: behind the reading of the key it has a
\* whole pair.
CertInv ==
    /\ read \in [cert : Nat, key : Nat] /\ cert \in Nat /\ key \in Nat
    /\ boot \in Early => source = "none"
    /\ boot \in Early \ {"stat"} => paths
    /\ boot \in {"key", "expiry"} => read.cert # 0
    /\ boot = "expiry" => seen = "pair" /\ read.key = read.cert
    /\ CertSound

ServiceInv == IInv /\ CertInv

\* A service starts with the files in any state.
LEMMA ServiceInitInv == ASSUME ServiceInit PROVE ServiceInv
<1>1. IInv
      BY InitInv DEF ServiceInit
<1>2. CertInv
      BY DEF ServiceInit, CertInv, CertSound, Early
<1> QED BY <1>1, <1>2 DEF ServiceInv

\* A step of LoadOrGenerateCert.
LEMMA BootStep ==
    ASSUME CertInv, NoPaths \/ Stat \/ ReadCert \/ ReadKey \/ CheckExpiry
    PROVE  CertInv' /\ UNCHANGED vars
<1>1. CASE NoPaths
      BY <1>1 DEF CertInv, CertSound, Early, NoPaths, SelfSigned, Fail, files
<1>2. CASE Stat
      BY <1>2 DEF CertInv, CertSound, Early, Stat, SelfSigned, Fail, files
<1>3. CASE ReadCert
      BY <1>3 DEF CertInv, CertSound, Early, ReadCert, Fail, files
<1>4. CASE ReadKey
      BY <1>4 DEF CertInv, CertSound, Early, ReadKey, Fail, files
<1>5. CASE CheckExpiry
      BY <1>5 DEF CertInv, CertSound, Early, CheckExpiry, SelfSigned, Fail, files
<1> QED BY <1>1, <1>2, <1>3, <1>4, <1>5

\* The files change while they are read.
LEMMA RotateStep == ASSUME CertInv, Rotate PROVE CertInv' /\ UNCHANGED vars
<1>1. UNCHANGED <<vars, paths, boot, read, source, seen>> /\ boot \in Early
      BY DEF Rotate, Early
<1>2. cert' \in Nat /\ key' \in Nat
  <2>1. MaxVersion \in Nat
        BY VersionAssumption
  <2> QED BY <2>1 DEF Rotate, CertInv
<1> QED BY <1>1, <1>2 DEF CertInv, CertSound, Early

\* A step of a loop, of the clock, or none.
LEMMA LoopStep ==
    ASSUME ServiceInv,
           \/ TickerDone \/ TickerTick \/ TickerFn \/ SleepDone \/ SleepOver \/ SleepFn
           \/ Clock \/ UNCHANGED serviceVars
    PROVE  ServiceInv'
<1>1. UNCHANGED <<vars, bootVars>>
      BY DEF TickerDone, TickerTick, TickerFn, SleepDone, SleepOver, SleepFn, Clock, serviceVars
<1>2. IInv'
      BY <1>1, EnvironmentStep DEF ServiceInv
<1>3. CertInv'
      BY <1>1 DEF ServiceInv, CertInv, CertSound, Early, bootVars, files
<1> QED BY <1>2, <1>3 DEF ServiceInv

\* Every step of the service keeps the invariant of Run and that of its start.
THEOREM ServiceInvariance == ServiceSpec => []ServiceInv
<1>1. ServiceInit => ServiceInv
      BY ServiceInitInv
<1>2. ServiceInv /\ [ServiceNext]_serviceVars => ServiceInv'
  <2> SUFFICES ASSUME ServiceInv, [ServiceNext]_serviceVars PROVE ServiceInv'
      OBVIOUS
  <2>1. CASE NoPaths \/ Stat \/ ReadCert \/ ReadKey \/ CheckExpiry \/ Rotate
    <3>1. CertInv' /\ UNCHANGED vars
          BY <2>1, BootStep, RotateStep DEF ServiceInv
    <3> QED BY <3>1, EnvironmentStep DEF ServiceInv
  <2>2. CASE Start
    <3>1. UNCHANGED vars
          BY <2>2 DEF Start
    <3>2. CertInv'
          BY <2>2 DEF Start, CertInv, CertSound, Early
    <3> QED BY <3>1, <3>2, EnvironmentStep DEF ServiceInv
  <2>3. CASE Serve
    <3>1. IInv'
          BY <2>3, RunNext DEF Serve, ServiceInv
    <3>2. CertInv'
          BY <2>3 DEF Serve, ServiceInv, CertInv, CertSound, Early, bootVars, files
    <3> QED BY <3>1, <3>2 DEF ServiceInv
  <2> QED BY <2>1, <2>2, <2>3, LoopStep DEF ServiceNext, NotStarted
<1> QED BY <1>1, <1>2, PTL DEF ServiceSpec

\* A service runs on a certificate of its own making only for the documented
\* reasons, and never with halves of two pairs, however the files are rotated
\* while LoadOrGenerateCert reads them and however often (tls.go).
THEOREM CertIsSound == ServiceSpec => []CertSound
<1>1. ServiceInv => CertSound
      BY DEF ServiceInv, CertInv
<1> QED BY <1>1, ServiceInvariance, PTL

\* In a service, too, Run leaves no server and no error behind, and goes on with a
\* connection in use only after the whole shutdown timeout.
THEOREM ServiceRunIsSafe == ServiceSpec => [](NothingLeftServing /\ GraceIsHonoured)
<1>1. ServiceInv => NothingLeftServing /\ GraceIsHonoured
      BY NoneInUse DEF ServiceInv, IInv, WaitInv, NothingLeftServing
<1> QED BY <1>1, ServiceInvariance, PTL
=============================================================================
