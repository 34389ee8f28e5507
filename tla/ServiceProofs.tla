---------------------------- MODULE ServiceProofs ----------------------------
(***************************************************************************)
(* The life of the process, for any number of migrations, concurrent       *)
(* health checks, failures and deaths; and that what is proved of Handlers *)
(* holds for the requests of a process that starts and dies.               *)
(***************************************************************************)
EXTENDS Service, HandlersProofs

(* What the chain of initService has reached while it has met no error.    *)
Reached ==
  /\ phase = "migrating" => version < Versions /\ ~dbErr
  /\ phase \in {"migrate", "migrating"} /\ ~dbErr => hasPool
  /\ phase \in {"ping", "check"} /\ ~dbErr => hasPool /\ version = Versions /\ ~dirty
  /\ phase = "serving" => hasPool /\ version = Versions /\ ~dirty

(* A /ping about to read a clean m.err has seen its own ping succeed: had  *)
(* it failed, or met an error, m.err would not be clean again.             *)
Probed ==
  \A p \in Probes :
    /\ probe[p] = "error" /\ ~dbErr => passed[p]
    /\ health[p] = 200 => passed[p] /\ probe[p] = "done"

SInv == ServiceTypeOK /\ Reached /\ (phase = "serving" => Probed) /\
        (phase # "serving" => \A p \in Probes : probe[p] = "idle" /\ health[p] = 0)

LEMMA InitSInv == ServiceInit => SInv
<1> SUFFICES ASSUME ServiceInit PROVE SInv
  OBVIOUS
<1>1. /\ probe = [p \in Probes |-> "idle"]
      /\ passed = [p \in Probes |-> FALSE]
      /\ health = [p \in Probes |-> 0]
  BY DEF ServiceInit, NoProbes
<1>2. phase = "off" /\ dbErr = FALSE /\ hasPool = FALSE /\ version = 0 /\ dirty = FALSE
  BY DEF ServiceInit
<1>3. 0 \in 0 .. Versions
  BY ServiceAssumption DEF ServiceAssumption
<1> QED
  BY <1>1, <1>2, <1>3 DEF SInv, ServiceTypeOK, Reached

LEMMA StartKeepsSInv == SInv /\ InitService => SInv'
<1> SUFFICES ASSUME SInv, InitService PROVE SInv'
  OBVIOUS
<1> USE ServiceAssumption DEF ServiceAssumption, SInv, ServiceTypeOK, Reached, probeVars, schemaVars
<1>1. CASE Start
  BY <1>1 DEF Start
<1>2. CASE Connect
  BY <1>2 DEF Connect
<1>3. CASE ConnectFails
  BY <1>3 DEF ConnectFails, Errs
<1>4. CASE MigrationBegins
  BY <1>4 DEF MigrationBegins
<1>5. CASE MigrationEnds
  <2>1. version < Versions /\ version \in 0 .. Versions /\ Versions \in Nat
    BY <1>5 DEF MigrationEnds
  <2>2. version + 1 \in 0 .. Versions
    BY <2>1
  <2> QED
    BY <1>5, <2>2 DEF MigrationEnds
<1>6. CASE MigrationFails
  BY <1>6 DEF MigrationFails, Errs
<1>7. CASE MigrationRefused
  BY <1>7 DEF MigrationRefused, Errs
<1>8. CASE MigrationsDone
  BY <1>8 DEF MigrationsDone
<1>9. CASE Ping
  BY <1>9 DEF Ping
<1>10. CASE PingFails
  BY <1>10 DEF PingFails, Errs
<1>11. CASE Listen
  BY <1>11 DEF Listen, Probed
<1>12. CASE Skip("migrate", "ping") \/ Skip("ping", "check")
  BY <1>12 DEF Skip
<1> QED
  BY <1>1, <1>2, <1>3, <1>4, <1>5, <1>6, <1>7, <1>8, <1>9, <1>10, <1>11, <1>12
     DEF InitService

LEMMA ProbeKeepsSInv == ASSUME SInv, NEW p \in Probes, ProbeStep(p) PROVE SInv'
<1>1. phase = "serving" /\ Probed /\ UNCHANGED <<phase, hasPool, version, dirty>>
  BY DEF SInv, ProbeStep, Probe, ProbePasses, ProbeFails, ProbeAnswered, ProbeLeaves, schemaVars
<1>2. ServiceTypeOK'
  <2> USE <1>1 DEF SInv, ServiceTypeOK
  <2>1. CASE Probe(p)
    BY <2>1 DEF Probe
  <2>2. CASE ProbePasses(p)
    BY <2>2 DEF ProbePasses
  <2>3. CASE ProbeFails(p)
    BY <2>3 DEF ProbeFails
  <2>4. CASE ProbeAnswered(p)
    BY <2>4 DEF ProbeAnswered
  <2>5. CASE ProbeLeaves(p)
    BY <2>5 DEF ProbeLeaves
  <2> QED
    BY <2>1, <2>2, <2>3, <2>4, <2>5 DEF ProbeStep
<1>3. Probed'
  <2> USE <1>1 DEF Probed, SInv, ServiceTypeOK
  <2>1. CASE Probe(p)
    BY <2>1 DEF Probe
  <2>2. CASE ProbePasses(p)
    BY <2>2 DEF ProbePasses
  <2>3. CASE ProbeFails(p)
    BY <2>3 DEF ProbeFails
  <2>4. CASE ProbeAnswered(p)
    BY <2>4 DEF ProbeAnswered
  <2>5. CASE ProbeLeaves(p)
    BY <2>5 DEF ProbeLeaves
  <2> QED
    BY <2>1, <2>2, <2>3, <2>4, <2>5 DEF ProbeStep
<1> QED
  BY <1>1, <1>2, <1>3 DEF SInv, Reached

LEMMA NextSInv == SInv /\ [ServiceNext]_serviceVars => SInv'
<1> SUFFICES ASSUME SInv, [ServiceNext]_serviceVars PROVE SInv'
  OBVIOUS
<1>1. CASE Dies
  BY <1>1 DEF Dies, NoProbes, SInv, ServiceTypeOK, Reached, schemaVars
<1>2. CASE UNCHANGED <<phase, dbErr, hasPool, schemaVars, probeVars>>
  BY <1>2 DEF SInv, ServiceTypeOK, Reached, Probed, schemaVars, probeVars
<1> QED
  BY <1>1, <1>2, StartKeepsSInv, ProbeKeepsSInv DEF ServiceNext, Serves, serviceVars

LEMMA ServiceInductive == ServiceSpec => []SInv
  BY InitSInv, NextSInv, PTL DEF ServiceSpec

(* Types of the process around the requests.                               *)
THEOREM ServiceTypes == ServiceSpec => []ServiceTypeOK
<1>1. SInv => ServiceTypeOK
  BY DEF SInv
<1> QED
  BY <1>1, ServiceInductive, PTL

(* The process listens only behind a pool and a complete, clean schema,    *)
(* however many starts have failed or died before (service.go:33-53).      *)
THEOREM Migrated == ServiceSpec => []ServesMigrated
<1>1. SInv => ServesMigrated
  BY DEF SInv, Reached, ServesMigrated
<1> QED
  BY <1>1, ServiceInductive, PTL

(* However many requests to /ping share m.err, a 200 is the success of its *)
(* own ping (handlers.go:525-531, db_manager.go:150-169).                  *)
THEOREM Healthy == ServiceSpec => []HealthyIsTrue
<1>1. SInv => HealthyIsTrue
  BY DEF SInv, Probed, HealthyIsTrue
<1> QED
  BY <1>1, ServiceInductive, PTL

-----------------------------------------------------------------------------
(* The requests of the process                                             *)

(* A failure that concerns no request.                                     *)
LEMMA FaultElsewhere ==
  ASSUME IInv, Fault \/ UNCHANGED faults, UNCHANGED requestVars
  PROVE  IInv' /\ UNCHANGED <<accounts, owner, sessions, req, me, reply>>
<1>1. UNCHANGED <<accounts, owner, sessions, pc, req, me, pending, attempt, reply, accepted>>
  BY DEF requestVars, callVars
<1>2. TypeOK'
  <2>1. faults' \in 0 .. MaxFaults
    BY FaultCounted DEF IInv, TypeOK
  <2> QED
    BY <1>1, <2>1 DEF IInv, TypeOK, RightKind
<1>3. PendingOK' /\ LoginsHeld'
  BY <1>1 DEF IInv, PendingOK, LoginsHeld
<1>4. SessionsGenuine' /\ UploadAnswersTrue' /\ AllServed'
  BY <1>1 DEF IInv, SessionsGenuine, UploadAnswersTrue, AllServed, Served
<1> QED
  BY <1>1, <1>2, <1>3, <1>4 DEF IInv

LEMMA ServiceStep ==
  [ServiceNext]_serviceVars =>
    [Next]_vars \/ (UNCHANGED requestVars /\ (Fault \/ UNCHANGED faults))
<1> SUFFICES ASSUME [ServiceNext]_serviceVars
             PROVE  [Next]_vars \/ (UNCHANGED requestVars /\ (Fault \/ UNCHANGED faults))
  OBVIOUS
<1>1. CASE InitService
  BY <1>1 DEF InitService, Start, Connect, ConnectFails, Errs, MigrationBegins, MigrationEnds,
     MigrationFails, MigrationRefused, MigrationsDone, Ping, PingFails, Listen, Skip
<1>2. CASE \E p \in Probes : ProbeStep(p)
  BY <1>2 DEF ProbeStep, Probe, ProbePasses, ProbeFails, ProbeAnswered, ProbeLeaves
<1>3. CASE Serves \/ Dies
  BY <1>3 DEF Serves, Dies, Next
<1>4. CASE UNCHANGED serviceVars
  BY <1>4 DEF serviceVars
<1> QED
  BY <1>1, <1>2, <1>3, <1>4 DEF ServiceNext

LEMMA ServiceInitIInv == ServiceInit => IInv /\ R!Init
<1>1. Init => LoginsHeld /\ SessionsGenuine /\ UploadAnswersTrue /\ AllServed
  BY DEF Init, LoginsHeld, SessionsGenuine, UploadAnswersTrue, AllServed, Served, NoRequest
<1>2. Init => R!Init
  BY DEF Init, R!Init, NoRequest, R!NoRequest
<1> QED
  BY <1>1, <1>2, InitTypeOK, InitPendingOK DEF IInv, ServiceInit

LEMMA ServiceNextIInv ==
  IInv /\ [ServiceNext]_serviceVars => IInv' /\ [R!Next]_(R!registryVars)
<1>1. IInv /\ [Next]_vars => IInv'
  BY NextTypeOK, NextPendingOK, NextLoginsHeld, NextSessionsGenuine, NextUploads, NextAllServed
     DEF IInv
<1> QED
  BY <1>1, ServiceStep, FaultElsewhere, StepAtomic DEF R!registryVars

(* One account per login, genuine cookies and true answers to uploads,     *)
(* through every failed start, death and restart of the process.           *)
THEOREM ServedCorrectly ==
  ServiceSpec => [](TypeOK /\ OneAccountPerLogin /\ SessionsGenuine /\ UploadAnswersTrue)
<1>1. IInv => TypeOK /\ OneAccountPerLogin /\ SessionsGenuine /\ UploadAnswersTrue
  BY HeldIsOne DEF IInv
<1> QED
  BY <1>1, ServiceInitIInv, ServiceNextIInv, PTL DEF ServiceSpec

(* And it registers, logs in and accepts orders as Registry does.          *)
THEOREM ServiceImplements == ServiceSpec => ImplementsRegistry
  BY ServiceInitIInv, ServiceNextIInv, PTL DEF ServiceSpec, ImplementsRegistry, R!Spec

=============================================================================
