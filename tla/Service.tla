------------------------------- MODULE Service -------------------------------
(***************************************************************************)
(* The life of the process around Handlers: initService and RunServer      *)
(* (service.go) with the chain Connect, ApplyMigrations, Ping of the       *)
(* DBManager, and the handler of /ping, which uses the same DBManager      *)
(* while requests are served.                                              *)
(*                                                                         *)
(* DBManager keeps the first error it meets in m.err.  Nothing guards the  *)
(* field: reading it and writing it are steps, and the ping of the pool    *)
(* takes its time between them.  The migrations are golang-migrate's: it   *)
(* marks a version dirty, runs its file, and clears the mark; a version    *)
(* that is dirty is refused.                                               *)
(***************************************************************************)
EXTENDS Handlers

CONSTANTS
  Versions,  \* number of files under migrations/, 2 in the code
  Probes     \* the requests to /ping that are served at the same time

ASSUME ServiceAssumption == Versions \in Nat

VARIABLES
  phase,     \* where initService is; "serving" once RunServer listens
  dbErr,     \* m.err is not nil
  hasPool,   \* m.pool is not nil
  version,   \* migrations that were applied, in the database
  dirty,     \* the next one has begun, in the database
  probe,     \* where each /ping is
  passed,    \* history: whether its own ping of the pool went well
  health     \* the status code it is answered with, 0 before

requestVars == <<accounts, owner, sessions, callVars, accepted>>
schemaVars == <<version, dirty>>
probeVars == <<probe, passed, health>>
serviceVars == <<vars, phase, dbErr, hasPool, schemaVars, probeVars>>

NoProbes ==
  [probe |-> [p \in Probes |-> "idle"],
   passed |-> [p \in Probes |-> FALSE],
   health |-> [p \in Probes |-> 0]]

ServiceInit ==
  /\ Init
  /\ phase = "off" /\ dbErr = FALSE /\ hasPool = FALSE
  /\ version = 0 /\ dirty = FALSE
  /\ probe = NoProbes.probe /\ passed = NoProbes.passed /\ health = NoProbes.health

-----------------------------------------------------------------------------
(* initService                                                             *)

(* dbmanager.New                                                           *)
Start ==
  /\ phase = "off"
  /\ phase' = "connect"
  /\ dbErr' = FALSE /\ hasPool' = FALSE
  /\ UNCHANGED <<vars, schemaVars, probeVars>>

(* A method of the chain that finds an error returns at once.              *)
Skip(here, next) ==
  /\ phase = here /\ dbErr
  /\ phase' = next
  /\ UNCHANGED <<vars, dbErr, hasPool, schemaVars, probeVars>>

(* Mutant: the error is logged and m.err is not assigned.                  *)
ErrsUnkept(next) ==
  /\ phase' = next
  /\ UNCHANGED <<requestVars, dbErr, hasPool, schemaVars, probeVars>>

(* m.err = err, and the chain goes on.                                     *)
Errs(next) ==
  /\ dbErr' = TRUE
  /\ phase' = next
  /\ UNCHANGED <<requestVars, hasPool, schemaVars, probeVars>>

Connect ==
  /\ phase = "connect" /\ ~dbErr
  /\ hasPool' = TRUE
  /\ phase' = "migrate"
  /\ UNCHANGED <<vars, dbErr, schemaVars, probeVars>>

ConnectFails == phase = "connect" /\ ~dbErr /\ Fault /\ Errs("migrate")

(* Mutant: the last migration is run again and again.                      *)
MigrationBeginsAgain ==
  /\ phase = "migrate" /\ ~dbErr
  /\ ~dirty /\ version <= Versions
  /\ dirty' = TRUE
  /\ phase' = "migrating"
  /\ UNCHANGED <<vars, dbErr, hasPool, version, probeVars>>

(* migrations.Up: the next file, between the two writes of its version.    *)
MigrationBegins ==
  /\ phase = "migrate" /\ ~dbErr
  /\ ~dirty /\ version < Versions
  /\ dirty' = TRUE
  /\ phase' = "migrating"
  /\ UNCHANGED <<vars, dbErr, hasPool, version, probeVars>>

MigrationEnds ==
  /\ phase = "migrating"
  /\ version' = version + 1
  /\ dirty' = FALSE
  /\ phase' = "migrate"
  /\ UNCHANGED <<vars, dbErr, hasPool, probeVars>>

MigrationFails ==
  /\ phase \in {"migrate", "migrating"} /\ ~dbErr
  /\ Fault
  /\ Errs("ping")

(* An earlier process did not come to the end of a migration.              *)
MigrationRefused ==
  /\ phase = "migrate" /\ ~dbErr /\ dirty
  /\ Errs("ping")
  /\ UNCHANGED faults

(* Up has nothing left to do: nil, or ErrNoChange, which is no error.      *)
MigrationsDone ==
  /\ phase = "migrate" /\ ~dbErr
  /\ ~dirty /\ version = Versions
  /\ phase' = "ping"
  /\ UNCHANGED <<vars, dbErr, hasPool, schemaVars, probeVars>>

Ping ==
  /\ phase = "ping" /\ ~dbErr
  /\ phase' = "check"
  /\ UNCHANGED <<vars, dbErr, hasPool, schemaVars, probeVars>>

PingFails == phase = "ping" /\ ~dbErr /\ Fault /\ Errs("check")

(* dbManager.Error() and GetPool(); without them RunServer returns.        *)
Listen ==
  /\ phase = "check"
  /\ phase' = IF ~dbErr /\ hasPool THEN "serving" ELSE "off"
  /\ UNCHANGED <<vars, dbErr, hasPool, schemaVars, probeVars>>

-----------------------------------------------------------------------------
(* GET /ping                                                               *)

(* Mutant: Ping asks the pool whatever m.err says, so that a database that *)
(* is back heals the health check.                                         *)
ProbeAlways(p) ==
  /\ phase = "serving" /\ probe[p] = "idle"
  /\ probe' = [probe EXCEPT ![p] = "pinging"]
  /\ dbErr' = FALSE
  /\ UNCHANGED <<vars, phase, hasPool, schemaVars, passed, health>>

(* if m.err != nil { return m }                                            *)
Probe(p) ==
  /\ phase = "serving" /\ probe[p] = "idle"
  /\ probe' = [probe EXCEPT ![p] = IF dbErr THEN "error" ELSE "pinging"]
  /\ UNCHANGED <<vars, phase, dbErr, hasPool, schemaVars, passed, health>>

ProbePasses(p) ==
  /\ phase = "serving" /\ probe[p] = "pinging"
  /\ probe' = [probe EXCEPT ![p] = "error"]
  /\ passed' = [passed EXCEPT ![p] = TRUE]
  /\ UNCHANGED <<vars, phase, dbErr, hasPool, schemaVars, health>>

(* The database does not answer, or the client has gone and r.Context()    *)
(* with it.                                                                *)
ProbeFails(p) ==
  /\ phase = "serving" /\ probe[p] = "pinging"
  /\ Fault
  /\ dbErr' = TRUE
  /\ probe' = [probe EXCEPT ![p] = "error"]
  /\ UNCHANGED <<requestVars, phase, hasPool, schemaVars, passed, health>>

(* h.db.Error()                                                            *)
ProbeAnswered(p) ==
  /\ phase = "serving" /\ probe[p] = "error"
  /\ health' = [health EXCEPT ![p] = IF dbErr THEN 500 ELSE 200]
  /\ probe' = [probe EXCEPT ![p] = "done"]
  /\ UNCHANGED <<vars, phase, dbErr, hasPool, schemaVars, passed>>

ProbeLeaves(p) ==
  /\ phase = "serving" /\ probe[p] = "done"
  /\ probe' = [probe EXCEPT ![p] = "idle"]
  /\ passed' = [passed EXCEPT ![p] = FALSE]
  /\ health' = [health EXCEPT ![p] = 0]
  /\ UNCHANGED <<vars, phase, dbErr, hasPool, schemaVars>>

-----------------------------------------------------------------------------

(* Users, orders and sessions are served by the process that listens.      *)
Serves ==
  /\ phase = "serving"
  /\ CallStep
  /\ UNCHANGED <<phase, dbErr, hasPool, schemaVars, probeVars>>

(* The process dies, at any moment after its start.                        *)
Dies ==
  /\ phase # "off"
  /\ Crash
  /\ phase' = "off"
  /\ probe' = NoProbes.probe /\ passed' = NoProbes.passed /\ health' = NoProbes.health
  /\ UNCHANGED <<dbErr, hasPool, schemaVars>>

InitService ==
  \/ Start \/ Connect \/ ConnectFails
  \/ MigrationBegins \/ MigrationEnds \/ MigrationFails
  \/ MigrationRefused \/ MigrationsDone
  \/ Ping \/ PingFails \/ Listen
  \/ Skip("migrate", "ping") \/ Skip("ping", "check")

ProbeStep(p) ==
  \/ Probe(p) \/ ProbePasses(p) \/ ProbeFails(p)
  \/ ProbeAnswered(p) \/ ProbeLeaves(p)

ServiceNext ==
  \/ InitService
  \/ Serves
  \/ \E p \in Probes : ProbeStep(p)
  \/ Dies

ServiceSpec == ServiceInit /\ [][ServiceNext]_serviceVars

-----------------------------------------------------------------------------
(* Properties.                                                             *)

ServiceTypeOK ==
  /\ phase \in {"off", "connect", "migrate", "migrating", "ping", "check", "serving"}
  /\ dbErr \in BOOLEAN /\ hasPool \in BOOLEAN
  /\ version \in 0 .. Versions /\ dirty \in BOOLEAN
  /\ probe \in [Probes -> {"idle", "pinging", "error", "done"}]
  /\ passed \in [Probes -> BOOLEAN]
  /\ health \in [Probes -> {0, 200, 500}]

(* Requests are served, and the pool is used, only behind a complete       *)
(* schema, whatever died or failed at whichever step of whichever earlier  *)
(* start: the sticky m.err carries a failure to the check of               *)
(* service.go:38, and a half-done migration stays visible as dirty.        *)
ServesMigrated ==
  phase = "serving" => hasPool /\ version = Versions /\ ~dirty

(* A /ping that is answered with 200 has itself reached the database: the  *)
(* unguarded m.err that the requests share (db_manager.go:151) never lends *)
(* one of them the success of another.                                     *)
HealthyIsTrue == \A p \in Probes : health[p] = 200 => passed[p]

=============================================================================
