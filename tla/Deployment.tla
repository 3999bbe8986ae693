----------------------------- MODULE Deployment -----------------------------
(***************************************************************************)
(* Several instances of the service over one database: each starts, brings *)
(* the schema up to date if its environment says so, validates its         *)
(* configuration and serves, while the others do the same, the database    *)
(* goes away, instances die or hang, and an operator runs and reverts      *)
(* migrations.                                                             *)
(***************************************************************************)
EXTENDS Configuration, Schema

CONSTANTS
    Instances,
    Environments,   \* what an instance may be started with
    Databases,      \* what is in the database at the start
    Attempts,       \* how often TypeOrmModule tries to connect
    MaxFaults       \* bound: outages, crashes, hangs and reverts

VARIABLES
    schema,         \* the objects in the database
    executed,       \* the migrations table
    reused,         \* an address is held by a live and a deleted account
    dbUp,
    inst,           \* inst[i]: the process of instance i
    faults

deployVars == <<schema, executed, reused, dbUp, inst, faults>>

Phases == {"down", "connecting", "migrating", "synchronizing", "validating",
           "up", "hung", "refused"}

Process == [pc : Phases,
            env : Environments,
            tries : Nat,                \* failed attempts of this start
            pending : SUBSET Migrations,\* migrations it is going to run
            seen : SUBSET Objects]      \* the schema it works from

Database == [schema : SUBSET Objects, executed : SUBSET Migrations,
             reused : BOOLEAN]

\* Every database the code can have left: the tables need each other, live
\* addresses are unique, and the migrations on record have had their effect, as
\* far as ScopeEmailUp and synchronize allow: a constraint with a generated name
\* stays, and synchronize takes the index on lockedUntil away.
UpToDate(done, S) ==
    /\ InitialSchema \in done => "users" \in S
    /\ AddAccountLockout \in done => "lockout" \in S
    /\ ScopeEmailUniquenessToLiveRows \in done =>
          "UQ_users_email_active" \in S /\ "UQ_users_email" \notin S
    /\ CreateAuditLogs \in done => "audit_logs" \in S
    /\ AddAuditPerformedBy \in done => "actor" \in S

Guarded(S) ==
    "users" \in S => S \cap (Unconditional \cup {"UQ_users_email_active"}) # {}

WellBuilt(S) ==
    /\ "users" \notin S => S \cap OfUsers = {}
    /\ "audit_logs" \notin S => S \cap OfAuditLogs = {}

ASSUME DeploymentAssumption ==
    /\ Environments \subseteq Environment
    /\ Attempts \in Nat \ {0}
    /\ MaxFaults \in Nat
    /\ Databases \subseteq Database
    /\ \A db \in Databases :
          UpToDate(db.executed, db.schema) /\ Guarded(db.schema) /\ WellBuilt(db.schema)

-----------------------------------------------------------------------------
Env(i) == inst[i].env
In(i, phase) == inst[i].pc = phase

Enter(i, phase) == inst' = [inst EXCEPT ![i].pc = phase]

\* The process is gone; its container starts another one.
Stop(i) == inst' = [inst EXCEPT ![i] = [@ EXCEPT !.pc = "down", !.tries = 0]]

Prepares(i) == RunsMigrations(Env(i)) \/ Development(Env(i))

\* DataSource.initialize after the migrations.
AfterMigrations(i) ==
    IF Development(Env(i)) THEN "synchronizing" ELSE "validating"

\* A statement of the preparation conflicts with what somebody else has
\* committed to the schema in the meantime.
Raced(i) == schema # inst[i].seen

\* Another attempt of the same start.
Retry(i, tries) ==
    inst' = [inst EXCEPT ![i] = [@ EXCEPT !.pc = "connecting", !.tries = tries]]

\* MUTANT of TryAgain: the attempts left are counted, from zero.
TryAgainDown(i) ==
    \/ inst[i].tries + 1 < Attempts /\ Retry(i, inst[i].tries - 1)
    \/ inst[i].tries + 1 >= Attempts /\ Stop(i)

\* MUTANT of TryAgain: bootstrap's error is caught, so that the process ends as
\* if it had done its work, and nobody starts it again.
TryAgainQuietly(i) ==
    \/ inst[i].tries + 1 < Attempts /\ Retry(i, inst[i].tries + 1)
    \/ inst[i].tries + 1 >= Attempts /\ Enter(i, "refused")

\* TypeOrmModule tries again; after the last attempt bootstrap fails and the
\* process exits, to be started again by its container.
TryAgain(i) ==
    \/ inst[i].tries + 1 < Attempts /\ Retry(i, inst[i].tries + 1)
    \/ inst[i].tries + 1 >= Attempts /\ Stop(i)

\* The transaction that holds all migrations of P is committed.
Commit(P) ==
    /\ schema' = Migrated(P, schema)
    /\ executed' = executed \cup P

-----------------------------------------------------------------------------
(* Starting *)

\* AppModule is loaded, and configuration() with it.
Start(i) ==
    /\ In(i, "down")
    /\ Enter(i, IF Loads(Env(i)) THEN "connecting" ELSE "refused")
    /\ UNCHANGED <<schema, executed, reused, dbUp, faults>>

\* The connection is made, and the migrations table is read.
Connect(i) ==
    /\ In(i, "connecting")
    /\ \/ ~dbUp /\ TryAgain(i)
       \/ /\ dbUp
          /\ inst' = [inst EXCEPT ![i] =
                [@ EXCEPT !.pc = IF RunsMigrations(Env(i)) THEN "migrating"
                                 ELSE AfterMigrations(i),
                          !.pending = Migrations \ executed,
                          !.seen = schema]]
    /\ UNCHANGED <<schema, executed, reused, dbUp, faults>>

\* MUTANT of Migrate: a failed migration is logged and the start goes on.
MigrateAnyway(i) ==
    /\ In(i, "migrating")
    /\ \/ /\ dbUp /\ MigrationPossible(inst[i].pending, schema)
          /\ Commit(inst[i].pending)
          /\ inst' = [inst EXCEPT ![i] =
                [@ EXCEPT !.pc = AfterMigrations(i), !.seen = schema']]
       \/ /\ ~dbUp \/ Raced(i) \/ ~MigrationPossible(inst[i].pending, schema)
          /\ Enter(i, AfterMigrations(i))
          /\ UNCHANGED <<schema, executed>>
    /\ UNCHANGED <<reused, dbUp, faults>>

\* All pending migrations run in one transaction.
Migrate(i) ==
    /\ In(i, "migrating")
    /\ \/ /\ dbUp /\ MigrationPossible(inst[i].pending, schema)
          /\ Commit(inst[i].pending)
          /\ inst' = [inst EXCEPT ![i] =
                [@ EXCEPT !.pc = AfterMigrations(i), !.seen = schema']]
       \/ /\ ~dbUp \/ Raced(i) \/ ~MigrationPossible(inst[i].pending, schema)
          /\ TryAgain(i)
          /\ UNCHANGED <<schema, executed>>
    /\ UNCHANGED <<reused, dbUp, faults>>

\* synchronize runs in a transaction of its own.
Synchronize(i) ==
    /\ In(i, "synchronizing")
    /\ \/ /\ dbUp
          /\ schema' = Synchronized(schema)
          /\ Enter(i, "validating")
       \/ /\ ~dbUp \/ Raced(i)
          /\ TryAgain(i)
          /\ UNCHANGED schema
    /\ UNCHANGED <<executed, reused, dbUp, faults>>

\* onModuleInit, and then app.listen: by now the schema has been changed.
Validate(i) ==
    /\ In(i, "validating")
    /\ Enter(i, IF Accepts(Env(i)) THEN "up" ELSE "refused")
    /\ UNCHANGED <<schema, executed, reused, dbUp, faults>>

-----------------------------------------------------------------------------
(* Serving *)

\* An account is deleted and its address registered again, which the schema
\* allows when uniqueness is that of live rows.
ReuseAddress(i) ==
    /\ In(i, "up") /\ dbUp
    /\ EntityObjects \subseteq schema /\ schema \cap Unconditional = {}
    /\ reused' = TRUE
    /\ UNCHANGED <<schema, executed, dbUp, inst, faults>>

\* MUTANT of Live: the liveness probe asks the database too.
LiveIfReady(i) == In(i, "up") /\ dbUp

\* GET /health/liveness asks nobody, GET /health/readiness asks the database.
Live(i) == In(i, "up")
Ready(i) == In(i, "up") /\ dbUp

\* The container of an instance whose liveness probe fails is started again.
\* One that is still starting is left alone.
Restart(i) ==
    /\ inst[i].pc \in {"up", "hung"} /\ ~Live(i)
    /\ Stop(i)
    /\ UNCHANGED <<schema, executed, reused, dbUp, faults>>

-----------------------------------------------------------------------------
(* The operator *)

\* npm run migration:run, the release step.
Release ==
    /\ dbUp /\ MigrationPossible(Migrations \ executed, schema)
    /\ Commit(Migrations \ executed)
    /\ UNCHANGED <<reused, dbUp, inst, faults>>

Latest == CHOOSE m \in executed : \A n \in executed : n <= m

\* MUTANT of Revert: no transaction, so that the index is gone although the
\* constraint cannot be added.
RevertUnwrapped ==
    /\ dbUp /\ executed # {}
    /\ \A i \in Instances : inst[i].pc \in {"down", "refused"}
    /\ IF DownPossible(Latest, reused)
       THEN schema' = Down(Latest, schema) /\ executed' = executed \ {Latest}
       ELSE schema' = schema \ {"UQ_users_email_active"} /\ UNCHANGED executed
    /\ UNCHANGED <<reused, dbUp, inst>>

\* npm run migration:revert while nothing runs: the last migration is taken
\* back in a transaction, or stays when its down fails.
Revert ==
    /\ dbUp /\ executed # {}
    /\ \A i \in Instances : inst[i].pc \in {"down", "refused"}
    /\ DownPossible(Latest, reused)
    /\ schema' = Down(Latest, schema)
    /\ executed' = executed \ {Latest}
    /\ UNCHANGED <<reused, dbUp, inst>>

-----------------------------------------------------------------------------
(* Faults *)
Outage ==
    /\ dbUp
    /\ dbUp' = FALSE
    /\ UNCHANGED <<schema, executed, reused, inst>>

Recover ==
    /\ ~dbUp
    /\ dbUp' = TRUE
    /\ UNCHANGED <<schema, executed, reused, inst, faults>>

\* A process dies; the transaction it waits for may have been committed.
Crash(i) ==
    /\ inst[i].pc \notin {"down", "refused"}
    /\ Stop(i)
    /\ \/ UNCHANGED <<schema, executed>>
       \/ /\ In(i, "migrating") /\ dbUp
          /\ MigrationPossible(inst[i].pending, schema)
          /\ Commit(inst[i].pending)
       \/ /\ In(i, "synchronizing") /\ dbUp
          /\ schema' = Synchronized(schema)
          /\ UNCHANGED executed
    /\ UNCHANGED <<reused, dbUp>>

\* The event loop of a process answers nobody any more.
Hang(i) ==
    /\ In(i, "up")
    /\ Enter(i, "hung")
    /\ UNCHANGED <<schema, executed, reused, dbUp>>

Fault ==
    /\ faults < MaxFaults
    /\ faults' = faults + 1
    /\ Outage \/ Revert \/ \E i \in Instances : Crash(i) \/ Hang(i)

-----------------------------------------------------------------------------
InitDeployment ==
    /\ \E db \in Databases :
          schema = db.schema /\ executed = db.executed /\ reused = db.reused
    /\ dbUp = TRUE
    /\ inst \in [Instances -> {[pc |-> "down", env |-> env, tries |-> 0,
                                pending |-> {}, seen |-> {}] : env \in Environments}]
    /\ faults = 0

\* A step of the code that prepares an instance.
Prepare(i) == Start(i) \/ Connect(i) \/ Migrate(i) \/ Synchronize(i) \/ Validate(i)

NextDeployment ==
    \/ \E i \in Instances : Prepare(i) \/ ReuseAddress(i) \/ Restart(i)
    \/ Release
    \/ Recover
    \/ Fault

DeploymentSpec == InitDeployment /\ [][NextDeployment]_deployVars

\* Containers are restarted, an instance takes the steps of its start, and an
\* outage ends.
FairDeployment ==
    /\ DeploymentSpec
    /\ \A i \in Instances : WF_deployVars(Prepare(i)) /\ WF_deployVars(Restart(i))
    /\ WF_deployVars(Recover)
=============================================================================
