-------------------------- MODULE DeploymentProofs --------------------------
(***************************************************************************)
(* Proofs about a deployment, for any instances, environments, databases,  *)
(* numbers of attempts and faults.                                         *)
(***************************************************************************)
EXTENDS DeploymentSafety, TLAPS

-----------------------------------------------------------------------------
(* What the migrations do to a schema. *)

Sound(done, S) == UpToDate(done, S) /\ Guarded(S) /\ WellBuilt(S)

\* The schema serves the code, but for a constraint with a generated name.
Fits(S) == EntityObjects \subseteq S /\ "UQ_users_email" \notin S

LEMMA MigrationNames ==
    /\ Migrations = {InitialSchema, AddAccountLockout, ScopeEmailUniquenessToLiveRows,
                     CreateAuditLogs, AddAuditPerformedBy}
    /\ InitialSchema = 1 /\ AddAccountLockout = 2
    /\ ScopeEmailUniquenessToLiveRows = 3 /\ CreateAuditLogs = 4
    /\ AddAuditPerformedBy = 5
BY DEF Migrations, InitialSchema, AddAccountLockout, ScopeEmailUniquenessToLiveRows,
       CreateAuditLogs, AddAuditPerformedBy

\* Each object after the migrations of P.
LEMMA MigratedObjects ==
    ASSUME NEW P \in SUBSET Migrations, NEW S
    PROVE  LET T == Migrated(P, S)
           IN /\ "users" \in T <=> "users" \in S \/ InitialSchema \in P
              /\ "lockout" \in T <=> "lockout" \in S \/ AddAccountLockout \in P
              /\ "IDX_users_locked_until" \in T <=>
                    "IDX_users_locked_until" \in S \/ AddAccountLockout \in P
              /\ "UQ_users_email" \in T <=>
                    /\ ScopeEmailUniquenessToLiveRows \notin P
                    /\ "UQ_users_email" \in S \/ (InitialSchema \in P /\ "users" \notin S)
              /\ "UQ_generated" \in T <=> "UQ_generated" \in S
              /\ "UQ_users_email_active" \in T <=>
                    "UQ_users_email_active" \in S \/ ScopeEmailUniquenessToLiveRows \in P
              /\ "audit_logs" \in T <=> "audit_logs" \in S \/ CreateAuditLogs \in P
              /\ "actor" \in T <=> "actor" \in S \/ AddAuditPerformedBy \in P
              /\ T \subseteq S \cup Objects
<1> DEFINE S1 == UpIfPending(InitialSchema, P, S)
           S2 == UpIfPending(AddAccountLockout, P, S1)
           S3 == UpIfPending(ScopeEmailUniquenessToLiveRows, P, S2)
           S4 == UpIfPending(CreateAuditLogs, P, S3)
           S5 == UpIfPending(AddAuditPerformedBy, P, S4)
<1>1. Migrated(P, S) = S5
  BY DEF Migrated
<1>2. S1 = IF InitialSchema \in P /\ "users" \notin S
           THEN S \cup {"users", "UQ_users_email"} ELSE S
  BY MigrationNames DEF UpIfPending, Up
<1> HIDE DEF S1
<1>3. S2 = IF AddAccountLockout \in P
           THEN S1 \cup {"lockout", "IDX_users_locked_until"} ELSE S1
  BY MigrationNames DEF UpIfPending, Up
<1> HIDE DEF S2
<1>4. S3 = IF ScopeEmailUniquenessToLiveRows \in P
           THEN (S2 \ {"UQ_users_email"}) \cup {"UQ_users_email_active"}
           ELSE S2
  BY MigrationNames DEF UpIfPending, Up, ScopeEmailUp
<1> HIDE DEF S3
<1>5. S4 = IF CreateAuditLogs \in P THEN S3 \cup {"audit_logs"} ELSE S3
  BY MigrationNames DEF UpIfPending, Up
<1> HIDE DEF S4
<1>6. S5 = IF AddAuditPerformedBy \in P THEN S4 \cup {"actor"} ELSE S4
  BY MigrationNames DEF UpIfPending, Up
<1> HIDE DEF S5
<1>7. /\ "users" \in S5 <=> "users" \in S \/ InitialSchema \in P
      /\ "lockout" \in S5 <=> "lockout" \in S \/ AddAccountLockout \in P
      /\ "IDX_users_locked_until" \in S5 <=>
            "IDX_users_locked_until" \in S \/ AddAccountLockout \in P
  BY <1>2, <1>3, <1>4, <1>5, <1>6
<1>8. /\ "UQ_users_email" \in S5 <=>
            /\ ScopeEmailUniquenessToLiveRows \notin P
            /\ "UQ_users_email" \in S \/ (InitialSchema \in P /\ "users" \notin S)
      /\ "UQ_generated" \in S5 <=> "UQ_generated" \in S
      /\ "UQ_users_email_active" \in S5 <=>
            "UQ_users_email_active" \in S \/ ScopeEmailUniquenessToLiveRows \in P
  BY <1>2, <1>3, <1>4, <1>5, <1>6
<1>9. /\ "audit_logs" \in S5 <=> "audit_logs" \in S \/ CreateAuditLogs \in P
      /\ "actor" \in S5 <=> "actor" \in S \/ AddAuditPerformedBy \in P
  BY <1>2, <1>3, <1>4, <1>5, <1>6
<1>10. S5 \subseteq S \cup Objects
  <2>1. S1 \subseteq S \cup Objects
    BY <1>2 DEF Objects
  <2>2. S2 \subseteq S \cup Objects
    BY <1>3, <2>1 DEF Objects
  <2>3. S3 \subseteq S \cup Objects
    BY <1>4, <2>2 DEF Objects
  <2>4. S4 \subseteq S \cup Objects
    BY <1>5, <2>3 DEF Objects
  <2> QED
    BY <1>6, <2>4 DEF Objects
<1> QED
  BY <1>1, <1>7, <1>8, <1>9, <1>10

\* UpToDate, Guarded and WellBuilt, object by object.
LEMMA SoundObjects ==
    ASSUME NEW done, NEW S
    PROVE  Sound(done, S) <=>
             /\ InitialSchema \in done => "users" \in S
             /\ AddAccountLockout \in done => "lockout" \in S
             /\ ScopeEmailUniquenessToLiveRows \in done =>
                   "UQ_users_email_active" \in S /\ "UQ_users_email" \notin S
             /\ CreateAuditLogs \in done => "audit_logs" \in S
             /\ AddAuditPerformedBy \in done => "actor" \in S
             /\ "users" \in S => \/ "UQ_users_email_active" \in S
                                 \/ "UQ_users_email" \in S \/ "UQ_generated" \in S
             /\ "lockout" \in S \/ "IDX_users_locked_until" \in S
                  \/ "UQ_users_email_active" \in S
                  \/ "UQ_users_email" \in S \/ "UQ_generated" \in S => "users" \in S
             /\ "actor" \in S => "audit_logs" \in S
BY DEF Sound, UpToDate, Guarded, WellBuilt, Unconditional, OfUsers, OfAuditLogs

LEMMA FitsObjects ==
    ASSUME NEW S
    PROVE  Fits(S) <=>
             /\ "users" \in S /\ "lockout" \in S /\ "UQ_users_email_active" \in S
             /\ "audit_logs" \in S /\ "actor" \in S
             /\ "UQ_users_email" \notin S
BY DEF Fits, EntityObjects, OfAuditLogs

\* Committed migrations have their effect, whoever has run the others, and
\* leave a schema that serves as it is.
LEMMA CommitSound ==
    ASSUME NEW P \in SUBSET Migrations, NEW done, NEW S, Sound(done, S),
           MigrationPossible(P, S)
    PROVE  /\ Sound(done \cup P, Migrated(P, S))
           /\ Fits(S) => Fits(Migrated(P, S))
           /\ Migrations \subseteq done \cup P => Fits(Migrated(P, S))
           /\ "UQ_generated" \notin S => "UQ_generated" \notin Migrated(P, S)
<1> DEFINE T == Migrated(P, S)
<1>1. /\ AddAccountLockout \in P \/ ScopeEmailUniquenessToLiveRows \in P => "users" \in T
      /\ AddAuditPerformedBy \in P => "audit_logs" \in T
  <2> DEFINE R == UpIfPending(CreateAuditLogs, P, UpIfPending(InitialSchema, P, S))
  <2>1. /\ AddAccountLockout \in P \/ ScopeEmailUniquenessToLiveRows \in P => "users" \in R
        /\ AddAuditPerformedBy \in P => "audit_logs" \in R
    BY MigrationNames DEF MigrationPossible, UpPossible
  <2>2. /\ "users" \in R => "users" \in S \/ InitialSchema \in P
        /\ "audit_logs" \in R => "audit_logs" \in S \/ CreateAuditLogs \in P
    BY MigrationNames DEF UpIfPending, Up
  <2> QED
    BY <2>1, <2>2, MigratedObjects
<1>2. Sound(done \cup P, T)
  BY <1>1, SoundObjects, MigratedObjects, MigrationNames
<1>3. Fits(S) => Fits(T)
  BY FitsObjects, MigratedObjects
<1>4. Migrations \subseteq done \cup P => Fits(T)
  BY SoundObjects, FitsObjects, MigratedObjects, MigrationNames
<1> QED
  BY <1>2, <1>3, <1>4, MigratedObjects

LEMMA LatestExists ==
    ASSUME executed \subseteq Migrations, executed # {}
    PROVE  Latest \in executed /\ \A n \in executed : n <= Latest
<1>1. \E m \in executed : \A n \in executed : n <= m
  <2>1. executed \subseteq {1, 2, 3, 4, 5}
    BY MigrationNames
  <2>2. CASE 5 \in executed
    BY <2>1, <2>2
  <2>3. CASE 5 \notin executed /\ 4 \in executed
    BY <2>1, <2>3
  <2>4. CASE 5 \notin executed /\ 4 \notin executed /\ 3 \in executed
    BY <2>1, <2>4
  <2>5. CASE executed \subseteq {1, 2} /\ 2 \in executed
    BY <2>1, <2>5
  <2>6. CASE executed = {1}
    BY <2>6
  <2> QED
    BY <2>1, <2>2, <2>3, <2>4, <2>5, <2>6
<1> QED
  BY <1>1 DEF Latest

LEMMA RevertSound ==
    ASSUME executed \subseteq Migrations, executed # {}, Sound(executed, schema),
           schema \subseteq Objects
    PROVE  /\ Sound(executed \ {Latest}, Down(Latest, schema))
           /\ Down(Latest, schema) \subseteq Objects
<1>1. Latest \in executed /\ \A n \in executed : n <= Latest
  BY LatestExists
<1>2. CASE Latest = InitialSchema
  <2>1. Down(Latest, schema) = schema \ {"users", "lockout", "IDX_users_locked_until",
                "UQ_users_email", "UQ_generated", "UQ_users_email_active"}
    BY <1>2, MigrationNames DEF Down, OfUsers, Unconditional
  <2>2. executed \ {Latest} = {}
    BY <1>1, <1>2, MigrationNames
  <2> QED
    BY <1>2, <2>1, <2>2, SoundObjects
<1>3. CASE Latest = AddAccountLockout
  <2>1. Down(Latest, schema) = schema \ {"lockout", "IDX_users_locked_until"}
    BY <1>3, MigrationNames DEF Down
  <2>2. executed \ {Latest} \subseteq {InitialSchema}
    BY <1>1, <1>3, MigrationNames
  <2> QED
    BY <1>3, <2>1, <2>2, SoundObjects, MigrationNames
<1>4. CASE Latest = ScopeEmailUniquenessToLiveRows
  <2>1. Down(Latest, schema) =
          (schema \ {"UQ_users_email_active"}) \cup {"UQ_users_email"}
    BY <1>4, MigrationNames DEF Down
  <2>2. executed \ {Latest} \subseteq {InitialSchema, AddAccountLockout}
    BY <1>1, <1>4, MigrationNames
  <2> QED
    BY <1>1, <1>4, <2>1, <2>2, SoundObjects, MigrationNames DEF Objects
<1>5. CASE Latest = CreateAuditLogs
  <2>1. Down(Latest, schema) = schema \ {"audit_logs", "actor"}
    BY <1>5, MigrationNames DEF Down, OfAuditLogs
  <2>2. executed \ {Latest} \subseteq
          {InitialSchema, AddAccountLockout, ScopeEmailUniquenessToLiveRows}
    BY <1>1, <1>5, MigrationNames
  <2> QED
    BY <1>5, <2>1, <2>2, SoundObjects, MigrationNames
<1>6. CASE Latest = AddAuditPerformedBy
  <2>1. Down(Latest, schema) = schema \ {"actor"}
    BY <1>6, MigrationNames DEF Down
  <2>2. executed \ {Latest} \subseteq Migrations \ {AddAuditPerformedBy}
    BY <1>1, <1>6
  <2> QED
    BY <1>6, <2>1, <2>2, SoundObjects, MigrationNames
<1> QED
  BY <1>1, <1>2, <1>3, <1>4, <1>5, <1>6, MigrationNames

LEMMA SynchronizedSound ==
    ASSUME NEW done, NEW S
    PROVE  /\ Sound(done, Synchronized(S)) /\ Fits(Synchronized(S))
           /\ "UQ_generated" \notin Synchronized(S)
           /\ Synchronized(S) \subseteq Objects
<1>1. Synchronized(S) = {"users", "lockout", "UQ_users_email_active", "audit_logs", "actor"}
  BY DEF Synchronized, EntityObjects, OfAuditLogs
<1>2. Synchronized(S) \subseteq Objects
  BY <1>1 DEF Objects
<1> QED
  BY <1>1, <1>2, SoundObjects, FitsObjects

-----------------------------------------------------------------------------
(* The inductive invariant: the database is sound, an instance about to    *)
(* migrate will run whatever is missing, one that has prepared itself      *)
(* finds a schema that fits, one that has synchronized finds no generated  *)
(* constraint, and none has come further than its environment lets it.     *)
EnvPrepares(env) == RunsMigrations(env) \/ Development(env)

\* A process in its place, over a database with these migrations and objects.
Placed(p, done, S) ==
    /\ p.pc = "migrating" => Migrations \ p.pending \subseteq done
    /\ p.pc \in {"validating", "up", "hung"} /\ EnvPrepares(p.env) => Fits(S)
    /\ p.pc \in {"validating", "up", "hung"} /\ Development(p.env) => "UQ_generated" \notin S
    /\ p.pc \notin {"down", "refused"} => Loads(p.env)
    /\ p.pc \in {"up", "hung"} => Accepts(p.env)

DeploymentInv ==
    /\ DeploymentTypeOK
    /\ Sound(executed, schema)
    /\ \A i \in Instances : Placed(inst[i], executed, schema)

USE DEF In, Env

\* What the statements of a start do to the database, and what a commit whose
\* answer is lost does.
Forward ==
    /\ schema' \subseteq Objects /\ executed' \subseteq Migrations
    /\ executed \subseteq executed'
    /\ Sound(executed', schema')
    /\ Fits(schema) => Fits(schema')
    /\ "UQ_generated" \notin schema => "UQ_generated" \notin schema'

LEMMA StillForward ==
    ASSUME DeploymentInv, UNCHANGED <<schema, executed>>
    PROVE  Forward
BY DEF DeploymentInv, DeploymentTypeOK, Forward

LEMMA CommitForward ==
    ASSUME DeploymentInv, NEW P \in SUBSET Migrations, MigrationPossible(P, schema),
           Commit(P)
    PROVE  /\ Forward
           /\ Migrations \ P \subseteq executed => Fits(schema')
<1>1. schema \subseteq Objects /\ executed \subseteq Migrations /\ Sound(executed, schema)
  BY DEF DeploymentInv, DeploymentTypeOK
<1>2. schema' \subseteq Objects
  BY <1>1, MigratedObjects DEF Commit
<1> QED
  BY <1>1, <1>2, CommitSound DEF Commit, Forward

LEMMA SynchronizeForward ==
    ASSUME DeploymentInv, schema' = Synchronized(schema), executed' = executed
    PROVE  Forward /\ Fits(schema') /\ "UQ_generated" \notin schema'
BY SynchronizedSound DEF DeploymentInv, DeploymentTypeOK, Forward

\* Whoever stays where it is stays in its place.
LEMMA PlacedForward ==
    ASSUME Forward, NEW p, Placed(p, executed, schema)
    PROVE  Placed(p, executed', schema')
BY DEF Forward, Placed

\* One process moves to its next place.
LEMMA OneProcess ==
    ASSUME DeploymentInv, Forward, NEW i \in Instances, NEW p \in Process,
           inst' = [inst EXCEPT ![i] = p], Placed(p, executed', schema'),
           reused' \in BOOLEAN, dbUp' \in BOOLEAN, faults' \in Nat
    PROVE  DeploymentInv'
<1>1. inst \in [Instances -> Process]
  BY DEF DeploymentInv, DeploymentTypeOK
<1>2. \A j \in Instances : inst'[j] = IF j = i THEN p ELSE inst[j]
  BY <1>1
<1>3. \A j \in Instances : Placed(inst[j], executed', schema')
  BY PlacedForward DEF DeploymentInv
<1>4. \A j \in Instances : Placed(inst'[j], executed', schema')
  BY <1>2, <1>3
<1>5. inst' \in [Instances -> Process]
  BY <1>1
<1> QED
  BY <1>4, <1>5 DEF DeploymentInv, DeploymentTypeOK, Forward

\* No process moves.
LEMMA NoProcess ==
    ASSUME DeploymentInv, Forward, inst' = inst,
           reused' \in BOOLEAN, dbUp' \in BOOLEAN, faults' \in Nat
    PROVE  DeploymentInv'
<1>1. \A j \in Instances : Placed(inst[j], executed', schema')
  BY PlacedForward DEF DeploymentInv
<1> QED
  BY <1>1 DEF DeploymentInv, DeploymentTypeOK, Forward

\* Where Enter, Stop and TryAgain lead.
LEMMA EnterProcess ==
    ASSUME DeploymentInv, NEW i \in Instances, NEW phase \in Phases, Enter(i, phase)
    PROVE  \E p \in Process :
             /\ inst' = [inst EXCEPT ![i] = p]
             /\ p.pc = phase /\ p.env = Env(i) /\ p.pending = inst[i].pending
<1> DEFINE p == [inst[i] EXCEPT !.pc = phase]
<1>1. inst[i] \in Process
  BY DEF DeploymentInv, DeploymentTypeOK
<1>2. p \in Process /\ p.pc = phase /\ p.env = Env(i) /\ p.pending = inst[i].pending
  BY <1>1 DEF Process
<1>3. inst' = [inst EXCEPT ![i] = p]
  BY DEF Enter
<1> QED
  BY <1>2, <1>3

LEMMA StopProcess ==
    ASSUME DeploymentInv, NEW i \in Instances, Stop(i)
    PROVE  \E p \in Process :
             inst' = [inst EXCEPT ![i] = p] /\ p.pc = "down" /\ p.env = Env(i)
<1> DEFINE p == [inst[i] EXCEPT !.pc = "down", !.tries = 0]
<1>1. inst[i] \in Process
  BY DEF DeploymentInv, DeploymentTypeOK
<1>2. p \in Process /\ p.pc = "down" /\ p.env = Env(i)
  BY <1>1 DEF Process, Phases
<1>3. inst' = [inst EXCEPT ![i] = p]
  BY DEF Stop
<1> QED
  BY <1>2, <1>3

LEMMA TryAgainProcess ==
    ASSUME DeploymentInv, NEW i \in Instances, TryAgain(i)
    PROVE  \E p \in Process :
             /\ inst' = [inst EXCEPT ![i] = p]
             /\ p.pc \in {"connecting", "down"} /\ p.env = Env(i)
<1>1. inst[i] \in Process
  BY DEF DeploymentInv, DeploymentTypeOK
<1>2. CASE Retry(i, inst[i].tries + 1)
  <2> DEFINE tries == inst[i].tries + 1
             p == [inst[i] EXCEPT !.pc = "connecting", !.tries = tries]
  <2>1. tries \in Nat
    BY <1>1 DEF Process
  <2>2. inst' = [inst EXCEPT ![i] = p]
    BY <1>2 DEF Retry
  <2> HIDE DEF tries
  <2>3. p \in Process /\ p.pc = "connecting" /\ p.env = Env(i)
    BY <1>1, <2>1 DEF Process, Phases
  <2> QED
    BY <2>2, <2>3
<1>3. CASE Stop(i)
  BY <1>3, StopProcess
<1> QED
  BY <1>2, <1>3 DEF TryAgain

-----------------------------------------------------------------------------
(* The actions. *)

LEMMA StartInv ==
    ASSUME DeploymentInv, NEW i \in Instances, Start(i)
    PROVE  DeploymentInv'
<1>1. Forward /\ reused' \in BOOLEAN /\ dbUp' \in BOOLEAN /\ faults' \in Nat
  BY StillForward DEF Start, DeploymentInv, DeploymentTypeOK
<1> DEFINE phase == IF Loads(Env(i)) THEN "connecting" ELSE "refused"
<1>2. phase \in Phases /\ Enter(i, phase)
  BY DEF Start, Phases
<1>3. PICK p \in Process : /\ inst' = [inst EXCEPT ![i] = p]
                           /\ p.pc = phase /\ p.env = Env(i)
  BY <1>2, EnterProcess
<1>4. Placed(p, executed', schema')
  BY <1>3 DEF Placed
<1> QED
  BY <1>1, <1>3, <1>4, OneProcess

LEMMA TryAgainInv ==
    ASSUME DeploymentInv, NEW i \in Instances, TryAgain(i), Loads(Env(i)),
           UNCHANGED <<schema, executed, reused, dbUp, faults>>
    PROVE  DeploymentInv'
<1>1. Forward /\ reused' \in BOOLEAN /\ dbUp' \in BOOLEAN /\ faults' \in Nat
  BY StillForward DEF DeploymentInv, DeploymentTypeOK
<1>2. PICK p \in Process : /\ inst' = [inst EXCEPT ![i] = p]
                           /\ p.pc \in {"connecting", "down"} /\ p.env = Env(i)
  BY TryAgainProcess
<1>3. Placed(p, executed', schema')
  BY <1>2 DEF Placed
<1> QED
  BY <1>1, <1>2, <1>3, OneProcess

LEMMA ConnectInv ==
    ASSUME DeploymentInv, NEW i \in Instances, Connect(i)
    PROVE  DeploymentInv'
<1>1. /\ Forward /\ reused' \in BOOLEAN /\ dbUp' \in BOOLEAN /\ faults' \in Nat
      /\ UNCHANGED <<schema, executed, reused, dbUp, faults>>
  BY StillForward DEF Connect, DeploymentInv, DeploymentTypeOK
<1>2. inst[i] \in Process /\ Loads(Env(i))
  BY DEF Connect, DeploymentInv, DeploymentTypeOK, Placed
<1>3. CASE TryAgain(i)
  BY <1>1, <1>2, <1>3, TryAgainInv
<1>4. CASE inst' = [inst EXCEPT ![i] =
                [@ EXCEPT !.pc = IF RunsMigrations(Env(i)) THEN "migrating"
                                 ELSE AfterMigrations(i),
                          !.pending = Migrations \ executed,
                          !.seen = schema]]
  <2> DEFINE phase == IF RunsMigrations(Env(i)) THEN "migrating" ELSE AfterMigrations(i)
             p == [inst[i] EXCEPT !.pc = phase, !.pending = Migrations \ executed,
                                  !.seen = schema]
  <2>1. phase \in Phases /\ phase \in {"migrating", "synchronizing", "validating"}
    BY DEF AfterMigrations, Phases
  <2>2. phase = "validating" => ~EnvPrepares(Env(i)) /\ ~Development(Env(i))
    BY DEF AfterMigrations, EnvPrepares
  <2>3. inst' = [inst EXCEPT ![i] = p]
    BY <1>4
  <2> HIDE DEF phase
  <2>4. p \in Process
    BY <1>2, <2>1 DEF Process, DeploymentInv, DeploymentTypeOK
  <2>5. p.pc = phase /\ p.env = Env(i) /\ p.pending = Migrations \ executed
    BY <1>2 DEF Process
  <2> HIDE DEF p
  <2>6. Placed(p, executed', schema')
    BY <1>1, <1>2, <2>1, <2>2, <2>5 DEF Placed
  <2> QED
    BY <1>1, <2>3, <2>4, <2>6, OneProcess
<1> QED
  BY <1>3, <1>4 DEF Connect

LEMMA MigrateInv ==
    ASSUME DeploymentInv, NEW i \in Instances, Migrate(i)
    PROVE  DeploymentInv'
<1>1. /\ reused' \in BOOLEAN /\ dbUp' \in BOOLEAN /\ faults' \in Nat
      /\ UNCHANGED <<reused, dbUp, faults>>
  BY DEF Migrate, DeploymentInv, DeploymentTypeOK
<1>2. /\ inst[i] \in Process /\ Loads(Env(i))
      /\ Migrations \ inst[i].pending \subseteq executed
      /\ inst[i].pending \subseteq Migrations
  BY DEF Migrate, DeploymentInv, DeploymentTypeOK, Placed, Process
<1>3. CASE /\ MigrationPossible(inst[i].pending, schema)
           /\ Commit(inst[i].pending)
           /\ inst' = [inst EXCEPT ![i] =
                [@ EXCEPT !.pc = AfterMigrations(i), !.seen = schema']]
  <2>1. Forward /\ Fits(schema')
    BY <1>2, <1>3, CommitForward
  <2> DEFINE p == [inst[i] EXCEPT !.pc = AfterMigrations(i), !.seen = schema']
  <2>2. /\ AfterMigrations(i) \in {"synchronizing", "validating"}
        /\ AfterMigrations(i) = "validating" => ~Development(Env(i))
    BY DEF AfterMigrations
  <2>3. p \in Process
    BY <1>2, <2>1, <2>2 DEF Process, Phases, Forward
  <2>4. p.pc = AfterMigrations(i) /\ p.env = Env(i)
    BY <1>2 DEF Process
  <2>5. inst' = [inst EXCEPT ![i] = p]
    BY <1>3
  <2> HIDE DEF p
  <2>6. Placed(p, executed', schema')
    BY <1>2, <2>1, <2>2, <2>4 DEF Placed
  <2> QED
    BY <1>1, <2>1, <2>3, <2>5, <2>6, OneProcess
<1>4. CASE TryAgain(i) /\ UNCHANGED <<schema, executed>>
  BY <1>1, <1>2, <1>4, TryAgainInv
<1> QED
  BY <1>3, <1>4 DEF Migrate

LEMMA SynchronizeInv ==
    ASSUME DeploymentInv, NEW i \in Instances, Synchronize(i)
    PROVE  DeploymentInv'
<1>1. /\ reused' \in BOOLEAN /\ dbUp' \in BOOLEAN /\ faults' \in Nat
      /\ UNCHANGED <<executed, reused, dbUp, faults>>
  BY DEF Synchronize, DeploymentInv, DeploymentTypeOK
<1>2. Loads(Env(i))
  BY DEF Synchronize, DeploymentInv, Placed
<1>3. CASE schema' = Synchronized(schema) /\ Enter(i, "validating")
  <2>1. Forward /\ Fits(schema') /\ "UQ_generated" \notin schema'
    BY <1>1, <1>3, SynchronizeForward
  <2>2. PICK p \in Process : /\ inst' = [inst EXCEPT ![i] = p]
                             /\ p.pc = "validating" /\ p.env = Env(i)
    BY <1>3, EnterProcess DEF Phases
  <2>3. Placed(p, executed', schema')
    BY <1>2, <2>1, <2>2 DEF Placed
  <2> QED
    BY <1>1, <2>1, <2>2, <2>3, OneProcess
<1>4. CASE TryAgain(i) /\ UNCHANGED schema
  BY <1>1, <1>2, <1>4, TryAgainInv
<1> QED
  BY <1>3, <1>4 DEF Synchronize

LEMMA ValidateInv ==
    ASSUME DeploymentInv, NEW i \in Instances, Validate(i)
    PROVE  DeploymentInv'
<1>1. Forward /\ reused' \in BOOLEAN /\ dbUp' \in BOOLEAN /\ faults' \in Nat
  BY StillForward DEF Validate, DeploymentInv, DeploymentTypeOK
<1> DEFINE phase == IF Accepts(Env(i)) THEN "up" ELSE "refused"
<1>2. phase \in Phases /\ Enter(i, phase)
  BY DEF Validate, Phases
<1>3. PICK p \in Process : /\ inst' = [inst EXCEPT ![i] = p]
                           /\ p.pc = phase /\ p.env = Env(i)
  BY <1>2, EnterProcess
<1>4. Placed(inst[i], executed', schema') /\ inst[i].pc = "validating"
  BY <1>1, PlacedForward DEF Validate, DeploymentInv
<1>5. Placed(p, executed', schema')
  BY <1>3, <1>4 DEF Placed
<1> QED
  BY <1>1, <1>3, <1>5, OneProcess

\* An instance goes down.
LEMMA StopInv ==
    ASSUME DeploymentInv, NEW i \in Instances, Stop(i), Forward,
           reused' \in BOOLEAN, dbUp' \in BOOLEAN, faults' \in Nat
    PROVE  DeploymentInv'
<1>1. PICK p \in Process :
        inst' = [inst EXCEPT ![i] = p] /\ p.pc = "down" /\ p.env = Env(i)
  BY StopProcess
<1>2. Placed(p, executed', schema')
  BY <1>1 DEF Placed
<1> QED
  BY <1>1, <1>2, OneProcess

LEMMA ServingInv ==
    ASSUME DeploymentInv, NEW i \in Instances, ReuseAddress(i) \/ Restart(i)
    PROVE  DeploymentInv'
<1>1. Forward /\ dbUp' \in BOOLEAN /\ faults' \in Nat /\ reused' \in BOOLEAN
  BY StillForward DEF ReuseAddress, Restart, DeploymentInv, DeploymentTypeOK
<1>2. CASE ReuseAddress(i)
  BY <1>1, <1>2, NoProcess DEF ReuseAddress
<1>3. CASE Restart(i)
  BY <1>1, <1>3, StopInv DEF Restart
<1> QED
  BY <1>2, <1>3

LEMMA ReleaseInv ==
    ASSUME DeploymentInv, Release
    PROVE  DeploymentInv'
<1>1. Forward
  BY CommitForward DEF Release
<1> QED
  BY <1>1, NoProcess DEF Release, DeploymentInv, DeploymentTypeOK

\* Nothing runs while a migration is reverted.
LEMMA RevertInv ==
    ASSUME DeploymentInv, Revert, faults' \in Nat
    PROVE  DeploymentInv'
<1>1. executed \subseteq Migrations /\ schema \subseteq Objects /\ Sound(executed, schema)
  BY DEF DeploymentInv, DeploymentTypeOK
<1>2. Sound(executed', schema') /\ schema' \subseteq Objects /\ executed' \subseteq Migrations
  BY <1>1, RevertSound DEF Revert
<1>3. \A i \in Instances : Placed(inst'[i], executed', schema')
  BY DEF Revert, Placed
<1> QED
  BY <1>2, <1>3 DEF Revert, DeploymentInv, DeploymentTypeOK

LEMMA CrashInv ==
    ASSUME DeploymentInv, NEW i \in Instances, Crash(i), faults' \in Nat
    PROVE  DeploymentInv'
<1>1. Forward
  <2>1. CASE UNCHANGED <<schema, executed>>
    BY <2>1, StillForward
  <2>2. CASE MigrationPossible(inst[i].pending, schema) /\ Commit(inst[i].pending)
    <3>1. inst[i].pending \subseteq Migrations
      BY DEF DeploymentInv, DeploymentTypeOK, Process
    <3> QED
      BY <2>2, <3>1, CommitForward
  <2>3. CASE schema' = Synchronized(schema) /\ UNCHANGED executed
    BY <2>3, SynchronizeForward
  <2> QED
    BY <2>1, <2>2, <2>3 DEF Crash
<1> QED
  BY <1>1, StopInv DEF Crash, DeploymentInv, DeploymentTypeOK

LEMMA HangInv ==
    ASSUME DeploymentInv, NEW i \in Instances, Hang(i), faults' \in Nat
    PROVE  DeploymentInv'
<1>1. Forward /\ reused' \in BOOLEAN /\ dbUp' \in BOOLEAN
  BY StillForward DEF Hang, DeploymentInv, DeploymentTypeOK
<1>2. PICK p \in Process : /\ inst' = [inst EXCEPT ![i] = p]
                           /\ p.pc = "hung" /\ p.env = Env(i)
  BY EnterProcess DEF Hang, Phases
<1>3. Placed(inst[i], executed', schema') /\ inst[i].pc = "up"
  BY <1>1, PlacedForward DEF Hang, DeploymentInv
<1>4. Placed(p, executed', schema')
  BY <1>2, <1>3 DEF Placed
<1> QED
  BY <1>1, <1>2, <1>4, OneProcess

LEMMA FaultInv ==
    ASSUME DeploymentInv, Fault
    PROVE  DeploymentInv'
<1>1. faults' \in Nat
  BY DEF Fault, DeploymentInv, DeploymentTypeOK
<1>2. CASE Outage
  BY <1>1, <1>2, StillForward, NoProcess DEF Outage, DeploymentInv, DeploymentTypeOK
<1> QED
  BY <1>1, <1>2, RevertInv, CrashInv, HangInv DEF Fault

LEMMA DeploymentStep ==
    ASSUME DeploymentInv, [NextDeployment]_deployVars
    PROVE  DeploymentInv'
<1>1. CASE Recover
  BY <1>1, StillForward, NoProcess DEF Recover, DeploymentInv, DeploymentTypeOK
<1>2. CASE UNCHANGED deployVars
  BY <1>2, StillForward, NoProcess DEF deployVars, DeploymentInv, DeploymentTypeOK
<1> QED
  BY <1>1, <1>2, StartInv, ConnectInv, MigrateInv, SynchronizeInv, ValidateInv,
     ServingInv, ReleaseInv, FaultInv DEF NextDeployment, Prepare

LEMMA DeploymentStart ==
    ASSUME InitDeployment
    PROVE  DeploymentInv
<1>1. PICK db \in Databases :
        schema = db.schema /\ executed = db.executed /\ reused = db.reused
  BY DEF InitDeployment
<1>2. /\ Sound(executed, schema) /\ schema \subseteq Objects
      /\ executed \subseteq Migrations /\ reused \in BOOLEAN
  BY <1>1, DeploymentAssumption DEF Sound, Database
<1>3. \A i \in Instances : inst[i].pc = "down"
  BY DEF InitDeployment
<1>4. inst \in [Instances -> Process]
  BY DEF InitDeployment, Process, Phases
<1> QED
  BY <1>2, <1>3, <1>4 DEF InitDeployment, DeploymentInv, DeploymentTypeOK, Placed

LEMMA DeploymentAlways == DeploymentSpec => []DeploymentInv
<1>1. InitDeployment => DeploymentInv
  BY DeploymentStart
<1>2. DeploymentInv /\ [NextDeployment]_deployVars => DeploymentInv'
  BY DeploymentStep
<1> QED
  BY <1>1, <1>2, PTL DEF DeploymentSpec

-----------------------------------------------------------------------------
(* The theorems. *)

\* Every variable of a deployment keeps its type.
THEOREM DeploymentTyped == DeploymentSpec => []DeploymentTypeOK
<1>1. DeploymentInv => DeploymentTypeOK
  BY DEF DeploymentInv
<1> QED
  BY <1>1, DeploymentAlways, PTL

\* The migrations table tells the truth about tables, columns and declared
\* guards, however many instances race, crash and start again on however old a
\* database, and whatever is reverted.
THEOREM HistoryKept == DeploymentSpec => []HistoryHonoured
<1>1. DeploymentInv => HistoryHonoured
  BY DEF DeploymentInv, Sound, HistoryHonoured
<1> QED
  BY <1>1, DeploymentAlways, PTL

\* The users table always has a guard against two live accounts on one address.
THEOREM AddressGuardKept == DeploymentSpec => []AddressesGuarded
<1>1. DeploymentInv => AddressesGuarded
  BY DEF DeploymentInv, Sound, AddressesGuarded
<1> QED
  BY <1>1, DeploymentAlways, PTL

\* An instance that migrates or synchronizes serves over a schema that has what
\* the entities map to and not the declared constraint, and one that
\* synchronizes over one without any constraint on all addresses, for as long as
\* it serves, whatever the others do to the schema.
THEOREM SchemaFitsServers == DeploymentSpec => []ServedSchemaFits
<1>1. DeploymentInv => ServedSchemaFits
  BY DEF DeploymentInv, Placed, ServedSchemaFits, Prepares, EnvPrepares, Fits, Unconditional
<1> QED
  BY <1>1, DeploymentAlways, PTL

LEMMA AcceptedSecrets ==
    ASSUME NEW env, Production(env), Accepts(env)
    PROVE  "default" \notin JwtSecrets(env)
BY DEF Accepts

\* No production instance serves with a secret that is missing or one of the
\* repository's defaults.
THEOREM SecretsOwn == DeploymentSpec => []ServingSecretsOwn
<1>1. ASSUME DeploymentInv, NEW i \in Instances, inst[i].pc = "up", Production(Env(i))
      PROVE  /\ Unset \notin {Env(i).JWT_SECRET, Env(i).JWT_REFRESH_SECRET}
             /\ "default" \notin JwtSecrets(Env(i))
  <2>1. Loads(Env(i)) /\ Accepts(Env(i))
    BY <1>1 DEF DeploymentInv, Placed
  <2>2. Unset \notin {Env(i).JWT_SECRET, Env(i).JWT_REFRESH_SECRET}
    BY <1>1, <2>1 DEF Loads, Production
  <2> QED
    BY <1>1, <2>1, <2>2, AcceptedSecrets
<1>2. DeploymentInv => ServingSecretsOwn
  BY <1>1 DEF ServingSecretsOwn, Ready
<1> QED
  BY <1>2, DeploymentAlways, PTL

\* An outage of the database restarts no instance that serves.
THEOREM NoRestartByOutage == DeploymentSpec => OutageRestartsNobody
<1>1. ASSUME DeploymentInv, [NextDeployment]_deployVars, NEW i \in Instances,
             In(i, "up"), ~dbUp, faults' = faults
      PROVE  In(i, "up")'
  <2>1. inst \in [Instances -> Process] /\ faults \in Nat
    BY <1>1 DEF DeploymentInv, DeploymentTypeOK
  <2>2. ~Fault
    BY <1>1, <2>1 DEF Fault
  <2>3. CASE inst' = inst
    BY <1>1, <2>3
  <2>4. ASSUME NEW j \in Instances, Prepare(j)
        PROVE  inst'[i] = inst[i]
    <3>1. inst[j].pc # "up"
      BY <2>4 DEF Prepare, Start, Connect, Migrate, Synchronize, Validate
    <3> QED
      BY <1>1, <2>1, <2>4, <3>1
         DEF Prepare, Start, Connect, Migrate, Synchronize, Validate, Enter, TryAgain, Retry, Stop
  <2>5. ASSUME NEW j \in Instances, Restart(j)
        PROVE  inst'[i] = inst[i]
    BY <1>1, <2>1, <2>5 DEF Restart, Live, Stop
  <2> QED
    BY <1>1, <2>2, <2>3, <2>4, <2>5
       DEF NextDeployment, deployVars, ReuseAddress, Release, Recover
<1>2. DeploymentInv /\ [NextDeployment]_deployVars =>
        [\A i \in Instances :
           In(i, "up") /\ ~dbUp /\ faults' = faults => In(i, "up")']_deployVars
  BY <1>1
<1> QED
  BY <1>2, DeploymentAlways, PTL DEF DeploymentSpec, OutageRestartsNobody
=============================================================================
