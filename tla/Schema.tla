------------------------------- MODULE Schema -------------------------------
(***************************************************************************)
(* The database schema as the set of objects in it, and what the five      *)
(* migrations and synchronize do to it.  The indexes of the audit table    *)
(* belong to its entity too, and come and go with the columns they cover.  *)
(***************************************************************************)
EXTENDS Naturals

\* lockout stands for failedLoginAttempts and lockedUntil, actor for
\* performedBy and performedByEmail.  A unique constraint on the address has the
\* name the baseline gives it, or the one synchronize once generated.
Objects == {"users", "lockout", "IDX_users_locked_until", "UQ_users_email",
            "UQ_generated", "UQ_users_email_active", "audit_logs", "actor"}

\* UNIQUE (email), deleted rows included.
Unconditional == {"UQ_users_email", "UQ_generated"}

OfUsers == Unconditional \cup
           {"users", "lockout", "IDX_users_locked_until", "UQ_users_email_active"}
OfAuditLogs == {"audit_logs", "actor"}

\* The objects the entities of the code map to: the index on lockedUntil is not
\* among them.
EntityObjects == {"users", "lockout", "UQ_users_email_active"} \cup OfAuditLogs

-----------------------------------------------------------------------------
(* Migrations, in the order of their timestamps *)
InitialSchema == 1
AddAccountLockout == 2
ScopeEmailUniquenessToLiveRows == 3
CreateAuditLogs == 4
AddAuditPerformedBy == 5

Migrations == InitialSchema .. AddAuditPerformedBy

\* MUTANT of ScopeEmailUp: the constraint is looked for by its definition alone.
ScopeEmailUpByDefinition(S) == S \cup {"UQ_users_email_active"}

\* The constraint goes by its declared name.  The search by definition finds
\* none: it compares with UNIQUE ("email"), and pg_get_constraintdef quotes no
\* name that needs no quotes.
ScopeEmailUp(S) == (S \ {"UQ_users_email"}) \cup {"UQ_users_email_active"}

\* CREATE TABLE IF NOT EXISTS leaves a table alone that synchronize made.
Up(m, S) ==
    CASE m = InitialSchema ->
            IF "users" \in S THEN S ELSE S \cup {"users", "UQ_users_email"}
      [] m = AddAccountLockout -> S \cup {"lockout", "IDX_users_locked_until"}
      [] m = ScopeEmailUniquenessToLiveRows -> ScopeEmailUp(S)
      [] m = CreateAuditLogs -> S \cup {"audit_logs"}
      [] m = AddAuditPerformedBy -> S \cup {"actor"}

\* ALTER TABLE needs its table.
UpPossible(m, S) ==
    /\ m \in {AddAccountLockout, ScopeEmailUniquenessToLiveRows} => "users" \in S
    /\ m = AddAuditPerformedBy => "audit_logs" \in S

Down(m, S) ==
    CASE m = InitialSchema -> S \ OfUsers
      [] m = AddAccountLockout -> S \ {"lockout", "IDX_users_locked_until"}
      [] m = ScopeEmailUniquenessToLiveRows ->
            (S \ {"UQ_users_email_active"}) \cup {"UQ_users_email"}
      [] m = CreateAuditLogs -> S \ OfAuditLogs
      [] m = AddAuditPerformedBy -> S \ {"actor"}

\* UNIQUE (email) cannot be added while an address is held twice, by a live and
\* a deleted row.
DownPossible(m, reused) == m = ScopeEmailUniquenessToLiveRows => ~reused

\* migration:run and migrationsRun: the pending ones of P in order.
UpIfPending(m, P, S) == IF m \in P THEN Up(m, S) ELSE S

Migrated(P, S) ==
    UpIfPending(AddAuditPerformedBy, P,
        UpIfPending(CreateAuditLogs, P,
            UpIfPending(ScopeEmailUniquenessToLiveRows, P,
                UpIfPending(AddAccountLockout, P,
                    UpIfPending(InitialSchema, P, S)))))

\* No statement of them fails: no earlier migration drops a table.
MigrationPossible(P, S) ==
    \A m \in P : UpPossible(m, UpIfPending(CreateAuditLogs, P,
                                  UpIfPending(InitialSchema, P, S)))

\* synchronize makes the schema that of the entities and drops the rest.
Synchronized(S) == EntityObjects
=============================================================================
