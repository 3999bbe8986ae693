-------------------------- MODULE DeploymentSafety --------------------------
(***************************************************************************)
(* The properties of a deployment.                                         *)
(***************************************************************************)
EXTENDS Deployment

\* Every variable has its type.
DeploymentTypeOK ==
    /\ schema \subseteq Objects
    /\ executed \subseteq Migrations
    /\ reused \in BOOLEAN
    /\ dbUp \in BOOLEAN
    /\ inst \in [Instances -> Process]
    /\ faults \in Nat

\* The migrations table tells the truth about tables, columns and the declared
\* guards on addresses: what a migration on record has put in place or taken away
\* is so, on a fresh database and on one that synchronize has populated (the
\* promise of the baseline's comment), when instances race on the same
\* migrations, when processes die, and when a migration is reverted.  Of a
\* constraint with a generated name and of the index on lockedUntil it does not.
HistoryHonoured == UpToDate(executed, schema)

\* At no moment, not even when uniqueness moves from the constraint to the
\* partial index, or when the down of that migration fails because an address
\* has been used twice, does the users table lack a guard against two live
\* accounts on one address.  The handlers rely on it alone.
AddressesGuarded == Guarded(schema)

\* database.module.ts: an instance that migrates or synchronizes serves only
\* over a schema that has what the entities map to and from which the declared
\* constraint is gone, whatever the other instances do to the schema; one that
\* synchronizes, only where no constraint of any name keeps the address of a
\* deleted account.
ServedSchemaFits ==
    \A i \in Instances :
        inst[i].pc \in {"up", "hung"} /\ Prepares(i) =>
        /\ EntityObjects \subseteq schema
        /\ "UQ_users_email" \notin schema
        /\ Development(Env(i)) => schema \cap Unconditional = {}

\* ScopeEmailUniquenessToLiveRows on databases built by synchronize, and
\* user.entity.ts on deleted accounts: where that migration is on record, an
\* instance serves over a schema in which the address of a deleted account is
\* free, under whatever name the old constraint was.
UniquenessScoped ==
    \A i \in Instances :
        In(i, "up") /\ ScopeEmailUniquenessToLiveRows \in executed =>
        schema \cap Unconditional = {}

\* configuration() and ConfigValidationService together: no production instance
\* serves with a missing secret or with one of the texts that stand in for a
\* secret in configuration.ts and .env.example, all of which say
\* "change-in-production".
ServingSecretsOwn ==
    \A i \in Instances :
        Ready(i) /\ Production(Env(i)) =>
        /\ Unset \notin {Env(i).JWT_SECRET, Env(i).JWT_REFRESH_SECRET}
        /\ "default" \notin JwtSecrets(Env(i))

\* health.controller.ts on liveness: an outage of the database does not turn
\* into restarts, so that an instance which serves goes on when it ends.
OutageRestartsNobody ==
    [][\A i \in Instances :
          In(i, "up") /\ ~dbUp /\ faults' = faults => In(i, "up")']_deployVars

\* Races on a migration, outages, crashes and hangs delay a start and no more:
\* once they are over every instance whose configuration is accepted serves
\* for good, and every other one never does.
EveryInstanceSettles ==
    \A i \in Instances :
        <>[](In(i, IF Loads(Env(i)) /\ Accepts(Env(i)) THEN "up" ELSE "refused"))
=============================================================================
