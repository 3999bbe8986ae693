---------------------------- MODULE MCDeployment ----------------------------
(***************************************************************************)
(* Environments and databases for TLC.                                     *)
(***************************************************************************)
EXTENDS DeploymentSafety, FiniteSets

Plain == [NODE_ENV |-> "production", JWT_SECRET |-> "own",
          JWT_REFRESH_SECRET |-> "own", DB_PASSWORD |-> "own",
          DB_RUN_MIGRATIONS |-> TRUE, PORT |-> Unset]

\* Instances that migrate, that only serve, and that docker-compose.yml starts;
\* production without a secret, with a published one, and with a bad port.
UsualEnvironments ==
    {Plain,
     [Plain EXCEPT !.NODE_ENV = "staging", !.DB_RUN_MIGRATIONS = FALSE],
     [Plain EXCEPT !.NODE_ENV = Unset, !.JWT_SECRET = Unset, !.DB_PASSWORD = Unset],
     [Plain EXCEPT !.JWT_SECRET = Unset],
     [Plain EXCEPT !.JWT_REFRESH_SECRET = "default"],
     [Plain EXCEPT !.NODE_ENV = "staging", !.PORT = NaN]}

\* Empty; made by synchronize from an early entity, and from the current one;
\* and three migrations old with an address in use again.
UsualDatabases ==
    {[schema |-> {}, executed |-> {}, reused |-> FALSE],
     [schema |-> {"users", "UQ_generated"}, executed |-> {}, reused |-> FALSE],
     [schema |-> EntityObjects, executed |-> {}, reused |-> FALSE],
     [schema |-> {"users", "lockout", "IDX_users_locked_until", "UQ_users_email_active"},
      executed |-> 1 .. 3, reused |-> TRUE]}
=============================================================================
