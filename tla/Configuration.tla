---------------------------- MODULE Configuration ----------------------------
(***************************************************************************)
(* The environment of a process, what configuration() makes of it, and     *)
(* what ConfigValidationService refuses.                                   *)
(***************************************************************************)
EXTENDS Integers

CONSTANTS
    Unset,      \* a variable that is not set, or is empty
    NaN         \* what parseInt makes of a text that is no number

\* "default" is a text with "change-in-production" in it.
Secrets == {"default", "postgres", "own"}

\* The parsed value of a numeric variable, a variable at a time.
Numeral == Int \cup {Unset, NaN}

Environment == [NODE_ENV : {"development", "staging", "production", Unset},
                JWT_SECRET : Secrets \cup {Unset},
                JWT_REFRESH_SECRET : Secrets \cup {Unset},
                DB_PASSWORD : Secrets \cup {Unset},
                DB_RUN_MIGRATIONS : BOOLEAN,
                PORT : Numeral]

\* process.env.X || default
OrDefault(value, default) == IF value = Unset THEN default ELSE value

NodeEnv(env) == OrDefault(env.NODE_ENV, "development")
Production(env) == NodeEnv(env) = "production"
Development(env) == NodeEnv(env) = "development"

\* configuration() throws when production lacks a secret.
Loads(env) ==
    Production(env) =>
        Unset \notin {env.JWT_SECRET, env.JWT_REFRESH_SECRET, env.DB_PASSWORD}

\* The values the rest of the code reads.
JwtSecrets(env) == {OrDefault(env.JWT_SECRET, "default"),
                    OrDefault(env.JWT_REFRESH_SECRET, "default")}
DatabasePassword(env) == OrDefault(env.DB_PASSWORD, "postgres")
Port(env) == OrDefault(env.PORT, 3000)

\* MUTANT of Accepts: only a missing secret is refused, not a default one.
AcceptsDefaults(env) == Port(env) # NaN /\ Port(env) >= 1 /\ Port(env) <= 65535

\* validateConfiguration.  Its tests for missing values come to nothing: defaults
\* have taken their place, and with a DB_PORT that is no number there has been
\* no connection.
Accepts(env) ==
    /\ Production(env) => "default" \notin JwtSecrets(env) \cup {DatabasePassword(env)}
    /\ Port(env) # NaN
    /\ Port(env) >= 1 /\ Port(env) <= 65535

RunsMigrations(env) == env.DB_RUN_MIGRATIONS
=============================================================================
