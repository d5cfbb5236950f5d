----------------------------- MODULE ServerConfig -----------------------------
(***************************************************************************)
(* What the service makes of its environment variables.  An environment is *)
(* a record with the variables that are set; a variable that does not      *)
(* parse has the value Malformed, and so has an entry of a comma-separated *)
(* list that does not parse.  Lists are sets: order and blanks are gone.   *)
(***************************************************************************)
EXTENDS Integers, FiniteSets

CONSTANTS
    Address,    \* IP addresses
    Loopback,   \* those of 127.0.0.1/32 and ::1/128
    Malformed

Engine == {"postgres", "mariadb", "mssql"}

ASSUME AddressAssumption ==
    /\ Loopback \subseteq Address
    /\ Malformed \notin Address

Required == {"database_target", "api_keys", "allowed_origins"}

Defaults == [rate_limit_rps |-> 10, rate_limit_burst |-> 30, trust_proxy |-> FALSE,
             trusted_proxy_cidr |-> {}, db_pool_max |-> 10, db_pool_min |-> 2]

\* envy::from_env, for AppConfig and DatabaseConfig.
Parses(env) ==
    /\ Required \subseteq DOMAIN env
    /\ \A name \in DOMAIN env : env[name] # Malformed
    /\ env["database_target"] \in Engine

Loaded(env) ==
    [name \in DOMAIN env \cup DOMAIN Defaults |->
        IF name \in DOMAIN env THEN env[name] ELSE Defaults[name]]

\* DatabaseConfig::validate.
ConnectionSettings(target) ==
    CASE target = "postgres" -> {"postgres_url"}
      [] target = "mariadb"  -> {"mariadb_url"}
      [] target = "mssql"    -> {"mssql_host", "mssql_database", "mssql_username",
                                 "mssql_password"}

Validates(cfg) == ConnectionSettings(cfg.database_target) \subseteq DOMAIN cfg

PoolConnectionsPerRps == 10

\* The smallest pool AppState::init accepts, for rates that fit a u32.
RequiredPoolSize(cfg) ==
    IF cfg.rate_limit_rps < PoolConnectionsPerRps THEN 1
    ELSE cfg.rate_limit_rps \div PoolConnectionsPerRps

\* What AppState::init asks for before it connects.
Admissible(cfg) ==
    /\ cfg.db_pool_max >= RequiredPoolSize(cfg)
    /\ cfg.api_keys # {}
    /\ Malformed \notin cfg.api_keys

\* build_cors keeps the origins that parse and asks for one; a quota needs a
\* period and a burst.
Buildable(cfg) ==
    /\ cfg.allowed_origins \ {Malformed} # {}
    /\ cfg.rate_limit_rps > 0
    /\ cfg.rate_limit_burst > 0

\* proxy_cidrs drops the entries that do not parse.  An unset or blank list
\* means the loopback addresses; a list without a good entry means nobody.
ProxyCidrs(cfg) ==
    IF cfg.trusted_proxy_cidr = {} THEN {Loopback}
    ELSE cfg.trusted_proxy_cidr \ {Malformed}

=============================================================================
