------------------------------- MODULE MCServer -------------------------------
(***************************************************************************)
(* Deployments of Server: two with a database that fails, two that look at *)
(* the limiter behind proxies, one that asks for everything else, and the  *)
(* environments that do not start or only just do.                         *)
(***************************************************************************)
EXTENDS Server, TLC

CONSTANTS a1, a2, p1, p2, local, c1, c2, apiKey

MCAddress == {a1, a2, p1, p2, local}

\* What clients write into X-Forwarded-For before their proxies do.
Written == {<<>>, <<a2>>, <<Malformed>>, <<a2, p1>>, <<Unreadable>>}

Env == [database_target |-> "postgres", postgres_url |-> "set", api_keys |-> {apiKey},
        allowed_origins |-> {"site"}]
OnMsSql == [database_target |-> "mssql", mssql_host |-> "set", mssql_database |-> "set",
            mssql_username |-> "set", mssql_password |-> "set"]
Limits(pool, rps, burst) ==
    [db_pool_max |-> pool, rate_limit_rps |-> rps, rate_limit_burst |-> burst]
Behind(cidrs) == [trust_proxy |-> TRUE, trusted_proxy_cidr |-> cidrs]

\* Nobody connects.
Quiet(env) ==
    [env |-> env, clients |-> {}, path |-> <<>>, kinds |-> {}, lines |-> {},
     faults |-> {"up"}, last |-> 0]

Direct == (c1 :> <<a1>>) @@ (c2 :> <<a2>>)
Proxied == (c1 :> <<a1, p1>>) @@ (c2 :> <<a2, p2, p1>>)
All == {"up", "refusing", "silent"}

Failing == {
    [env |-> Limits(1, 2, 2) @@ Env, clients |-> {c1, c2}, path |-> Direct,
     kinds |-> {"newsfeed"}, lines |-> {<<>>}, faults |-> All, last |-> 0],
    [env |-> OnMsSql @@ [db_pool_min |-> 0] @@ Limits(1, 2, 2) @@ Env, clients |-> {c1},
     path |-> (c1 :> <<a1>>), kinds |-> {"ready", "newsfeed"}, lines |-> {<<>>},
     faults |-> All, last |-> 0]}

Limited == {
    [env |-> Behind({{p1, p2}}) @@ Limits(1, 2, 1) @@ Env, clients |-> {c1, c2},
     path |-> Proxied, kinds |-> {"newsfeed"}, lines |-> {<<a2, p1>>},
     faults |-> {"up"}, last |-> 2],
    [env |-> Behind({{p1, p2}}) @@ Limits(1, 1, 1) @@ Env, clients |-> {c2},
     path |-> (c2 :> <<a2, p2, p1>>), kinds |-> {"newsfeed"}, lines |-> Written,
     faults |-> {"up"}, last |-> 0],
    [env |-> Behind({{p1}, Malformed}) @@ Limits(1, 3, 1) @@ Env, clients |-> {c2},
     path |-> (c2 :> <<a2, p2, p1>>), kinds |-> Kind, lines |-> {<<>>, <<a1>>, <<Malformed>>},
     faults |-> {"up"}, last |-> 4],
    [env |-> Behind({Malformed}) @@ Limits(1, 1, 2) @@ Env, clients |-> {c1, c2},
     path |-> (c1 :> <<a1, p1>>) @@ (c2 :> <<a2, p1>>), kinds |-> {"newsfeed"},
     lines |-> {<<a2>>}, faults |-> {"up"}, last |-> 1],
    [env |-> Behind({}) @@ Limits(1, 2, 1) @@ Env, clients |-> {c1},
     path |-> (c1 :> <<a1, local>>), kinds |-> {"newsfeed"},
     lines |-> {<<>>, <<Malformed, a2>>}, faults |-> {"up"}, last |-> 1]}

Starting == {Quiet(env) : env \in {
    Env,
    Limits(1, 19, 30) @@ Env,
    Limits(1, 20, 30) @@ Env,
    Limits(0, 1, 30) @@ Env,
    Limits(1, 0, 30) @@ Env,
    OnMsSql @@ Limits(1, 2, 2) @@ Env,
    OnMsSql @@ Limits(2, 2, 2) @@ Env,
    Limits(1, 2, 0) @@ Env,
    [app_port |-> Malformed] @@ Env,
    [database_target |-> "mariadb"] @@ Env,
    [database_target |-> "mariadb", mariadb_url |-> "set"] @@ Env,
    [api_keys |-> {}] @@ Env,
    [api_keys |-> {apiKey, Malformed}] @@ Env,
    [allowed_origins |-> {Malformed}] @@ Env,
    [allowed_origins |-> {Malformed, "site"}] @@ Env,
    [database_target |-> "postgres", api_keys |-> {apiKey}]}}

MCDeployment == Failing \cup Limited \cup Starting

\* One client that asks for the newsfeed, for a second.
MCPlain == {
    [env |-> Limits(1, 2, 2) @@ Env, clients |-> {c1}, path |-> (c1 :> <<a1>>),
     kinds |-> {"newsfeed"}, lines |-> {<<>>}, faults |-> {"up"}, last |-> 1]}
=============================================================================
