---------------------------- MODULE MCLifecycle -----------------------------
(***************************************************************************)
(* A small instance of Lifecycle for TLC.                                  *)
(***************************************************************************)
EXTENDS Lifecycle, TLC

\* No port is set, and what is required is.
Defaults == [n \in Names |->
    IF n = "JWT_SECRET" THEN 48
    ELSE IF n \in {"POSTGRES_USER", "POSTGRES_PASSWORD", "POSTGRES_DB"} THEN Text
    ELSE Unset]

\* .env.example
Example == ("API_GATEWAY_PORT" :> 8080) @@ ("AUTH_SERVICE_PORT" :> 8081)
           @@ ("WALLET_SERVICE_PORT" :> 8082) @@ Defaults

\* The gateway listens where PORT says; the auth service panics over its variable
\* and the wallet service listens where the gateway looks for the auth service; no
\* service loads its configuration; a number of connections that is 0 as an int32.
MCEnvs == {("PORT" :> 9000) @@ ("API_GATEWAY_PORT" :> Unset) @@ Example,
           ("AUTH_SERVICE_PORT" :> Text) @@ ("WALLET_SERVICE_PORT" :> 8081) @@ Defaults,
           ("JWT_SECRET" :> 31) @@ Example,
           ("POSTGRES_MAX_CONNS" :> 2 * HalfRange) @@ Example}

MCPaths == {<<"wallet", "deposit">>, <<"auth", "deposit">>, <<"game", "spin">>}
=============================================================================
