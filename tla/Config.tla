------------------------------- MODULE Config -------------------------------
(***************************************************************************)
(* What pkg/config makes of the environment.  A variable is unset (or      *)
(* empty), an integer, or some other text; the value of JWT_SECRET stands  *)
(* for its length.                                                         *)
(***************************************************************************)
EXTENDS Integers

CONSTANTS
    Unset, Text,
    HalfRange       \* 2^31 in Go: an int32 is less

Names == {"API_GATEWAY_PORT", "AUTH_SERVICE_PORT", "WALLET_SERVICE_PORT", "PORT",
          "POSTGRES_USER", "POSTGRES_PASSWORD", "POSTGRES_DB", "POSTGRES_PORT",
          "POSTGRES_MAX_CONNS", "JWT_SECRET", "JWT_ACCESS_TTL_MIN",
          "JWT_REFRESH_TTL_DAYS"}

Service == {"gateway", "auth", "wallet"}

\* ServiceName, as a prefix of its port variable, and DefaultPort.
PortName(s)    == CASE s = "gateway" -> "API_GATEWAY_PORT"
                    [] s = "auth"    -> "AUTH_SERVICE_PORT"
                    [] s = "wallet"  -> "WALLET_SERVICE_PORT"
DefaultPort(s) == CASE s = "gateway" -> 8080
                    [] s = "auth"    -> 8081
                    [] s = "wallet"  -> 8082

\* getEnvInt; of a Text it panics (Panics).
GetEnvInt(env, name, fallback) == IF env[name] = Unset THEN fallback ELSE env[name]

Port(env, s) == GetEnvInt(env, PortName(s), GetEnvInt(env, "PORT", DefaultPort(s)))

\* Every integer is read, also a PORT that is not needed; the others only once
\* there is a port.
Panics(env, s) ==
    \/ \E name \in {PortName(s), "PORT"} : env[name] = Text
    \/ /\ Port(env, s) # 0
       /\ \E name \in {"POSTGRES_PORT", "POSTGRES_MAX_CONNS", "JWT_ACCESS_TTL_MIN",
                        "JWT_REFRESH_TTL_DAYS"} : env[name] = Text

Missing(env) ==
    \/ \E name \in {"POSTGRES_USER", "POSTGRES_PASSWORD", "POSTGRES_DB", "JWT_SECRET"} :
          env[name] = Unset
    \/ env["JWT_SECRET"] < 32

\* int32(n)
Int32(n) == ((n + HalfRange) % (2 * HalfRange)) - HalfRange

MaxConns(env) == Int32(GetEnvInt(env, "POSTGRES_MAX_CONNS", 10))

\* Load returns a configuration.
Loads(env, s) == ~Panics(env, s) /\ Port(env, s) # 0 /\ ~Missing(env)
=============================================================================
