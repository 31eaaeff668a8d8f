--------------------------- MODULE MCWalletService ---------------------------
(***************************************************************************)
(* Small instances of WalletService for TLC.                               *)
(***************************************************************************)
EXTENDS WalletService, TLC

CONSTANTS u1, u2, ext, k1, k2, k3

MCRank == [a \in Account |-> CASE a = u1 -> 1 [] a = ext -> 2 [] a = u2 -> 3]

Body(kind, u, n, k, json) ==
    [kind |-> kind, user |-> u, amount |-> n, key |-> k, json |-> json]

\* Clients that use a key for one request and its retries: two users' deposits,
\* withdrawals that do and do not fit, and requests that are refused.
RetryHttp ==
    {Body("deposit", u1, 2, k1, TRUE), Body("deposit", u2, 1, k2, TRUE),
     Body("withdraw", u1, 1, k3, TRUE), Body("balance", u1, 0, NoKey, TRUE),
     Body("withdraw", u1, 0, k3, TRUE), Body("deposit", u2, 1, NoKey, TRUE),
     Body("withdraw", u1, 1, k3, FALSE)}

\* Clients that use one key for a deposit and for a withdrawal.
ReuseHttp ==
    {Body("deposit", u1, 2, k1, TRUE), Body("withdraw", u1, 1, k1, TRUE)}

ServiceParams == {Args(h) : h \in Http}

Callers == Permutations(Requests)
=============================================================================
