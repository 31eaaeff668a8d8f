------------------------------- MODULE Ledger -------------------------------
(***************************************************************************)
(* What the wallet promises: a double-entry ledger.  Accounts are opened,  *)
(* and money is posted from one account to another in a single step, at    *)
(* most once per idempotency key, never out of a user's account beyond its *)
(* balance.  No locks, no connections, no rows: Transfer implements this.  *)
(***************************************************************************)
EXTENDS WalletSchema

VARIABLES
    opened,     \* the accounts that exist
    balance,    \* [Account -> Bigint], 0 for an account not opened
    posted      \* the postings made so far

ledgerVars == <<opened, balance, posted>>

Posting == [id : Requests, key : Keys \cup {NoKey},
            from : Account, to : Account, amount : 1 .. BigintMax]

Init ==
    /\ opened = SeededAccounts
    /\ balance = [a \in Account |-> 0]
    /\ posted = {}

Open(u) ==
    /\ u \in Users \ opened
    /\ opened' = opened \cup {u}
    /\ UNCHANGED <<balance, posted>>

Post(p) ==
    /\ {p.from, p.to} \subseteq opened
    /\ p.from # p.to
    /\ BalanceAllowed(p.from, balance[p.from] - p.amount)
    /\ BalanceAllowed(p.to, balance[p.to] + p.amount)
    /\ balance' = [balance EXCEPT ![p.from] = @ - p.amount,
                                  ![p.to]   = @ + p.amount]
    /\ \A q \in posted : q.id # p.id /\ (p.key = NoKey \/ q.key # p.key)
    /\ posted' = posted \cup {p}
    /\ UNCHANGED opened

Next ==
    \/ \E u \in Users : Open(u)
    \/ \E p \in Posting : Post(p)

Spec == Init /\ [][Next]_ledgerVars
=============================================================================
