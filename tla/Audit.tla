------------------------------- MODULE Audit -------------------------------
(***************************************************************************)
(* The three queries of the verifier (verifier.go), as functions of the    *)
(* tables they scan.                                                       *)
(***************************************************************************)
EXTENDS WalletSchema, Functions

LedgerSum(rows) == SumFunctionOnSet([e \in rows |-> e.amount], rows)

OfTransaction(rows, t) == {e \in rows : e.tx = t}
OfAccount(rows, a)     == {e \in rows : e.account = a}

\* GROUP BY transaction_id HAVING SUM(amount) <> 0
Unbalanced(entries) ==
    {t \in {e.tx : e \in entries} : LedgerSum(OfTransaction(entries, t)) # 0}

\* Accounts whose cached balance is not the sum of their entries.
Drifted(accounts, balance, entries) ==
    {a \in accounts : balance[a] # LedgerSum(OfAccount(entries, a))}

\* SELECT SUM(balance)
Total(accounts, balance) == SumFunctionOnSet(balance, accounts)
=============================================================================
