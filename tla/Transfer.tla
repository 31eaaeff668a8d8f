------------------------------ MODULE Transfer ------------------------------
(***************************************************************************)
(* Repo.Transfer (repo.go) run by concurrent callers against Postgres.     *)
(*                                                                         *)
(* Every element of Requests is one call.  A step is one statement sent to *)
(* the database (Begin, SELECT ... FOR UPDATE, INSERT, UPDATE, COMMIT,     *)
(* ROLLBACK) together with the Go code up to the next one.  Postgres runs  *)
(* at its default level READ COMMITTED: a statement sees the rows that are *)
(* committed when it runs, a row locked FOR UPDATE and a unique value that *)
(* another transaction has inserted make it wait for that transaction.     *)
(*                                                                         *)
(* The rows a transaction has written stay in newTransactions, newEntries, *)
(* newFrom and newTo until COMMIT moves them to the tables.                *)
(***************************************************************************)
EXTENDS WalletSchema

CONSTANTS
    MaxConns,   \* size of the connection pool
    MaxId,      \* the ids of accounts are UUIDs: there is a greatest
    Rank,       \* the order sort.Strings gives the ids of the accounts
    Params,     \* the TransferParams the callers may pass
    NoTx        \* the TransactionID of a call that returned an error

TransferParams == [from : Account, to : Account, amount : Bigint,
                   key : Keys \cup {NoKey}]

ASSUME ConnsAssumption  == MaxConns \in Nat \ {0}
ASSUME RankAssumption   == /\ MaxId \in Nat
                           /\ Rank \in [Account -> 0 .. MaxId]
                           /\ \A a, b \in Account : Rank[a] = Rank[b] => a = b
ASSUME ParamsAssumption == Params \subseteq TransferParams
ASSUME NoTxAssumption   == NoTx \notin Requests

VARIABLES
    \* the tables, as committed
    accounts,           \* the accounts that have a row
    balance,            \* accounts.balance, 0 for an account without a row
    transactions,
    entries,            \* ledger_entries
    \* a call of Transfer
    pc,                 \* the statement it sends next
    param,              \* its argument p
    result,             \* what it returned, or will once it has unwound
    seen,               \* from.Balance, as read by lockAccount
    newFrom, newTo,     \* what the two updateBalance returned
    \* its database transaction
    conn,               \* the calls that hold a connection of the pool
    locks,              \* the account rows each has locked FOR UPDATE
    newTransactions,    \* the rows each has inserted and not committed
    newEntries

tables  == <<accounts, balance, transactions, entries>>
session == <<conn, locks, newTransactions, newEntries, seen, newFrom, newTo>>
vars    == <<tables, pc, param, result, session>>
-----------------------------------------------------------------------------
Labels ==
    {"idle", "findByKey", "begin", "lockFirst", "lockSecond", "checkFunds",
     "insertTransaction", "insertDebit", "insertCredit", "updateFrom",
     "updateTo", "commit", "rollback", "refind", "unwind", "done"}

\* Between Begin and the end of the transaction.
InTx == {"lockFirst", "lockSecond", "checkFunds", "insertTransaction",
         "insertDebit", "insertCredit", "updateFrom", "updateTo", "commit",
         "rollback", "unwind"}

Errors == {"none", "pending", "invalidAmount", "sameAccount",
           "accountNotFound", "insufficientFunds", "keyNotFound", "dbError"}

Result == [err : Errors, tx : Requests \cup {NoTx},
           fromBalance : Int, toBalance : Int]

Failure(e)     == [err |-> e, tx |-> NoTx, fromBalance |-> 0, toBalance |-> 0]
Found(t, f, g) == [err |-> "none", tx |-> t, fromBalance |-> f, toBalance |-> g]

Goto(r, l)   == pc' = [pc EXCEPT ![r] = l]
Return(r, v) == Goto(r, "done") /\ result' = [result EXCEPT ![r] = v]

\* return inside the transaction: the deferred Rollback still has to run.
Unwind(r, e) == Goto(r, "unwind") /\ result' = [result EXCEPT ![r] = Failure(e)]

\* The transaction is over, by COMMIT or by ROLLBACK: its locks, its pending
\* rows and its connection are released.
EndTx(r) ==
    /\ conn' = conn \ {r}
    /\ locks' = [locks EXCEPT ![r] = {}]
    /\ newTransactions' = [newTransactions EXCEPT ![r] = {}]
    /\ newEntries' = [newEntries EXCEPT ![r] = {}]
    /\ seen' = [seen EXCEPT ![r] = 0]
    /\ newFrom' = [newFrom EXCEPT ![r] = 0]
    /\ newTo' = [newTo EXCEPT ![r] = 0]

\* The pool has a connection to lend: acquiring one waits otherwise.
ConnFree == Cardinality(conn) < MaxConns
-----------------------------------------------------------------------------
Init ==
    /\ accounts = SeededAccounts
    /\ balance = [a \in Account |-> 0]
    /\ transactions = {}
    /\ entries = {}
    /\ pc = [r \in Requests |-> "idle"]
    /\ param \in [Requests -> Params]
    /\ result = [r \in Requests |-> Failure("pending")]
    /\ seen = [r \in Requests |-> 0]
    /\ newFrom = [r \in Requests |-> 0]
    /\ newTo = [r \in Requests |-> 0]
    /\ conn = {}
    /\ locks = [r \in Requests |-> {}]
    /\ newTransactions = [r \in Requests |-> {}]
    /\ newEntries = [r \in Requests |-> {}]

\* The INSERT ... ON CONFLICT DO NOTHING of GetOrCreateUserAccount, when there
\* is no conflict.
EnsureUserAccount(u) ==
    /\ u \notin accounts
    /\ ConnFree
    /\ accounts' = accounts \cup {u}
    /\ UNCHANGED <<balance, transactions, entries, pc, param, result, session>>

\* Transfer is called: the checks that need no database.
Enter(r) ==
    /\ pc[r] = "idle"
    /\ LET p == param[r] IN
       \/ /\ p.amount <= 0
          /\ Return(r, Failure("invalidAmount"))
       \/ /\ p.amount > 0
          /\ p.from = p.to
          /\ Return(r, Failure("sameAccount"))
       \/ /\ p.amount > 0
          /\ p.from # p.to
          /\ Goto(r, IF p.key = NoKey THEN "begin" ELSE "findByKey")
          /\ UNCHANGED result
    /\ UNCHANGED <<tables, param, session>>
-----------------------------------------------------------------------------
Committed(k) == {t \in transactions : t.key = k}

\* The row of findByKey's query for transaction t: its id and what the two
\* accounts hold now.
Lookup(t) ==
    LET debit  == CHOOSE e \in entries : e.tx = t.id /\ e.amount < 0
        credit == CHOOSE e \in entries : e.tx = t.id /\ e.amount > 0
    IN  Found(t.id, balance[debit.account], balance[credit.account])

\* The fast path.
FindByKey(r) ==
    /\ pc[r] = "findByKey"
    /\ ConnFree
    /\ LET found == Committed(param[r].key) IN
       \/ \E t \in found : Return(r, Lookup(t))
       \/ /\ found = {}
          /\ Goto(r, "begin")
          /\ UNCHANGED result
    /\ UNCHANGED <<tables, param, session>>

Begin(r) ==
    /\ pc[r] = "begin"
    /\ ConnFree
    /\ conn' = conn \cup {r}
    /\ Goto(r, "lockFirst")
    /\ UNCHANGED <<tables, param, result, locks, newTransactions, newEntries,
                   seen, newFrom, newTo>>

\* Mutant: the ids are not sorted.
IdsUnsorted(p) == <<p.from, p.to>>

\* sort.Strings(ids)
Ids(p) == IF Rank[p.from] < Rank[p.to] THEN <<p.from, p.to>> ELSE <<p.to, p.from>>

\* Mutant: the row is read without FOR UPDATE.
RowFreeNoLock(a) == TRUE

RowFree(a) == \A q \in Requests : a \notin locks[q]

\* lockAccount: SELECT ... FOR UPDATE, which waits for the row.
LockAccount(r, a, next) ==
    \/ /\ a \notin accounts
       /\ Unwind(r, "accountNotFound")
       /\ UNCHANGED <<tables, param, session>>
    \/ /\ a \in accounts
       /\ RowFree(a)
       /\ locks' = [locks EXCEPT ![r] = @ \cup {a}]
       /\ seen' = [seen EXCEPT ![r] = IF a = param[r].from THEN balance[a] ELSE @]
       /\ Goto(r, next)
       /\ UNCHANGED <<tables, param, result, conn, newTransactions, newEntries,
                      newFrom, newTo>>

LockFirst(r)  == pc[r] = "lockFirst"
                 /\ LockAccount(r, Ids(param[r])[1], "lockSecond")
LockSecond(r) == pc[r] = "lockSecond"
                 /\ LockAccount(r, Ids(param[r])[2], "checkFunds")

FundsSuffice(a, b, amount) == OwnerType(a) = "user" => b >= amount

\* The currencies are equal: accounts_currency_check allows only USD.
CheckFunds(r) ==
    /\ pc[r] = "checkFunds"
    /\ LET p == param[r] IN
       IF FundsSuffice(p.from, seen[r], p.amount)
       THEN Goto(r, "insertTransaction") /\ UNCHANGED result
       ELSE Unwind(r, "insufficientFunds")
    /\ UNCHANGED <<tables, param, session>>

\* Another open transaction has inserted the key: the INSERT waits for it.
KeyInFlight(r, k) ==
    \E q \in Requests \ {r} : \E t \in newTransactions[q] : k # NoKey /\ t.key = k

\* Mutant: the column is not UNIQUE.
KeyTakenNever(k) == FALSE

\* idempotency_key is UNIQUE; NULLs are distinct.
KeyTaken(k) == k # NoKey /\ Committed(k) # {}

\* Mutant: the key is not stored.
KeyArgNull(p) == NoKey

KeyArg(p) == p.key

\* Mutant: the INSERT fails at once on a key that is only in flight.
InsertTransactionNoWait(r) ==
    /\ pc[r] = "insertTransaction"
    /\ \/ /\ KeyInFlight(r, param[r].key) \/ KeyTaken(param[r].key)
          /\ Goto(r, "rollback")
          /\ UNCHANGED newTransactions
       \/ /\ ~KeyInFlight(r, param[r].key) /\ ~KeyTaken(param[r].key)
          /\ newTransactions' = [newTransactions EXCEPT
                 ![r] = @ \cup {[id |-> r, key |-> KeyArg(param[r])]}]
          /\ Goto(r, "insertDebit")
    /\ UNCHANGED <<tables, param, result, conn, locks, newEntries,
                   seen, newFrom, newTo>>

InsertTransaction(r) ==
    /\ pc[r] = "insertTransaction"
    /\ ~KeyInFlight(r, param[r].key)
    /\ \/ /\ KeyTaken(param[r].key)         \* 23505, ErrDuplicateKey
          /\ Goto(r, "rollback")
          /\ UNCHANGED newTransactions
       \/ /\ ~KeyTaken(param[r].key)
          /\ newTransactions' = [newTransactions EXCEPT
                 ![r] = @ \cup {[id |-> r, key |-> KeyArg(param[r])]}]
          /\ Goto(r, "insertDebit")
    /\ UNCHANGED <<tables, param, result, conn, locks, newEntries,
                   seen, newFrom, newTo>>

\* Mutant: no Rollback before the lookup, only the deferred one.
RollbackDuplicateLate(r) ==
    /\ pc[r] = "rollback"
    /\ Goto(r, "refind")
    /\ UNCHANGED <<tables, param, result, session>>

\* _ = tx.Rollback(ctx), before the lookup.
RollbackDuplicate(r) ==
    /\ pc[r] = "rollback"
    /\ EndTx(r)
    /\ Goto(r, "refind")
    /\ UNCHANGED <<tables, param, result>>

\* return r.findByKey(ctx, p.IdempotencyKey)
Refind(r) ==
    /\ pc[r] = "refind"
    /\ ConnFree
    /\ LET found == Committed(param[r].key) IN
       \/ \E t \in found : Return(r, Lookup(t))
       \/ found = {} /\ Return(r, Failure("keyNotFound"))
    /\ UNCHANGED <<tables, param, session>>
-----------------------------------------------------------------------------
Debit(p)  == -p.amount
Credit(p) == p.amount

Entry(t, a, n) == [tx |-> t, account |-> a, amount |-> n]

InsertEntry(r, a, amount, next) ==
    /\ newEntries' = [newEntries EXCEPT ![r] = @ \cup {Entry(r, a, amount)}]
    /\ Goto(r, next)
    /\ UNCHANGED <<tables, param, result, conn, locks, newTransactions,
                   seen, newFrom, newTo>>

InsertDebit(r)  == pc[r] = "insertDebit"
                   /\ InsertEntry(r, param[r].from, Debit(param[r]), "insertCredit")
InsertCredit(r) == pc[r] = "insertCredit"
                   /\ InsertEntry(r, param[r].to, Credit(param[r]), "updateFrom")

\* updateBalance: SET balance = balance + delta RETURNING balance, refused when
\* the constraint or the column's width is violated.
UpdateFrom(r) ==
    LET a == param[r].from
        b == balance[a] + Debit(param[r])
    IN  /\ pc[r] = "updateFrom"
        /\ \/ /\ BalanceAllowed(a, b)
              /\ newFrom' = [newFrom EXCEPT ![r] = b]
              /\ Goto(r, "updateTo")
              /\ UNCHANGED result
           \/ /\ ~BalanceAllowed(a, b)
              /\ Unwind(r, "dbError")
              /\ UNCHANGED newFrom
        /\ UNCHANGED <<tables, param, conn, locks, newTransactions, newEntries,
                       seen, newTo>>

UpdateTo(r) ==
    LET a == param[r].to
        b == balance[a] + Credit(param[r])
    IN  /\ pc[r] = "updateTo"
        /\ \/ /\ BalanceAllowed(a, b)
              /\ newTo' = [newTo EXCEPT ![r] = b]
              /\ Goto(r, "commit")
              /\ UNCHANGED result
           \/ /\ ~BalanceAllowed(a, b)
              /\ Unwind(r, "dbError")
              /\ UNCHANGED newTo
        /\ UNCHANGED <<tables, param, conn, locks, newTransactions, newEntries,
                       seen, newFrom>>

\* Mutant: the balance of the credited account is left out.
PublishDebitOnly(r) ==
    /\ balance' = [balance EXCEPT ![param[r].from] = newFrom[r]]
    /\ transactions' = transactions \cup newTransactions[r]
    /\ entries' = entries \cup newEntries[r]

\* COMMIT publishes what the transaction wrote.
Publish(r) ==
    /\ balance' = [balance EXCEPT ![param[r].from] = newFrom[r],
                                  ![param[r].to]   = newTo[r]]
    /\ transactions' = transactions \cup newTransactions[r]
    /\ entries' = entries \cup newEntries[r]

\* The answer to COMMIT can be lost: the caller sees an error, the transfer is
\* made all the same.
Commit(r) ==
    /\ pc[r] = "commit"
    /\ Publish(r)
    /\ EndTx(r)
    /\ \/ Return(r, Found(r, newFrom[r], newTo[r]))
       \/ Return(r, Failure("dbError"))
    /\ UNCHANGED <<accounts, param>>
-----------------------------------------------------------------------------
\* The deferred Rollback of a call that returned an error.
DeferredRollback(r) ==
    /\ pc[r] = "unwind"
    /\ EndTx(r)
    /\ Goto(r, "done")
    /\ UNCHANGED <<tables, param, result>>

\* A statement fails, or ctx is cancelled while it runs or waits: for a
\* connection, for a row, for a key.
Fail(r) ==
    /\ \/ /\ pc[r] \in {"findByKey", "begin", "refind"}
          /\ Return(r, Failure("dbError"))
       \/ /\ pc[r] \in InTx \ {"checkFunds", "rollback", "unwind"}
          /\ Unwind(r, "dbError")
    /\ UNCHANGED <<tables, param, session>>

\* Every call has returned.
Terminated ==
    /\ \A r \in Requests : pc[r] = "done"
    /\ UNCHANGED vars

Step(r) ==
    \/ Enter(r) \/ FindByKey(r) \/ Begin(r) \/ LockFirst(r) \/ LockSecond(r)
    \/ CheckFunds(r) \/ InsertTransaction(r) \/ RollbackDuplicate(r) \/ Refind(r)
    \/ InsertDebit(r) \/ InsertCredit(r) \/ UpdateFrom(r) \/ UpdateTo(r)
    \/ Commit(r) \/ DeferredRollback(r)

Next ==
    \/ \E u \in Users : EnsureUserAccount(u)
    \/ \E r \in Requests : Step(r) \/ Fail(r)
    \/ Terminated

Spec == Init /\ [][Next]_vars

\* A call that has begun is scheduled until it returns.  Rows, keys and
\* connections are released by calls that return, so weak fairness is enough.
Fairness == \A r \in Requests : WF_vars(Step(r))

FairSpec == Spec /\ Fairness
-----------------------------------------------------------------------------
(***************************************************************************)
(* Properties.                                                             *)
(***************************************************************************)

\* Every variable has its type; in particular no balance leaves the width of
\* its column (schema: balance BIGINT).
TypeOK ==
    /\ accounts \subseteq Account
    /\ balance \in [Account -> Bigint]
    /\ transactions \subseteq Transaction
    /\ entries \subseteq LedgerEntry
    /\ pc \in [Requests -> Labels]
    /\ param \in [Requests -> Params]
    /\ result \in [Requests -> Result]
    /\ seen \in [Requests -> Bigint]
    /\ newFrom \in [Requests -> Bigint]
    /\ newTo \in [Requests -> Bigint]
    /\ conn \subseteq Requests
    /\ locks \in [Requests -> SUBSET Account]
    /\ newTransactions \in [Requests -> SUBSET Transaction]
    /\ newEntries \in [Requests -> SUBSET LedgerEntry]

\* No user's balance is ever negative, however withdrawals interleave
\* (concurrency_test.go, TestConcurrentWithdrawalsCannotOverdraw).
NoOverdraft == \A u \in Users : balance[u] >= 0

Checked == {"insertTransaction", "insertDebit", "insertCredit", "updateFrom",
            "updateTo", "commit"}

\* The funds checked at repo.go:118 are still there at every later statement:
\* nobody spends them between the check and COMMIT, so the CHECK constraint of
\* the table never has to refuse a withdrawal.
FundsReserved ==
    \A r \in Requests :
        pc[r] \in Checked /\ param[r].from \in Users
            => balance[param[r].from] >= param[r].amount

\* At most one transaction is ever posted for an idempotency key, also when
\* several calls with the key run at once.
KeyPostedOnce ==
    \A t, v \in transactions : t.key = v.key /\ t.key # NoKey => t = v

\* A call that returns a transaction id returns that of a transaction posted
\* under its own key (and its own transaction when it has no key), whether it
\* took the fast path, made the transfer, or fell back to the lookup.  With
\* KeyPostedOnce, all calls with one key return the same id.
AnswersNamePosting ==
    \A r \in Requests : result[r].err = "none" =>
        \E t \in transactions :
            /\ t.id = result[r].tx
            /\ t.key = param[r].key
            /\ t.key = NoKey => t.id = r

\* The lookup after a duplicate key (repo.go:128) finds the transaction that
\* caused it: Transfer never returns ErrIdempotencyKeyNotFound.
FallbackFinds == \A r \in Requests : result[r].err # "keyNotFound"

\* A call waits for a connection, or returns, only when it holds no connection,
\* no row lock and no uncommitted row: the pool cannot be exhausted by calls
\* that wait for the pool.
HoldsNothingOutside ==
    \A r \in Requests : pc[r] \notin InTx =>
        /\ r \notin conn
        /\ locks[r] = {}
        /\ newTransactions[r] = {}
        /\ newEntries[r] = {}

\* Who must move before r's next statement can run.
WaitsFor(r) ==
    CASE pc[r] \in {"findByKey", "begin", "refind"} -> IF ConnFree THEN {} ELSE conn
      [] pc[r] = "lockFirst" -> {q \in Requests : Ids(param[r])[1] \in locks[q]}
      [] pc[r] = "lockSecond" -> {q \in Requests : Ids(param[r])[2] \in locks[q]}
      [] pc[r] = "insertTransaction" ->
            {q \in Requests \ {r} : \E t \in newTransactions[q] :
                t.key = param[r].key /\ t.key # NoKey}
      [] OTHER -> {}

\* No set of calls wait for each other: over connections, rows and keys
\* together, somebody can always move.
NoCircularWait ==
    \A S \in (SUBSET Requests) \ {{}} :
        \E r \in S : WaitsFor(r) \cap S = {}

\* The ledger the tables stand for: a posting is a transaction with its debit
\* and its credit.
PostingOf(t, debit, credit) ==
    [id |-> t.id, key |-> t.key, from |-> debit.account, to |-> credit.account,
     amount |-> credit.amount]

Postings ==
    {PostingOf(x[1], x[2], x[3]) : x \in
        {y \in transactions \X entries \X entries :
            /\ y[2].tx = y[1].id /\ y[2].amount < 0
            /\ y[3].tx = y[1].id /\ y[3].amount = -y[2].amount}}

Book == INSTANCE Ledger WITH opened <- accounts, posted <- Postings

\* Transfer implements the ledger: whatever interleaving, failure or lost
\* answer, the committed tables change by whole postings only.
ImplementsLedger == Book!Spec

\* Every call returns.
AllAnswered == \A r \in Requests : <>(pc[r] = "done")

\* repo.go:85: "if we've seen this key, return the original result".  All
\* calls that return one transaction return the same result.
ReplayReturnsOriginal ==
    \A r, q \in Requests :
        /\ result[r].err = "none"
        /\ result[q].err = "none"
        /\ result[r].tx = result[q].tx
        => result[r] = result[q]

\* repo.go:122 and concurrency_test.go:172: calls that race on one key all get
\* the one transaction.  A call is refused for lack of funds only if the
\* transfer of its key has not been made.
RefusedOnlyIfNew ==
    [][\A r \in Requests :
        /\ result'[r].err = "insufficientFunds"
        /\ result[r].err # "insufficientFunds"
        /\ param[r].key # NoKey
        => Committed(param[r].key) = {}]_vars
=============================================================================
