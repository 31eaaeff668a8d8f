---------------------------- MODULE TransferInv ----------------------------
(***************************************************************************)
(* The inductive invariant of Transfer: what makes the properties of       *)
(* Transfer hold, as facts about one state that every step preserves.      *)
(***************************************************************************)
EXTENDS Transfer

\* Labels of a call that has passed the checks of Transfer and not returned.
Running == Labels \ {"idle", "done"}

\* From the INSERT of the transaction to COMMIT.
Writing == {"insertDebit", "insertCredit", "updateFrom", "updateTo", "commit"}

Row(r)         == [id |-> r, key |-> param[r].key]
DebitEntry(r)  == Entry(r, param[r].from, -param[r].amount)
CreditEntry(r) == Entry(r, param[r].to, param[r].amount)

ValidParam(r) == param[r].amount > 0 /\ param[r].from # param[r].to

RunningIsValid ==
    \A r \in Requests :
        /\ pc[r] \in Running => ValidParam(r)
        /\ pc[r] = "findByKey" => param[r].key # NoKey

\* Which rows a call has locked, at each statement.
LocksHeld ==
    \A r \in Requests :
        /\ pc[r] = "lockFirst" => locks[r] = {}
        /\ pc[r] = "lockSecond" => locks[r] = {Ids(param[r])[1]}
        /\ pc[r] \in Checked \cup {"checkFunds"}
              => locks[r] = {param[r].from, param[r].to}
        /\ locks[r] \subseteq accounts

LocksExclusive ==
    \A r, q \in Requests : r # q => locks[r] \cap locks[q] = {}

\* A locked row still holds the balance that was read.
SeenIsCurrent ==
    \A r \in Requests :
        param[r].from \in locks[r] => seen[r] = balance[param[r].from]

\* The rows a call has inserted, at each statement.
StagedRows ==
    \A r \in Requests :
        /\ newTransactions[r] \subseteq {Row(r)}
        /\ pc[r] \in Writing => newTransactions[r] = {Row(r)}
        /\ pc[r] \notin Writing \cup {"unwind"} => newTransactions[r] = {}
        /\ pc[r] = "insertDebit" => newEntries[r] = {}
        /\ pc[r] = "insertCredit" => newEntries[r] = {DebitEntry(r)}
        /\ pc[r] \in {"updateFrom", "updateTo", "commit"}
              => newEntries[r] = {DebitEntry(r), CreditEntry(r)}
        /\ pc[r] \notin Writing \cup {"unwind"} => newEntries[r] = {}

\* The updated balances are those of the committed rows, plus the delta.
StagedBalances ==
    \A r \in Requests :
        /\ pc[r] \in {"updateTo", "commit"} =>
              /\ newFrom[r] = balance[param[r].from] - param[r].amount
              /\ BalanceAllowed(param[r].from, newFrom[r])
        /\ pc[r] = "commit" =>
              /\ newTo[r] = balance[param[r].to] + param[r].amount
              /\ BalanceAllowed(param[r].to, newTo[r])

\* A key that is in flight is in no committed row, and in flight once.
StagedKeysFresh ==
    \A r \in Requests : newTransactions[r] # {} /\ param[r].key # NoKey =>
        /\ \A t \in transactions : t.key # param[r].key
        /\ \A q \in Requests \ {r} :
              newTransactions[q] # {} => param[q].key # param[r].key

\* The call that gave up on a duplicate key has a committed row to find.
DuplicateIsCommitted ==
    \A r \in Requests : pc[r] \in {"rollback", "refind"} =>
        /\ param[r].key # NoKey
        /\ \E t \in transactions : t.key = param[r].key

\* A committed transaction is the row of a call that has ended.
CommittedRows ==
    \A t \in transactions :
        /\ t = Row(t.id)
        /\ pc[t.id] = "done"
        /\ ValidParam(t.id)
        /\ DebitEntry(t.id) \in entries
        /\ CreditEntry(t.id) \in entries

\* Every entry is the debit or the credit of a committed transaction.
CommittedEntries ==
    \A e \in entries :
        /\ \E t \in transactions : t.id = e.tx
        /\ e = DebitEntry(e.tx) \/ e = CreditEntry(e.tx)

\* The inductive invariant: everything above, with the properties it implies
\* that a step needs to know (repo.go:77-158).
IInv ==
    /\ TypeOK
    /\ HoldsNothingOutside
    /\ RunningIsValid
    /\ LocksHeld
    /\ LocksExclusive
    /\ SeenIsCurrent
    /\ FundsReserved
    /\ StagedRows
    /\ StagedBalances
    /\ StagedKeysFresh
    /\ DuplicateIsCommitted
    /\ CommittedRows
    /\ CommittedEntries
    /\ NoOverdraft
    /\ KeyPostedOnce
    /\ AnswersNamePosting
    /\ FallbackFinds
=============================================================================
