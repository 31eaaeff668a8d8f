--------------------------- MODULE TransferProofs ---------------------------
(***************************************************************************)
(* Theorems about Transfer, for every set of users, system accounts, calls *)
(* and keys, every size of the pool, and every width of a balance.         *)
(*                                                                         *)
(* IInv is shown inductive conjunct by conjunct: the lemma <Conjunct>Step  *)
(* says that no statement of a call disturbs that conjunct.  The theorems  *)
(* at the end follow from IInv.                                            *)
(***************************************************************************)
EXTENDS TransferInv, TLAPS, WellFoundedInduction

\* The initial state satisfies the invariant.
LEMMA InitInv == Init => IInv
<1> SUFFICES ASSUME Init PROVE IInv
  OBVIOUS
<1> USE DEF Init, SeededAccounts
<1>1. TypeOK
  BY OwnersAssumption, BigintAssumption
  DEF TypeOK, Account, Bigint, Labels, Result, Errors, Failure
<1>2. /\ HoldsNothingOutside /\ RunningIsValid /\ LocksHeld /\ LocksExclusive
      /\ SeenIsCurrent /\ FundsReserved
  BY DEF HoldsNothingOutside, RunningIsValid, LocksHeld, LocksExclusive,
         SeenIsCurrent, FundsReserved, InTx, Running, Checked
<1>3. /\ StagedRows /\ StagedBalances /\ StagedKeysFresh
      /\ DuplicateIsCommitted /\ CommittedRows /\ CommittedEntries
  BY DEF StagedRows, StagedBalances, StagedKeysFresh, DuplicateIsCommitted,
         CommittedRows, CommittedEntries, Writing
<1>4. /\ NoOverdraft /\ KeyPostedOnce /\ AnswersNamePosting /\ FallbackFinds
  BY DEF NoOverdraft, KeyPostedOnce, AnswersNamePosting, FallbackFinds,
         Failure, Account
<1> QED
  BY <1>1, <1>2, <1>3, <1>4 DEF IInv

-----------------------------------------------------------------------------
(***************************************************************************)
(* What a step of call r can change at all.                                *)
(***************************************************************************)

\* The argument of a call never changes.
LEMMA ParamFixed ==
  ASSUME NEW r \in Requests, Step(r) \/ Fail(r)
  PROVE  UNCHANGED param
  BY DEF Step, Fail, Enter, FindByKey, Begin, LockFirst, LockSecond, LockAccount,
         CheckFunds, InsertTransaction, RollbackDuplicate, Refind, InsertDebit,
         InsertCredit, InsertEntry, UpdateFrom, UpdateTo, Commit,
         DeferredRollback

\* Only COMMIT writes to the committed tables.
LEMMA TablesFixed ==
  ASSUME NEW r \in Requests, Step(r) \/ Fail(r), ~Commit(r)
  PROVE  UNCHANGED tables
  BY DEF Step, Fail, Enter, FindByKey, Begin, LockFirst, LockSecond, LockAccount,
         CheckFunds, InsertTransaction, RollbackDuplicate, Refind, InsertDebit,
         InsertCredit, InsertEntry, UpdateFrom, UpdateTo, DeferredRollback

\* The statements that touch nothing of the transaction but its place in it.
LEMMA SessionFixed ==
  ASSUME NEW r \in Requests,
         Enter(r) \/ FindByKey(r) \/ CheckFunds(r) \/ Refind(r) \/ Fail(r)
  PROVE  UNCHANGED session
  BY DEF Enter, FindByKey, CheckFunds, Refind, Fail

\* A step is r's own: no other call moves, and r had not returned.
LEMMA PcStep ==
  ASSUME TypeOK, NEW r \in Requests, Step(r) \/ Fail(r)
  PROVE  /\ pc[r] # "done"
         /\ \A q \in Requests \ {r} : pc'[q] = pc[q]
         /\ DOMAIN pc' = Requests
<1>1. pc[r] # "done"
  BY DEF Step, Fail, Enter, FindByKey, Begin, LockFirst, LockSecond, CheckFunds,
         InsertTransaction, RollbackDuplicate, Refind, InsertDebit,
         InsertCredit, UpdateFrom, UpdateTo, Commit, DeferredRollback, InTx
<1>2. \E l \in Labels : Goto(r, l)
  BY DEF Step, Fail, Enter, FindByKey, Begin, LockFirst, LockSecond, LockAccount,
         CheckFunds, InsertTransaction, RollbackDuplicate, Refind, InsertDebit,
         InsertCredit, InsertEntry, UpdateFrom, UpdateTo, Commit,
         DeferredRollback, Return, Unwind, Labels
<1> QED
  BY <1>1, <1>2 DEF Goto, TypeOK

-----------------------------------------------------------------------------
(***************************************************************************)
(* Locks and connections.                                                  *)
(***************************************************************************)
LEMMA HoldsNothingOutsideStep ==
  ASSUME IInv, NEW r \in Requests, Step(r) \/ Fail(r)
  PROVE  HoldsNothingOutside'
<1> USE DEF IInv, HoldsNothingOutside, TypeOK, Goto, Return, Unwind, InTx
<1>1. CASE Enter(r) \/ FindByKey(r) \/ CheckFunds(r) \/ Refind(r) \/ Fail(r)
  BY <1>1, SessionFixed DEF session, Enter, FindByKey, CheckFunds, Refind, Fail
<1>2. CASE Begin(r) \/ LockFirst(r) \/ LockSecond(r)
  BY <1>2 DEF Begin, LockFirst, LockSecond, LockAccount, session
<1>3. CASE InsertTransaction(r) \/ InsertDebit(r) \/ InsertCredit(r)
  BY <1>3 DEF InsertTransaction, InsertDebit, InsertCredit, InsertEntry
<1>4. CASE UpdateFrom(r) \/ UpdateTo(r)
  BY <1>4 DEF UpdateFrom, UpdateTo
<1>5. CASE RollbackDuplicate(r) \/ Commit(r) \/ DeferredRollback(r)
  BY <1>5 DEF RollbackDuplicate, Commit, DeferredRollback, EndTx
<1> QED
  BY <1>1, <1>2, <1>3, <1>4, <1>5 DEF Step

LEMMA RunningIsValidStep ==
  ASSUME IInv, NEW r \in Requests, Step(r) \/ Fail(r)
  PROVE  RunningIsValid'
<1> USE DEF IInv, RunningIsValid, ValidParam
<1>1. CASE Enter(r)
  BY <1>1 DEF Enter, Goto, Return, TypeOK, Running
<1>2. ASSUME ~Enter(r) PROVE pc[r] \in Running
  BY <1>2, Zenon DEF Step, Fail, FindByKey, Begin, LockFirst, LockSecond,
         CheckFunds, InsertTransaction, RollbackDuplicate, Refind, InsertDebit,
         InsertCredit, UpdateFrom, UpdateTo, Commit, DeferredRollback, InTx,
         Running, Labels
<1>3. CASE ~Enter(r)
  <2>1. pc'[r] # "findByKey"
    BY <1>3 DEF Step, Fail, FindByKey, Begin, LockFirst, LockSecond, LockAccount,
         CheckFunds, InsertTransaction, RollbackDuplicate, Refind, InsertDebit,
         InsertCredit, InsertEntry, UpdateFrom, UpdateTo, Commit,
         DeferredRollback, Goto, Return, Unwind, IInv, TypeOK
  <2> QED
    BY <1>2, <1>3, <2>1, PcStep, ParamFixed
<1> QED
  BY <1>1, <1>3

LEMMA LocksHeldStep ==
  ASSUME IInv, NEW r \in Requests, Step(r) \/ Fail(r)
  PROVE  LocksHeld'
<1> USE DEF IInv, LocksHeld, TypeOK, Goto, Return, Unwind, Checked, tables
<1>1. CASE Enter(r) \/ FindByKey(r) \/ CheckFunds(r) \/ Refind(r) \/ Fail(r)
  BY <1>1, SessionFixed DEF session, Enter, FindByKey, CheckFunds, Refind, Fail
<1>2. CASE Begin(r)
  BY <1>2 DEF Begin, HoldsNothingOutside, InTx
<1>3. CASE LockFirst(r)
  BY <1>3 DEF LockFirst, LockAccount, session, Ids
<1>4. CASE LockSecond(r)
  BY <1>4 DEF LockSecond, LockAccount, session, Ids
<1>5. CASE InsertTransaction(r) \/ InsertDebit(r) \/ InsertCredit(r)
           \/ UpdateFrom(r) \/ UpdateTo(r)
  BY <1>5 DEF InsertTransaction, InsertDebit, InsertCredit, InsertEntry,
              UpdateFrom, UpdateTo
<1>6. CASE RollbackDuplicate(r) \/ Commit(r) \/ DeferredRollback(r)
  BY <1>6 DEF RollbackDuplicate, Commit, DeferredRollback, EndTx
<1> QED
  BY <1>1, <1>2, <1>3, <1>4, <1>5, <1>6 DEF Step

LEMMA LocksExclusiveStep ==
  ASSUME IInv, NEW r \in Requests, Step(r) \/ Fail(r)
  PROVE  LocksExclusive'
<1> USE DEF IInv, LocksExclusive
<1>1. CASE Enter(r) \/ FindByKey(r) \/ CheckFunds(r) \/ Refind(r) \/ Fail(r)
  BY <1>1, SessionFixed DEF session
<1>2. CASE LockFirst(r) \/ LockSecond(r)
  BY <1>2 DEF LockFirst, LockSecond, LockAccount, RowFree, session, TypeOK
<1>3. CASE Begin(r) \/ InsertTransaction(r) \/ InsertDebit(r) \/ InsertCredit(r)
           \/ UpdateFrom(r) \/ UpdateTo(r)
  BY <1>3 DEF Begin, InsertTransaction, InsertDebit, InsertCredit, InsertEntry,
              UpdateFrom, UpdateTo
<1>4. CASE RollbackDuplicate(r) \/ Commit(r) \/ DeferredRollback(r)
  BY <1>4 DEF RollbackDuplicate, Commit, DeferredRollback, EndTx, TypeOK
<1> QED
  BY <1>1, <1>2, <1>3, <1>4 DEF Step

\* COMMIT writes only balances of rows the call has locked, so it disturbs no
\* other call that has locked its own.
LEMMA CommitTouchesOwnRows ==
  ASSUME IInv, NEW r \in Requests, Commit(r),
         NEW q \in Requests \ {r}, NEW a \in locks[q]
  PROVE  balance'[a] = balance[a]
<1>1. a \notin {param[r].from, param[r].to}
  BY DEF Commit, IInv, LocksHeld, LocksExclusive, Checked
<1> QED
  BY <1>1 DEF Commit, Publish, IInv, TypeOK

LEMMA SeenIsCurrentStep ==
  ASSUME IInv, NEW r \in Requests, Step(r) \/ Fail(r)
  PROVE  SeenIsCurrent'
<1> USE DEF IInv, SeenIsCurrent, TypeOK
<1>1. CASE Enter(r) \/ FindByKey(r) \/ CheckFunds(r) \/ Refind(r) \/ Fail(r)
  BY <1>1, SessionFixed, ParamFixed, TablesFixed
  DEF session, tables, Enter, FindByKey, CheckFunds, Refind, Fail
<1>2. CASE LockFirst(r) \/ LockSecond(r)
  BY <1>2 DEF LockFirst, LockSecond, LockAccount, session, tables, Ids
<1>3. CASE Begin(r) \/ InsertTransaction(r) \/ InsertDebit(r) \/ InsertCredit(r)
           \/ UpdateFrom(r) \/ UpdateTo(r)
  BY <1>3 DEF Begin, InsertTransaction, InsertDebit, InsertCredit, InsertEntry,
              UpdateFrom, UpdateTo, tables
<1>4. CASE Commit(r)
  BY <1>4, CommitTouchesOwnRows DEF Commit, EndTx
<1>5. CASE RollbackDuplicate(r) \/ DeferredRollback(r)
  BY <1>5 DEF RollbackDuplicate, DeferredRollback, EndTx, tables
<1> QED
  BY <1>1, <1>2, <1>3, <1>4, <1>5 DEF Step

LEMMA FundsReservedStep ==
  ASSUME IInv, NEW r \in Requests, Step(r) \/ Fail(r)
  PROVE  FundsReserved'
<1> USE DEF IInv, FundsReserved, TypeOK, Checked, Goto, Return, Unwind
<1>1. CASE CheckFunds(r)
  BY <1>1 DEF CheckFunds, FundsSuffice, OwnerType, LocksHeld, SeenIsCurrent,
              tables
<1>2. CASE Commit(r)
  <2> SUFFICES ASSUME NEW q \in Requests, pc'[q] \in Checked,
                      param[q].from \in Users
               PROVE  balance'[param[q].from] >= param[q].amount
    BY <1>2 DEF Commit
  <2>1. q # r /\ pc[q] \in Checked
    BY <1>2 DEF Commit
  <2>2. param[q].from \in locks[q]
    BY <2>1 DEF LocksHeld
  <2> QED
    BY <1>2, <2>1, <2>2, CommitTouchesOwnRows
<1>3. CASE ~CheckFunds(r) /\ ~Commit(r)
  <2>1. pc'[r] \in Checked => pc[r] \in Checked
    BY <1>3 DEF Step, Fail, Enter, FindByKey, Begin, LockFirst, LockSecond,
         LockAccount, InsertTransaction, RollbackDuplicate, Refind, InsertDebit,
         InsertCredit, InsertEntry, UpdateFrom, UpdateTo, DeferredRollback
  <2> QED
    BY <1>3, <2>1, PcStep, ParamFixed, TablesFixed DEF tables
<1> QED
  BY <1>1, <1>2, <1>3

-----------------------------------------------------------------------------
(***************************************************************************)
(* Rows inserted and not committed.                                        *)
(***************************************************************************)
LEMMA StagedRowsStep ==
  ASSUME IInv, NEW r \in Requests, Step(r) \/ Fail(r)
  PROVE  StagedRows'
<1> USE DEF IInv, StagedRows, TypeOK, Goto, Return, Unwind, Writing, Row,
            DebitEntry, CreditEntry
<1>1. CASE Enter(r) \/ FindByKey(r) \/ CheckFunds(r) \/ Refind(r) \/ Fail(r)
  BY <1>1, SessionFixed, ParamFixed
  DEF session, Enter, FindByKey, CheckFunds, Refind, Fail, InTx
<1>2. CASE Begin(r) \/ LockFirst(r) \/ LockSecond(r)
  BY <1>2, ParamFixed DEF Begin, LockFirst, LockSecond, LockAccount, session
<1>3. CASE InsertTransaction(r)
  BY <1>3 DEF InsertTransaction, KeyArg
<1>4. CASE InsertDebit(r) \/ InsertCredit(r)
  BY <1>4 DEF InsertDebit, InsertCredit, InsertEntry, Debit, Credit
<1>5. CASE UpdateFrom(r) \/ UpdateTo(r)
  BY <1>5 DEF UpdateFrom, UpdateTo
<1>6. CASE RollbackDuplicate(r) \/ Commit(r) \/ DeferredRollback(r)
  BY <1>6 DEF RollbackDuplicate, Commit, DeferredRollback, EndTx
<1> QED
  BY <1>1, <1>2, <1>3, <1>4, <1>5, <1>6 DEF Step

LEMMA StagedBalancesStep ==
  ASSUME IInv, NEW r \in Requests, Step(r) \/ Fail(r)
  PROVE  StagedBalances'
<1> USE DEF IInv, StagedBalances, TypeOK, Goto, Return, Unwind
<1>1. CASE Enter(r) \/ FindByKey(r) \/ CheckFunds(r) \/ Refind(r) \/ Fail(r)
  BY <1>1, SessionFixed, ParamFixed, TablesFixed
  DEF session, tables, Enter, FindByKey, CheckFunds, Refind, Fail
<1>2. CASE Begin(r) \/ LockFirst(r) \/ LockSecond(r) \/ InsertTransaction(r)
           \/ InsertDebit(r) \/ InsertCredit(r)
  BY <1>2 DEF Begin, LockFirst, LockSecond, LockAccount, session, tables,
              InsertTransaction, InsertDebit, InsertCredit, InsertEntry
<1>3. CASE UpdateFrom(r)
  <2>1. /\ pc'[r] # "commit"
        /\ \A q \in Requests \ {r} : pc'[q] = pc[q] /\ newFrom'[q] = newFrom[q]
    BY <1>3 DEF UpdateFrom
  <2>2. pc'[r] = "updateTo" =>
           /\ newFrom'[r] = balance[param[r].from] - param[r].amount
           /\ BalanceAllowed(param[r].from, newFrom'[r])
    <3>1. balance[param[r].from] + Debit(param[r])
             = balance[param[r].from] - param[r].amount
      BY ParamsAssumption DEF Debit, TransferParams, Bigint
    <3> QED
      BY <1>3, <3>1 DEF UpdateFrom
  <2>3. UNCHANGED <<balance, param, newTo>>
    BY <1>3 DEF UpdateFrom, tables
  <2> QED
    BY <2>1, <2>2, <2>3 DEF BalanceAllowed
<1>4. CASE UpdateTo(r)
  BY <1>4 DEF UpdateTo, Credit, tables, BalanceAllowed
<1>5. CASE Commit(r)
  <2> SUFFICES ASSUME NEW q \in Requests \ {r}, pc[q] \in {"updateTo", "commit"}
               PROVE  /\ balance'[param[q].from] = balance[param[q].from]
                      /\ balance'[param[q].to] = balance[param[q].to]
    BY <1>5 DEF Commit, EndTx, BalanceAllowed
  <2> QED
    BY <1>5, CommitTouchesOwnRows DEF LocksHeld, Checked
<1>6. CASE RollbackDuplicate(r) \/ DeferredRollback(r)
  BY <1>6 DEF RollbackDuplicate, DeferredRollback, EndTx, tables, BalanceAllowed
<1> QED
  BY <1>1, <1>2, <1>3, <1>4, <1>5, <1>6 DEF Step

LEMMA StagedKeysFreshStep ==
  ASSUME IInv, NEW r \in Requests, Step(r) \/ Fail(r)
  PROVE  StagedKeysFresh'
<1> USE DEF IInv, StagedKeysFresh, TypeOK
<1>1. CASE Enter(r) \/ FindByKey(r) \/ CheckFunds(r) \/ Refind(r) \/ Fail(r)
  BY <1>1, SessionFixed, ParamFixed, TablesFixed
  DEF session, tables, Enter, FindByKey, CheckFunds, Refind, Fail
<1>2. CASE Begin(r) \/ LockFirst(r) \/ LockSecond(r) \/ InsertDebit(r)
           \/ InsertCredit(r) \/ UpdateFrom(r) \/ UpdateTo(r)
  BY <1>2 DEF Begin, LockFirst, LockSecond, LockAccount, session, tables,
              InsertDebit, InsertCredit, InsertEntry, UpdateFrom, UpdateTo
<1>3. CASE InsertTransaction(r)
  <2>1. \A q \in Requests \ {r} : newTransactions[q] # {} =>
           newTransactions[q] = {Row(q)}
    BY DEF StagedRows
  <2>2. newTransactions'[r] # {} /\ param[r].key # NoKey =>
           /\ \A t \in transactions : t.key # param[r].key
           /\ \A q \in Requests \ {r} :
                 newTransactions[q] # {} => param[q].key # param[r].key
    BY <1>3, <2>1 DEF InsertTransaction, KeyTaken, KeyInFlight, Committed, Row,
                      StagedRows, Writing
  <2>3. /\ \A q \in Requests \ {r} : newTransactions'[q] = newTransactions[q]
        /\ UNCHANGED <<transactions, param>>
    BY <1>3 DEF InsertTransaction, tables
  <2> QED
    BY <2>2, <2>3
<1>4. CASE Commit(r)
  BY <1>4 DEF Commit, Publish, EndTx, StagedRows, Row, Writing
<1>5. CASE RollbackDuplicate(r) \/ DeferredRollback(r)
  BY <1>5 DEF RollbackDuplicate, DeferredRollback, EndTx, tables
<1> QED
  BY <1>1, <1>2, <1>3, <1>4, <1>5 DEF Step

LEMMA DuplicateIsCommittedStep ==
  ASSUME IInv, NEW r \in Requests, Step(r) \/ Fail(r)
  PROVE  DuplicateIsCommitted'
<1> USE DEF IInv, DuplicateIsCommitted, TypeOK, Goto
<1>1. CASE InsertTransaction(r)
  BY <1>1 DEF InsertTransaction, KeyTaken, Committed, tables
<1>2. CASE RollbackDuplicate(r)
  BY <1>2 DEF RollbackDuplicate, tables
<1>3. CASE Commit(r)
  BY <1>3 DEF Commit, Publish, Return
<1>4. CASE ~InsertTransaction(r) /\ ~RollbackDuplicate(r) /\ ~Commit(r)
  <2>1. pc'[r] \notin {"rollback", "refind"}
    BY <1>4 DEF Step, Fail, Enter, FindByKey, Begin, LockFirst, LockSecond,
         LockAccount, CheckFunds, Refind, InsertDebit, InsertCredit,
         InsertEntry, UpdateFrom, UpdateTo, DeferredRollback, Return, Unwind
  <2> QED
    BY <1>4, <2>1, PcStep, ParamFixed, TablesFixed DEF tables
<1> QED
  BY <1>1, <1>2, <1>3, <1>4

-----------------------------------------------------------------------------
(***************************************************************************)
(* The committed tables.                                                   *)
(***************************************************************************)

\* What COMMIT adds: the row of the call, its debit and its credit.
LEMMA CommitAdds ==
  ASSUME IInv, NEW r \in Requests, Commit(r)
  PROVE  /\ transactions' = transactions \cup {Row(r)}
         /\ entries' = entries \cup {DebitEntry(r), CreditEntry(r)}
         /\ pc'[r] = "done"
         /\ ValidParam(r)
         /\ \A t \in transactions : t.id # r
  BY DEF Commit, Publish, Return, Goto, IInv, TypeOK, StagedRows, Writing,
         RunningIsValid, Running, Labels, CommittedRows

LEMMA CommittedRowsStep ==
  ASSUME IInv, NEW r \in Requests, Step(r) \/ Fail(r)
  PROVE  CommittedRows'
<1>1. \A q \in Requests : pc[q] = "done" => pc'[q] = "done"
  BY PcStep DEF IInv
<1>2. \A q \in Requests : /\ Row(q)' = Row(q)
                          /\ DebitEntry(q)' = DebitEntry(q)
                          /\ CreditEntry(q)' = CreditEntry(q)
                          /\ ValidParam(q)' = ValidParam(q)
  BY ParamFixed DEF Row, DebitEntry, CreditEntry, ValidParam
<1>3. \A t \in transactions : t.id \in Requests
  BY DEF IInv, TypeOK, Transaction
<1>4. CASE Commit(r)
  <2>1. Row(r).id = r
    BY DEF Row
  <2> QED
    BY <1>1, <1>2, <1>3, <1>4, <2>1, CommitAdds DEF IInv, CommittedRows
<1>5. CASE ~Commit(r)
  BY <1>1, <1>2, <1>3, <1>5, TablesFixed DEF tables, IInv, CommittedRows
<1> QED
  BY <1>4, <1>5

LEMMA CommittedEntriesStep ==
  ASSUME IInv, NEW r \in Requests, Step(r) \/ Fail(r)
  PROVE  CommittedEntries'
<1>1. \A q : /\ DebitEntry(q)' = DebitEntry(q)
             /\ CreditEntry(q)' = CreditEntry(q)
  BY ParamFixed DEF DebitEntry, CreditEntry
<1>2. CASE Commit(r)
  <2>1. Row(r).id = r /\ DebitEntry(r).tx = r /\ CreditEntry(r).tx = r
    BY DEF Row, DebitEntry, CreditEntry, Entry
  <2> QED
    BY <1>1, <1>2, <2>1, CommitAdds DEF IInv, CommittedEntries
<1>3. CASE ~Commit(r)
  BY <1>1, <1>3, TablesFixed DEF tables, IInv, CommittedEntries
<1> QED
  BY <1>2, <1>3

LEMMA NoOverdraftStep ==
  ASSUME IInv, NEW r \in Requests, Step(r) \/ Fail(r)
  PROVE  NoOverdraft'
<1> USE DEF IInv, NoOverdraft
<1>1. CASE Commit(r)
  BY <1>1 DEF Commit, Publish, StagedBalances, BalanceAllowed, OwnerType,
              TypeOK, Account
<1>2. CASE ~Commit(r)
  BY <1>2, TablesFixed DEF tables
<1> QED
  BY <1>1, <1>2

LEMMA KeyPostedOnceStep ==
  ASSUME IInv, NEW r \in Requests, Step(r) \/ Fail(r)
  PROVE  KeyPostedOnce'
<1> USE DEF IInv, KeyPostedOnce
<1>1. CASE Commit(r)
  BY <1>1, CommitAdds DEF Commit, StagedRows, StagedKeysFresh, Row, Writing
<1>2. CASE ~Commit(r)
  BY <1>2, TablesFixed DEF tables
<1> QED
  BY <1>1, <1>2

-----------------------------------------------------------------------------
(***************************************************************************)
(* Answers.                                                                *)
(***************************************************************************)

\* A statement that looks nothing up and does not commit decides no result, or
\* an error.
LEMMA ErrorStep ==
  ASSUME NEW r \in Requests, Step(r) \/ Fail(r),
         ~FindByKey(r), ~Refind(r), ~Commit(r)
  PROVE  \/ result' = result
         \/ \E e \in Errors \ {"none", "keyNotFound"} :
               result' = [result EXCEPT ![r] = Failure(e)]
  BY DEF Step, Fail, Enter, Begin, LockFirst, LockSecond, LockAccount, CheckFunds,
         InsertTransaction, RollbackDuplicate, InsertDebit, InsertCredit,
         InsertEntry, UpdateFrom, UpdateTo, DeferredRollback, Return, Unwind,
         Errors

\* A lookup returns a committed row of the key, which is not NULL; the lookup
\* after a duplicate always finds one.
LEMMA LookupStep ==
  ASSUME IInv, NEW r \in Requests, FindByKey(r) \/ Refind(r)
  PROVE  /\ param[r].key # NoKey
         /\ \/ result' = result
            \/ \E t \in transactions :
                  /\ t.key = param[r].key
                  /\ result' = [result EXCEPT ![r] = Lookup(t)]
<1>1. CASE FindByKey(r)
  BY <1>1 DEF FindByKey, Return, Committed, IInv, RunningIsValid
<1>2. CASE Refind(r)
  BY <1>2 DEF Refind, Return, Committed, IInv, DuplicateIsCommitted
<1> QED
  BY <1>1, <1>2

\* COMMIT decides the call's own transaction, or an error.
LEMMA CommitStep ==
  ASSUME NEW r \in Requests, Commit(r)
  PROVE  \/ result' = [result EXCEPT ![r] = Failure("dbError")]
         \/ result' = [result EXCEPT ![r] = Found(r, newFrom[r], newTo[r])]
  BY DEF Commit, Return

LEMMA AnswersNamePostingStep ==
  ASSUME IInv, NEW r \in Requests, Step(r) \/ Fail(r)
  PROVE  AnswersNamePosting'
<1> USE DEF AnswersNamePosting, IInv, TypeOK
<1>1. transactions \subseteq transactions' /\ UNCHANGED param
  BY ParamFixed, TablesFixed DEF tables, Commit, Publish
<1>2. CASE FindByKey(r) \/ Refind(r)
  BY <1>1, <1>2, LookupStep DEF Lookup, Found
<1>3. CASE Commit(r)
  <2>1. /\ Row(r) \in transactions'
        /\ Row(r).id = r
        /\ Row(r).key = param[r].key
    BY <1>3, CommitAdds DEF Row
  <2>2. result'[r].err = "none" => result'[r].tx = r
    BY <1>3, CommitStep DEF Failure, Found
  <2>3. \A q \in Requests \ {r} : result'[q] = result[q]
    BY <1>3, CommitStep
  <2> QED
    BY <1>1, <2>1, <2>2, <2>3
<1>4. CASE ~FindByKey(r) /\ ~Refind(r) /\ ~Commit(r)
  BY <1>1, <1>4, ErrorStep DEF Failure
<1> QED
  BY <1>2, <1>3, <1>4

LEMMA FallbackFindsStep ==
  ASSUME IInv, NEW r \in Requests, Step(r) \/ Fail(r)
  PROVE  FallbackFinds'
<1> USE DEF FallbackFinds, IInv, TypeOK
<1>1. CASE FindByKey(r) \/ Refind(r)
  BY <1>1, LookupStep DEF Lookup, Found
<1>2. CASE Commit(r)
  BY <1>2, CommitStep DEF Failure, Found
<1>3. CASE ~FindByKey(r) /\ ~Refind(r) /\ ~Commit(r)
  BY <1>3, ErrorStep DEF Failure
<1> QED
  BY <1>1, <1>2, <1>3

-----------------------------------------------------------------------------
(***************************************************************************)
(* Types.                                                                  *)
(***************************************************************************)

\* The lookup finds the two entries of a committed transaction, so what it
\* returns is an id and two balances.
LEMMA LookupType ==
  ASSUME IInv, NEW t \in transactions
  PROVE  Lookup(t) \in Result
<1> USE DEF IInv, TypeOK
<1>1. t.id \in Requests
  BY DEF Transaction
<1>2. param[t.id].amount \in Int /\ param[t.id].amount > 0
  BY <1>1, ParamsAssumption DEF TransferParams, Bigint, CommittedRows, ValidParam
<1>3. DebitEntry(t.id) \in entries /\ CreditEntry(t.id) \in entries
  BY DEF CommittedRows
<1>4. \E e \in entries : e.tx = t.id /\ e.amount < 0
  <2>1. DebitEntry(t.id).tx = t.id /\ DebitEntry(t.id).amount < 0
    BY <1>2 DEF DebitEntry, Entry
  <2> QED
    BY <1>3, <2>1
<1>5. \E e \in entries : e.tx = t.id /\ e.amount > 0
  <2>1. CreditEntry(t.id).tx = t.id /\ CreditEntry(t.id).amount > 0
    BY <1>2 DEF CreditEntry, Entry
  <2> QED
    BY <1>3, <2>1
<1>6. \A e \in entries : balance[e.account] \in Int
  BY DEF LedgerEntry, Bigint
<1> QED
  BY <1>1, <1>4, <1>5, <1>6 DEF Lookup, Found, Result, Errors

LEMMA ResultType ==
  ASSUME IInv, NEW r \in Requests, Step(r) \/ Fail(r)
  PROVE  result' \in [Requests -> Result]
<1> USE DEF IInv, TypeOK
<1>1. \A e \in Errors : Failure(e) \in Result
  BY DEF Failure, Result
<1>2. CASE FindByKey(r) \/ Refind(r)
  BY <1>2, LookupStep, LookupType
<1>3. CASE Commit(r)
  <2>1. Found(r, newFrom[r], newTo[r]) \in Result
    BY DEF Found, Result, Errors, Bigint
  <2>2. "dbError" \in Errors
    BY DEF Errors
  <2> QED
    BY <1>1, <1>3, <2>1, <2>2, CommitStep
<1>4. CASE ~FindByKey(r) /\ ~Refind(r) /\ ~Commit(r)
  BY <1>1, <1>4, ErrorStep
<1> QED
  BY <1>2, <1>3, <1>4

LEMMA PcType ==
  ASSUME IInv, NEW r \in Requests, Step(r) \/ Fail(r)
  PROVE  pc' \in [Requests -> Labels]
<1>1. \E l \in Labels : Goto(r, l)
  BY DEF Step, Fail, Enter, FindByKey, Begin, LockFirst, LockSecond, LockAccount,
         CheckFunds, InsertTransaction, RollbackDuplicate, Refind, InsertDebit,
         InsertCredit, InsertEntry, UpdateFrom, UpdateTo, Commit,
         DeferredRollback, Return, Unwind, Labels
<1> QED
  BY <1>1 DEF Goto, IInv, TypeOK

LEMMA SessionType ==
  ASSUME IInv, NEW r \in Requests, Step(r) \/ Fail(r)
  PROVE  /\ seen' \in [Requests -> Bigint]
         /\ newFrom' \in [Requests -> Bigint]
         /\ newTo' \in [Requests -> Bigint]
         /\ conn' \subseteq Requests
         /\ locks' \in [Requests -> SUBSET Account]
         /\ newTransactions' \in [Requests -> SUBSET Transaction]
         /\ newEntries' \in [Requests -> SUBSET LedgerEntry]
<1> USE DEF IInv, TypeOK
<1>1. /\ param[r].from \in Account /\ param[r].to \in Account
      /\ param[r].amount \in Bigint
      /\ param[r].key \in Keys \cup {NoKey}
  BY ParamsAssumption DEF TransferParams
<1>2. CASE Enter(r) \/ FindByKey(r) \/ CheckFunds(r) \/ Refind(r) \/ Fail(r)
  BY <1>2, SessionFixed DEF session
<1>3. CASE Begin(r) \/ LockFirst(r) \/ LockSecond(r)
  BY <1>3 DEF Begin, LockFirst, LockSecond, LockAccount, session
<1>4. CASE InsertTransaction(r)
  BY <1>1, <1>4 DEF InsertTransaction, KeyArg, Transaction
<1>5. CASE InsertDebit(r) \/ InsertCredit(r)
  <2>1. ValidParam(r)
    BY <1>5 DEF InsertDebit, InsertCredit, RunningIsValid, Running, Labels
  <2>2. /\ Debit(param[r]) \in Bigint \ {0}
        /\ Credit(param[r]) \in Bigint \ {0}
    BY <1>1, <2>1, BigintAssumption DEF Debit, Credit, Bigint, ValidParam
  <2>3. /\ Entry(r, param[r].from, Debit(param[r])) \in LedgerEntry
        /\ Entry(r, param[r].to, Credit(param[r])) \in LedgerEntry
    BY <1>1, <2>2 DEF Entry, LedgerEntry
  <2> QED
    BY <1>5, <2>3 DEF InsertDebit, InsertCredit, InsertEntry
<1>6. CASE UpdateFrom(r) \/ UpdateTo(r)
  BY <1>6 DEF UpdateFrom, UpdateTo, BalanceAllowed
<1>7. CASE RollbackDuplicate(r) \/ Commit(r) \/ DeferredRollback(r)
  BY <1>7, BigintAssumption
  DEF RollbackDuplicate, Commit, DeferredRollback, EndTx, Bigint
<1> QED
  BY <1>2, <1>3, <1>4, <1>5, <1>6, <1>7 DEF Step

LEMMA TypeStep ==
  ASSUME IInv, NEW r \in Requests, Step(r) \/ Fail(r)
  PROVE  TypeOK'
<1> USE DEF IInv, TypeOK
<1>1. CASE Commit(r)
  BY <1>1, ParamFixed, ResultType, PcType, SessionType DEF Commit, Publish
<1>2. CASE ~Commit(r)
  BY <1>2, TablesFixed, ParamFixed, ResultType, PcType, SessionType DEF tables
<1> QED
  BY <1>1, <1>2

-----------------------------------------------------------------------------
(***************************************************************************)
(* The invariant, and what follows from it.                                *)
(***************************************************************************)

\* Creating a user's account disturbs nothing: no row of it was locked.
LEMMA EnsureInv ==
  ASSUME IInv, NEW u \in Users, EnsureUserAccount(u)
  PROVE  IInv'
<1> USE DEF EnsureUserAccount, session, IInv
<1>1. TypeOK'
  BY DEF TypeOK, Account
<1>2. LocksHeld'
  BY DEF LocksHeld
<1>3. /\ HoldsNothingOutside' /\ RunningIsValid' /\ LocksExclusive'
      /\ SeenIsCurrent' /\ FundsReserved'
  BY DEF HoldsNothingOutside, RunningIsValid, ValidParam, LocksExclusive,
         SeenIsCurrent, FundsReserved
<1>4. /\ StagedRows' /\ StagedBalances' /\ StagedKeysFresh'
      /\ DuplicateIsCommitted'
  BY DEF StagedRows, Row, DebitEntry, CreditEntry, StagedBalances,
         BalanceAllowed, StagedKeysFresh, DuplicateIsCommitted
<1>5. CommittedRows' /\ CommittedEntries'
  BY DEF CommittedRows, CommittedEntries, Row, DebitEntry, CreditEntry,
         ValidParam
<1>6. NoOverdraft' /\ KeyPostedOnce' /\ AnswersNamePosting' /\ FallbackFinds'
  BY DEF NoOverdraft, KeyPostedOnce, AnswersNamePosting, FallbackFinds
<1> QED
  BY <1>1, <1>2, <1>3, <1>4, <1>5, <1>6

LEMMA StutterInv ==
  ASSUME IInv, UNCHANGED vars
  PROVE  IInv'
<1> USE DEF vars, tables, session, IInv
<1>1. /\ TypeOK' /\ HoldsNothingOutside' /\ RunningIsValid' /\ LocksHeld'
      /\ LocksExclusive' /\ SeenIsCurrent' /\ FundsReserved'
  BY DEF TypeOK, HoldsNothingOutside, RunningIsValid, ValidParam, LocksHeld,
         LocksExclusive, SeenIsCurrent, FundsReserved
<1>2. /\ StagedRows' /\ StagedBalances' /\ StagedKeysFresh'
      /\ DuplicateIsCommitted'
  BY DEF StagedRows, Row, DebitEntry, CreditEntry, StagedBalances,
         BalanceAllowed, StagedKeysFresh, DuplicateIsCommitted
<1>3. CommittedRows' /\ CommittedEntries'
  BY DEF CommittedRows, CommittedEntries, Row, DebitEntry, CreditEntry,
         ValidParam
<1>4. NoOverdraft' /\ KeyPostedOnce' /\ AnswersNamePosting' /\ FallbackFinds'
  BY DEF NoOverdraft, KeyPostedOnce, AnswersNamePosting, FallbackFinds
<1> QED
  BY <1>1, <1>2, <1>3, <1>4

LEMMA StepInv ==
  ASSUME IInv, NEW r \in Requests, Step(r) \/ Fail(r)
  PROVE  IInv'
<1>1. TypeOK' /\ HoldsNothingOutside' /\ RunningIsValid'
  BY TypeStep, HoldsNothingOutsideStep, RunningIsValidStep
<1>2. LocksHeld' /\ LocksExclusive' /\ SeenIsCurrent' /\ FundsReserved'
  BY LocksHeldStep, LocksExclusiveStep, SeenIsCurrentStep, FundsReservedStep
<1>3. /\ StagedRows' /\ StagedBalances' /\ StagedKeysFresh'
      /\ DuplicateIsCommitted'
  BY StagedRowsStep, StagedBalancesStep, StagedKeysFreshStep,
     DuplicateIsCommittedStep
<1>4. CommittedRows' /\ CommittedEntries' /\ NoOverdraft' /\ KeyPostedOnce'
  BY CommittedRowsStep, CommittedEntriesStep, NoOverdraftStep, KeyPostedOnceStep
<1>5. AnswersNamePosting' /\ FallbackFinds'
  BY AnswersNamePostingStep, FallbackFindsStep
<1> QED
  BY <1>1, <1>2, <1>3, <1>4, <1>5 DEF IInv

\* The invariant holds in every reachable state.
THEOREM Invariant == Spec => []IInv
<1>1. IInv /\ [Next]_vars => IInv'
  <2> SUFFICES ASSUME IInv, [Next]_vars PROVE IInv'
    OBVIOUS
  <2>1. ASSUME NEW u \in Users, EnsureUserAccount(u) PROVE IInv'
    BY <2>1, EnsureInv
  <2>2. ASSUME NEW r \in Requests, Step(r) \/ Fail(r) PROVE IInv'
    BY <2>2, StepInv
  <2>3. CASE UNCHANGED vars
    BY <2>3, StutterInv
  <2> QED
    BY <2>1, <2>2, <2>3 DEF Next, Terminated
<1> QED
  BY InitInv, <1>1, PTL DEF Spec

\* Every variable keeps its type; no balance leaves the width of its column,
\* whatever amounts are transferred.
THEOREM TypeCorrect == Spec => []TypeOK
  BY Invariant, PTL DEF IInv

\* No user's balance is ever negative.
THEOREM NeverOverdrawn == Spec => []NoOverdraft
  BY Invariant, PTL DEF IInv

\* Funds that were checked stay until COMMIT.
THEOREM FundsStayReserved == Spec => []FundsReserved
  BY Invariant, PTL DEF IInv

\* At most one transaction per idempotency key.
THEOREM PostedOnce == Spec => []KeyPostedOnce
  BY Invariant, PTL DEF IInv

\* An answer names a transaction posted under the key of the call.
THEOREM AnswersAreTrue == Spec => []AnswersNamePosting
  BY Invariant, PTL DEF IInv

\* Transfer never returns ErrIdempotencyKeyNotFound.
THEOREM FallbackAlwaysFinds == Spec => []FallbackFinds
  BY Invariant, PTL DEF IInv

\* Nothing is held while waiting for a connection or after returning.
THEOREM NothingLeaks == Spec => []HoldsNothingOutside
  BY Invariant, PTL DEF IInv

-----------------------------------------------------------------------------
(***************************************************************************)
(* Transfer implements Ledger.                                             *)
(***************************************************************************)
PostingBy(r) == PostingOf(Row(r), DebitEntry(r), CreditEntry(r))

\* The debit and the credit of a committed transaction are the only entries of
\* their sign it has.
LEMMA EntriesOfTransaction ==
  ASSUME IInv, NEW t \in transactions, NEW e \in entries, e.tx = t.id
  PROVE  /\ e.amount < 0 => e = DebitEntry(t.id)
         /\ e.amount > 0 => e = CreditEntry(t.id)
<1>1. t.id \in Requests /\ ValidParam(t.id)
  BY DEF IInv, TypeOK, Transaction, CommittedRows
<1>2. param[t.id].amount \in Int /\ param[t.id].amount > 0
  BY <1>1, ParamsAssumption DEF IInv, TypeOK, TransferParams, Bigint, ValidParam
<1>3. DebitEntry(t.id).amount < 0 /\ CreditEntry(t.id).amount > 0
  BY <1>2 DEF DebitEntry, CreditEntry, Entry
<1>4. e = DebitEntry(t.id) \/ e = CreditEntry(t.id)
  BY DEF IInv, CommittedEntries
<1>5. DebitEntry(t.id).amount \in Int /\ CreditEntry(t.id).amount \in Int
  BY <1>2 DEF DebitEntry, CreditEntry, Entry
<1> QED
  BY <1>3, <1>4, <1>5

\* There is one posting for each committed transaction.
LEMMA PostingsExact ==
  ASSUME IInv
  PROVE  Postings = {PostingBy(t.id) : t \in transactions}
<1> DEFINE Match(y) == /\ y[2].tx = y[1].id /\ y[2].amount < 0
                       /\ y[3].tx = y[1].id /\ y[3].amount = -y[2].amount
<1>1. ASSUME NEW t \in transactions
      PROVE  /\ t = Row(t.id)
             /\ DebitEntry(t.id) \in entries
             /\ CreditEntry(t.id) \in entries
             /\ Match(<<t, DebitEntry(t.id), CreditEntry(t.id)>>)
  <2>1. /\ t = Row(t.id)
        /\ DebitEntry(t.id) \in entries /\ CreditEntry(t.id) \in entries
        /\ t.id \in Requests /\ ValidParam(t.id)
    BY DEF IInv, TypeOK, Transaction, CommittedRows
  <2>2. param[t.id].amount \in Int /\ param[t.id].amount > 0
    BY <2>1, ParamsAssumption
    DEF IInv, TypeOK, TransferParams, Bigint, ValidParam
  <2> QED
    BY <2>1, <2>2 DEF DebitEntry, CreditEntry, Entry
<1>2. ASSUME NEW t \in transactions, NEW d \in entries, NEW c \in entries,
             Match(<<t, d, c>>)
      PROVE  d = DebitEntry(t.id) /\ c = CreditEntry(t.id)
  <2>1. d.amount \in Int /\ d.amount < 0 /\ c.amount = -d.amount
    BY <1>2 DEF IInv, TypeOK, LedgerEntry, Bigint
  <2>2. c.amount > 0
    BY <2>1
  <2> QED
    BY <1>2, <2>1, <2>2, EntriesOfTransaction
<1> HIDE DEF Match
<1>3. Postings = {PostingOf(x[1], x[2], x[3]) : x \in
                    {y \in transactions \X entries \X entries : Match(y)}}
  BY DEF Postings, Match
<1>4. ASSUME NEW p \in Postings
      PROVE  \E t \in transactions : p = PostingBy(t.id)
  <2>1. PICK y \in transactions \X entries \X entries :
               Match(y) /\ p = PostingOf(y[1], y[2], y[3])
    BY <1>3
  <2>2. y = <<y[1], y[2], y[3]>> /\ y[1] \in transactions
        /\ y[2] \in entries /\ y[3] \in entries
    BY <2>1
  <2>3. y[2] = DebitEntry(y[1].id) /\ y[3] = CreditEntry(y[1].id)
    BY <1>2, <2>1, <2>2
  <2> QED
    BY <1>1, <2>1, <2>2, <2>3 DEF PostingBy
<1>5. ASSUME NEW t \in transactions
      PROVE  PostingBy(t.id) \in Postings
  <2> DEFINE y == <<t, DebitEntry(t.id), CreditEntry(t.id)>>
  <2>1. y \in transactions \X entries \X entries /\ Match(y)
    BY <1>1
  <2>2. PostingBy(t.id) = PostingOf(y[1], y[2], y[3])
    BY <1>1 DEF PostingBy
  <2> QED
    BY <1>3, <2>1, <2>2
<1> QED
  BY <1>4, <1>5

\* The same of the state after a step.
LEMMA PostingsExactNext ==
  (IInv => Postings = {PostingBy(t.id) : t \in transactions})'
<1>1. IInv => Postings = {PostingBy(t.id) : t \in transactions}
  BY PostingsExact
<1> QED
  BY <1>1, PTL

\* COMMIT is one Post of the ledger; every other statement is invisible.
LEMMA CommitPosts ==
  ASSUME IInv, IInv', NEW r \in Requests, Commit(r)
  PROVE  /\ PostingBy(r) \in Book!Posting
         /\ Book!Post(PostingBy(r))
<1> DEFINE p == PostingBy(r)
<1> USE DEF IInv, TypeOK
<1>1. /\ p.id = r /\ p.key = param[r].key
      /\ p.from = param[r].from /\ p.to = param[r].to
      /\ p.amount = param[r].amount
  BY DEF PostingBy, PostingOf, Row, DebitEntry, CreditEntry, Entry
<1>2. param[r].amount \in Int /\ balance[p.from] \in Int /\ balance[p.to] \in Int
      /\ p.from \in Account /\ p.to \in Account
  BY <1>1, ParamsAssumption DEF TransferParams, Bigint
<1>3. {p.from, p.to} \subseteq accounts
  BY <1>1 DEF Commit, LocksHeld, Checked
<1>4. p.from # p.to
  BY <1>1, CommitAdds DEF ValidParam
<1>5. ASSUME NEW q \in Postings
      PROVE  q.id # p.id /\ (p.key = NoKey \/ q.key # p.key)
  <2>1. PICK t \in transactions : q = PostingBy(t.id)
    BY PostingsExact
  <2>2. q.id = t.id /\ q.key = t.key
    BY <2>1 DEF PostingBy, PostingOf, Row, CommittedRows
  <2>3. param[r].key # NoKey => t.key # param[r].key
    BY DEF Commit, StagedRows, Writing, StagedKeysFresh
  <2> QED
    BY <1>1, <2>2, <2>3, CommitAdds
<1>6. /\ BalanceAllowed(p.from, balance[p.from] - p.amount)
      /\ BalanceAllowed(p.to, balance[p.to] + p.amount)
      /\ newFrom[r] = balance[p.from] - p.amount
      /\ newTo[r] = balance[p.to] + p.amount
  BY <1>1 DEF Commit, StagedBalances
<1>7. balance' = [balance EXCEPT ![p.from] = @ - p.amount,
                                 ![p.to]   = @ + p.amount]
  BY <1>1, <1>2, <1>4, <1>6 DEF Commit, Publish
<1>8. Postings' = Postings \cup {p}
  <2>1. \A q : PostingBy(q)' = PostingBy(q)
    BY ParamFixed DEF Step, PostingBy, PostingOf, Row, DebitEntry, CreditEntry
  <2>2. Postings' = {PostingBy(t.id) : t \in transactions'}
    BY <2>1, PostingsExactNext
  <2>3. transactions' = transactions \cup {Row(r)} /\ Row(r).id = r
    BY CommitAdds DEF Row
  <2> QED
    BY <2>2, <2>3, PostingsExact
<1>9. UNCHANGED accounts
  BY DEF Commit
<1>10. \A a, b : Book!BalanceAllowed(a, b) <=> BalanceAllowed(a, b)
  BY DEF BalanceAllowed, Book!BalanceAllowed, OwnerType, Book!OwnerType, Bigint,
         Book!Bigint
<1>11. Book!Post(p)
  BY <1>3, <1>4, <1>5, <1>6, <1>7, <1>8, <1>9, <1>10 DEF Book!Post
<1>12. p \in Book!Posting
  <2>1. param[r].amount \in 1 .. BigintMax /\ param[r].key \in Keys \cup {NoKey}
    <3>1. param[r].amount > 0
      BY CommitAdds DEF ValidParam
    <3> QED
      BY <3>1, ParamsAssumption, BigintAssumption DEF TransferParams, Bigint
  <2> QED
    BY <1>1, <1>2, <2>1
    DEF Book!Posting, Book!Account, Account, PostingBy, PostingOf
<1> QED
  BY <1>11, <1>12

\* Every step of Transfer is a step of the ledger, or invisible to it.
LEMMA StepRefines ==
  ASSUME IInv, IInv', [Next]_vars
  PROVE  [Book!Next]_(Book!ledgerVars)
<1>1. ASSUME UNCHANGED tables
      PROVE  UNCHANGED Book!ledgerVars
  BY <1>1 DEF tables, Book!ledgerVars, Postings, PostingOf
<1>2. ASSUME NEW u \in Users, EnsureUserAccount(u)
      PROVE  Book!Open(u)
  BY <1>2 DEF EnsureUserAccount, Book!Open, Postings, PostingOf
<1>3. ASSUME NEW r \in Requests, Commit(r)
      PROVE  Book!Next
  BY <1>3, CommitPosts DEF Book!Next
<1>4. ASSUME NEW r \in Requests, Step(r) \/ Fail(r), ~Commit(r)
      PROVE  UNCHANGED tables
  BY <1>4, TablesFixed
<1> QED
  BY <1>1, <1>2, <1>3, <1>4 DEF Next, Terminated, vars, Book!Next

\* Transfer implements the ledger, from any number of concurrent callers.
THEOREM TransferImplementsLedger == Spec => ImplementsLedger
<1>1. Init => Book!Init
  BY DEF Init, Book!Init, SeededAccounts, Book!SeededAccounts, Account,
         Book!Account, Postings
<1>2. IInv /\ IInv' /\ [Next]_vars => [Book!Next]_(Book!ledgerVars)
  BY StepRefines
<1> QED
  BY <1>1, <1>2, Invariant, PTL DEF Spec, ImplementsLedger, Book!Spec

-----------------------------------------------------------------------------
(***************************************************************************)
(* Deadlock freedom.                                                       *)
(***************************************************************************)

\* A set of account ids, not empty, has a greatest.
LEMMA GreatestId ==
  ASSUME NEW T \in SUBSET (0 .. MaxId), T # {}
  PROVE  \E m \in T : \A n \in T : n <= m
<1> DEFINE U == {MaxId - n : n \in T}
           R == {s \in Nat \X Nat : s[1] < s[2]}
<1>1. \A n \in T : MaxId - n \in Nat /\ n \in Nat
  BY RankAssumption
<1>2. U \subseteq Nat /\ U # {}
  BY <1>1
<1>3. IsWellFoundedOn(R, Nat)
  BY NatLessThanWellFounded DEF OpToRel
<1>4. \E x \in U : \A y \in U : <<y, x>> \notin R
  <2> HIDE DEF U, R
  <2> QED
    BY <1>2, <1>3, WFMin
<1>5. PICK x \in U : \A y \in U : ~(y < x)
  BY <1>2, <1>4
<1>6. PICK m \in T : x = MaxId - m
  BY <1>5
<1>7. ASSUME NEW n \in T PROVE n <= m
  <2>1. ~(MaxId - n < MaxId - m)
    BY <1>5, <1>6
  <2> QED
    BY <1>1, <2>1, RankAssumption
<1> QED
  BY <1>7

\* In a state of the invariant, no set of calls wait for each other.  A call
\* waiting for a connection or for its first row holds no row, one waiting for
\* a key waits for a call that waits for nothing, and calls waiting for their
\* second row wait in ascending order of ids.
LEMMA NoCycle ==
  ASSUME IInv
  PROVE  NoCircularWait
<1> SUFFICES ASSUME NEW S \in SUBSET Requests, S # {},
                    \A r \in S : WaitsFor(r) \cap S # {}
             PROVE  FALSE
  BY DEF NoCircularWait
<1> USE DEF IInv, TypeOK
<1>1. ASSUME NEW r \in S
      PROVE  pc[r] \in {"findByKey", "begin", "refind", "lockFirst",
                        "lockSecond", "insertTransaction"}
  BY DEF WaitsFor
<1>2. ASSUME NEW r \in S PROVE pc[r] # "insertTransaction"
  <2>1. SUFFICES ASSUME pc[r] = "insertTransaction" PROVE FALSE
    OBVIOUS
  <2>2. PICK q \in S : q \in WaitsFor(r)
    OBVIOUS
  <2>3. newTransactions[q] # {}
    BY <2>1, <2>2 DEF WaitsFor
  <2>4. pc[q] \in Writing \cup {"unwind"}
    BY <2>3 DEF StagedRows
  <2> QED
    BY <1>1, <2>4 DEF Writing
<1> DEFINE T == {r \in S : pc[r] = "lockSecond"}
<1>3. ASSUME NEW q \in S, locks[q] # {}
      PROVE  q \in T
  BY <1>1, <1>2, <1>3 DEF HoldsNothingOutside, LocksHeld, InTx
<1>4. ASSUME NEW r \in S, pc[r] \in {"lockFirst", "lockSecond"}
      PROVE  \E q \in T : \/ Ids(param[r])[1] \in locks[q]
                          \/ Ids(param[r])[2] \in locks[q]
  <2>1. PICK q \in S : q \in WaitsFor(r)
    OBVIOUS
  <2> QED
    BY <1>3, <1>4, <2>1 DEF WaitsFor
<1>5. T # {}
  <2>1. PICK r \in S : TRUE
    OBVIOUS
  <2>2. CASE pc[r] \in {"lockFirst", "lockSecond"}
    BY <1>4, <2>2
  <2>3. CASE pc[r] \in {"findByKey", "begin", "refind"}
    <3>1. PICK q \in S : q \in WaitsFor(r)
      OBVIOUS
    <3>2. q \in conn
      BY <2>3, <3>1 DEF WaitsFor
    <3>3. pc[q] \in {"lockFirst", "lockSecond"}
      BY <1>1, <1>2, <3>2 DEF HoldsNothingOutside, InTx
    <3> QED
      BY <1>4, <3>3
  <2> QED
    BY <1>1, <1>2, <2>2, <2>3
<1>6. ASSUME NEW r \in T
      PROVE  /\ Rank[Ids(param[r])[2]] \in 0 .. MaxId
             /\ \E q \in T : Rank[Ids(param[q])[2]] > Rank[Ids(param[r])[2]]
  <2>1. ASSUME NEW s \in T
        PROVE  /\ Rank[Ids(param[s])[1]] < Rank[Ids(param[s])[2]]
               /\ Rank[Ids(param[s])[2]] \in 0 .. MaxId
               /\ locks[s] = {Ids(param[s])[1]}
    <3>1. /\ param[s].from \in Account /\ param[s].to \in Account
          /\ param[s].from # param[s].to
      BY ParamsAssumption
      DEF TransferParams, RunningIsValid, ValidParam, Running, Labels
    <3>2. Rank[param[s].from] \in 0 .. MaxId /\ Rank[param[s].to] \in 0 .. MaxId
          /\ Rank[param[s].from] # Rank[param[s].to]
      BY <3>1, RankAssumption
    <3> QED
      BY <3>2, RankAssumption DEF Ids, LocksHeld
  <2>2. PICK q \in S : q \in WaitsFor(r)
    OBVIOUS
  <2>3. Ids(param[r])[2] \in locks[q]
    BY <2>2 DEF WaitsFor
  <2>4. q \in T
    BY <1>3, <2>3
  <2>5. Ids(param[q])[1] = Ids(param[r])[2]
    BY <2>1, <2>3, <2>4
  <2> QED
    BY <2>1, <2>4, <2>5
<1> DEFINE M == {Rank[Ids(param[r])[2]] : r \in T}
<1>7. M \in SUBSET (0 .. MaxId) /\ M # {}
  BY <1>5, <1>6
<1>8. \E m \in M : \A n \in M : n <= m
  <2> HIDE DEF M
  <2> QED
    BY <1>7, GreatestId
<1>9. PICK r \in T : \A q \in T :
               Rank[Ids(param[q])[2]] <= Rank[Ids(param[r])[2]]
  BY <1>8
<1>10. PICK q \in T : Rank[Ids(param[q])[2]] > Rank[Ids(param[r])[2]]
  BY <1>6
<1>11. /\ Rank[Ids(param[q])[2]] \in 0 .. MaxId
       /\ Rank[Ids(param[r])[2]] \in 0 .. MaxId
  BY <1>6
<1> QED
  BY <1>9, <1>10, <1>11, RankAssumption

\* Whatever the number of calls, accounts and connections, somebody can move.
THEOREM DeadlockFree == Spec => []NoCircularWait
<1>1. IInv => NoCircularWait
  BY NoCycle
<1> QED
  BY <1>1, Invariant, PTL
=============================================================================
