---------------------------- MODULE AuditProofs ----------------------------
(***************************************************************************)
(* Theorems about the tables Transfer writes, under the queries of the     *)
(* verifier: in every reachable state of every number of concurrent        *)
(* callers the three queries find nothing.                                 *)
(*                                                                         *)
(* AuditInv is inductive relative to IInv, the invariant of Transfer: only *)
(* COMMIT and the opening of an account touch what the queries read, and   *)
(* IInv says what COMMIT writes.                                           *)
(***************************************************************************)
EXTENDS Watched, TransferProofs, AuditLemmas

LEMMA EntriesSummable ==
  ASSUME IInv, AuditInv
  PROVE  Summable(entries)
  BY DEF IInv, TypeOK, LedgerEntry, Bigint, AuditInv, Summable

LEMMA InitAudit == Init => AuditInv
<1> SUFFICES ASSUME Init PROVE AuditInv
  OBVIOUS
<1>1. IsFiniteSet(entries) /\ IsFiniteSet(accounts)
  BY SystemsAssumption, FS_EmptySet DEF Init, SeededAccounts
<1>2. \A a \in Account : balance[a] = LedgerSum(OfAccount(entries, a))
  <2>1. \A a : OfAccount(entries, a) = {}
    BY DEF Init, OfAccount
  <2> QED
    BY <2>1, LedgerSumEmpty DEF Init
<1>3. \A a \in Account \ accounts : balance[a] = 0
  BY DEF Init
<1>4. Total(accounts, balance) = 0
  <2>1. \A a \in accounts : balance[a] = 0
    BY DEF Init, SeededAccounts, Account
  <2> QED
    BY <1>1, <2>1, SumZero DEF Total
<1> QED
  BY <1>1, <1>2, <1>3, <1>4 DEF AuditInv

\* COMMIT moves the amount from one balance to the other, and adds a posting.
LEMMA CommitMoves ==
  ASSUME IInv, NEW r \in Requests, Commit(r)
  PROVE  LET p == param[r] IN
         /\ p.from \in accounts /\ p.to \in accounts
         /\ accounts \subseteq Account
         /\ p.amount \in 1 .. BigintMax
         /\ balance \in [Account -> Bigint]
         /\ BalanceAllowed(p.from, balance[p.from] - p.amount)
         /\ BalanceAllowed(p.to, balance[p.to] + p.amount)
         /\ balance' = [balance EXCEPT ![p.from] = @ - p.amount,
                                       ![p.to]   = @ + p.amount]
         /\ entries' = entries \cup {DebitEntry(r), CreditEntry(r)}
         /\ UNCHANGED accounts
         /\ IsPosting(entries, DebitEntry(r), CreditEntry(r),
                      p.from, p.to, p.amount)
<1> DEFINE p == param[r]
<1> USE DEF IInv, TypeOK
<1>1. p.from \in Account /\ p.to \in Account /\ p.amount \in Bigint
  BY ParamsAssumption DEF TransferParams
<1>2. p.from \in accounts /\ p.to \in accounts
  BY DEF Commit, LocksHeld, Checked
<1>3. p.from # p.to /\ p.amount > 0
  BY CommitAdds DEF ValidParam
<1>4. p.amount \in 1 .. BigintMax
  BY <1>1, <1>3, BigintAssumption DEF Bigint
<1>5. /\ newFrom[r] = balance[p.from] - p.amount
      /\ BalanceAllowed(p.from, newFrom[r])
      /\ newTo[r] = balance[p.to] + p.amount
      /\ BalanceAllowed(p.to, newTo[r])
  BY DEF Commit, StagedBalances
<1>6. balance' = [balance EXCEPT ![p.from] = @ - p.amount,
                                 ![p.to]   = @ + p.amount]
  BY <1>1, <1>3, <1>5 DEF Commit, Publish
<1>7. \A e \in entries : e.tx # r
  BY CommitAdds DEF CommittedEntries
<1>8. IsPosting(entries, DebitEntry(r), CreditEntry(r), p.from, p.to, p.amount)
  <2>1. p.amount \in Int /\ p.amount # 0
    BY <1>4
  <2> QED
    BY <1>3, <1>7, <2>1 DEF IsPosting, DebitEntry, CreditEntry, Entry
<1>9. entries' = entries \cup {DebitEntry(r), CreditEntry(r)}
  BY CommitAdds
<1>10. UNCHANGED accounts
  BY DEF Commit
<1> QED
  BY <1>2, <1>4, <1>5, <1>6, <1>8, <1>9, <1>10

LEMMA CommitAudit ==
  ASSUME IInv, AuditInv, NEW r \in Requests, Commit(r)
  PROVE  AuditInv'
<1> DEFINE f == param[r].from
           g == param[r].to
           n == param[r].amount
           d == DebitEntry(r)
           c == CreditEntry(r)
<1>1. /\ f \in accounts /\ g \in accounts /\ accounts \subseteq Account
      /\ n \in 1 .. BigintMax /\ balance \in [Account -> Bigint]
      /\ balance' = [balance EXCEPT ![f] = @ - n, ![g] = @ + n]
      /\ entries' = entries \cup {d, c}
      /\ UNCHANGED accounts
      /\ IsPosting(entries, d, c, f, g, n)
  BY CommitMoves
<1>2. Summable(entries)
  BY EntriesSummable
<1> HIDE DEF f, g, n, d, c
<1>3. /\ f # g /\ f \in Account /\ g \in Account /\ n \in Int
      /\ \A a \in Account : balance[a] \in Int
      /\ \A a \in Account : balance'[a] = IF a = f THEN balance[a] - n
                                          ELSE IF a = g THEN balance[a] + n
                                          ELSE balance[a]
  BY <1>1, BigintAssumption DEF IsPosting, Bigint
<1>4. IsFiniteSet(entries') /\ IsFiniteSet(accounts')
  <2>1. entries' = (entries \cup {d}) \cup {c}
    BY <1>1
  <2>2. IsFiniteSet(entries) /\ IsFiniteSet(accounts)
    BY DEF AuditInv
  <2>3. IsFiniteSet((entries \cup {d}) \cup {c})
    BY <2>2, FS_AddElement
  <2> QED
    BY <1>1, <2>1, <2>2, <2>3
<1>5. \A a \in Account : balance'[a] = LedgerSum(OfAccount(entries, a)')
  <2> TAKE a \in Account
  <2>1. LedgerSum(OfAccount(entries, a)')
          = LedgerSum(OfAccount(entries, a)) + (IF a = f THEN -n
                                       ELSE IF a = g THEN n ELSE 0)
    <3>1. OfAccount(entries, a)' = OfAccount(entries \cup {d, c}, a)
      BY <1>1 DEF OfAccount
    <3> QED
      BY <1>1, <1>2, <3>1, AccountSumPost
  <2>2. LedgerSum(OfAccount(entries, a)) = balance[a]
    BY DEF AuditInv
  <2> QED
    BY <1>3, <2>1, <2>2
<1>6. \A a \in Account \ accounts : balance'[a] = 0
  BY <1>1, <1>3 DEF AuditInv
<1>7. Total(accounts, balance') = 0
  <2>1. IsFiniteSet(accounts) /\ Total(accounts, balance) = 0
    BY DEF AuditInv
  <2>2. /\ \A a \in accounts : balance[a] \in Int
        /\ \A a \in accounts \ {f, g} : balance'[a] = balance[a]
        /\ balance'[f] = balance[f] - n
        /\ balance'[g] = balance[g] + n
    BY <1>1, <1>3
  <2>3. f \in accounts /\ g \in accounts
    BY <1>1
  <2>4. Total(accounts, balance') = Total(accounts, balance)
    BY <1>3, <2>1, <2>2, <2>3, TotalMove
  <2> QED
    BY <2>1, <2>4
<1>8. Total(accounts, balance)' = 0
  BY <1>1, <1>7 DEF Total
<1> QED
  BY <1>1, <1>4, <1>5, <1>6, <1>8 DEF AuditInv, LedgerSum

\* A new account holds nothing.
LEMMA EnsureAudit ==
  ASSUME IInv, AuditInv, NEW u \in Users, EnsureUserAccount(u)
  PROVE  AuditInv'
<1>1. /\ accounts' = accounts \cup {u} /\ u \notin accounts /\ u \in Account
      /\ UNCHANGED <<balance, entries>>
      /\ accounts \subseteq Account /\ balance \in [Account -> Bigint]
  BY DEF EnsureUserAccount, Account, IInv, TypeOK
<1>2. IsFiniteSet(entries') /\ IsFiniteSet(accounts')
  BY <1>1, FS_AddElement DEF AuditInv
<1>3. \A a \in Account : balance'[a] = LedgerSum(OfAccount(entries, a))'
  BY <1>1 DEF AuditInv, OfAccount, LedgerSum
<1>4. \A a \in Account \ accounts' : balance'[a] = 0
  BY <1>1 DEF AuditInv
<1>5. SumFunctionOnSet(balance, accounts \cup {u}) = 0
  <2>1. IsFiniteSet(accounts) /\ SumFunctionOnSet(balance, accounts) = 0
    BY DEF AuditInv, Total
  <2>2. \A a \in accounts \cup {u} : balance[a] \in Int
    BY <1>1, BigintAssumption DEF Bigint
  <2>3. SumFunctionOnSet(balance, accounts \cup {u})
           = balance[u] + SumFunctionOnSet(balance, accounts)
    BY <1>1, <2>1, <2>2, SumAdd
  <2>4. balance[u] = 0
    BY <1>1 DEF AuditInv
  <2> QED
    BY <2>1, <2>3, <2>4
<1>6. Total(accounts, balance)' = 0
  BY <1>1, <1>5 DEF Total
<1> QED
  BY <1>2, <1>3, <1>4, <1>6 DEF AuditInv

\* Every other statement leaves the tables alone.
LEMMA QuietAudit ==
  ASSUME AuditInv, UNCHANGED tables
  PROVE  AuditInv'
  BY DEF tables, AuditInv, OfAccount, LedgerSum, Total

\* Conservation of money, and the cached balances are those of the entries.
THEOREM AuditInvariant == Spec => []AuditInv
<1>1. IInv /\ AuditInv /\ [Next]_vars => AuditInv'
  <2> SUFFICES ASSUME IInv, AuditInv, [Next]_vars PROVE AuditInv'
    OBVIOUS
  <2>1. ASSUME NEW u \in Users, EnsureUserAccount(u) PROVE AuditInv'
    BY <2>1, EnsureAudit
  <2>2. ASSUME NEW r \in Requests, Commit(r) PROVE AuditInv'
    BY <2>2, CommitAudit
  <2>3. ASSUME NEW r \in Requests, Step(r) \/ Fail(r), ~Commit(r) PROVE AuditInv'
    BY <2>3, TablesFixed, QuietAudit
  <2>4. CASE UNCHANGED vars
    BY <2>4, QuietAudit DEF vars
  <2> QED
    BY <2>1, <2>2, <2>3, <2>4 DEF Next, Terminated
<1> QED
  BY InitAudit, <1>1, Invariant, PTL DEF Spec

-----------------------------------------------------------------------------
\* The two entries of a committed transaction are all it has, and sum to zero.
LEMMA TransactionsBalance ==
  ASSUME IInv
  PROVE  Unbalanced(entries) = {}
<1> SUFFICES ASSUME NEW x \in entries
             PROVE  LedgerSum(OfTransaction(entries, x.tx)) = 0
  BY DEF Unbalanced
<1>1. PICK t \in transactions : t.id = x.tx
  BY DEF IInv, CommittedEntries
<1> DEFINE d == DebitEntry(t.id)
           c == CreditEntry(t.id)
<1>2. d \in entries /\ c \in entries /\ t.id \in Requests /\ ValidParam(t.id)
  BY DEF IInv, TypeOK, Transaction, CommittedRows
<1>3. param[t.id].amount \in Int /\ param[t.id].amount > 0
  BY <1>2, ParamsAssumption DEF IInv, TypeOK, TransferParams, Bigint, ValidParam
<1>4. /\ d.tx = t.id /\ c.tx = t.id /\ d # c
      /\ d.amount \in Int /\ c.amount = -d.amount
  BY <1>3 DEF DebitEntry, CreditEntry, Entry
<1>5. \A e \in entries : e.tx = t.id => e = d \/ e = c
  BY DEF IInv, CommittedEntries
<1>6. OfTransaction(entries, x.tx) = {d, c}
  BY <1>1, <1>2, <1>4, <1>5 DEF OfTransaction
<1> HIDE DEF d, c
<1>7. LedgerSum({d, c}) = 0
  BY <1>4, LedgerSumPair
<1> QED
  BY <1>6, <1>7

\* The verifier's queries find nothing in the tables Transfer writes, whenever
\* they look.
THEOREM TablesAuditClean == Spec => []AuditClean
<1>1. IInv /\ AuditInv => AuditClean
  <2> SUFFICES ASSUME IInv, AuditInv PROVE AuditClean
    OBVIOUS
  <2>1. Drifted(accounts, balance, entries) = {}
    BY DEF Drifted, AuditInv, OfAccount, IInv, TypeOK
  <2> QED
    BY <2>1, TransactionsBalance DEF AuditClean, AuditInv
<1> QED
  BY <1>1, Invariant, AuditInvariant, PTL

-----------------------------------------------------------------------------
(***************************************************************************)
(* Transfer is the ledger that Verifier watches.                           *)
(***************************************************************************)
\* COMMIT is a Post of Verifier.
LEMMA CommitIsSeen ==
  ASSUME IInv, NEW r \in Requests, Commit(r), UNCHANGED Beside!loop
  PROVE  Beside!VerifierNext
<1> DEFINE f == param[r].from
           g == param[r].to
           n == param[r].amount
<1>1. /\ f \in Account /\ g \in Account /\ n \in 1 .. BigintMax
      /\ BalanceAllowed(f, balance[f] - n)
      /\ BalanceAllowed(g, balance[g] + n)
      /\ balance' = [balance EXCEPT ![f] = @ - n, ![g] = @ + n]
      /\ entries' = entries \cup {DebitEntry(r), CreditEntry(r)}
  BY CommitMoves
<1>2. f # g /\ \A e \in entries : e.tx # r
  BY CommitMoves DEF IsPosting, DebitEntry, Entry
<1>3. DebitEntry(r) = Beside!Row(r, f, -n) /\ CreditEntry(r) = Beside!Row(r, g, n)
  BY DEF DebitEntry, CreditEntry, Entry, Beside!Row
<1>4. \A a, b : Beside!BalanceAllowed(a, b) <=> BalanceAllowed(a, b)
  BY DEF BalanceAllowed, Beside!BalanceAllowed, OwnerType, Beside!OwnerType,
         Bigint, Beside!Bigint
<1> HIDE DEF f, g, n
<1>5. Beside!Post(r, f, g, n)
  BY <1>1, <1>2, <1>3, <1>4 DEF Beside!Post
<1> QED
  BY <1>1, <1>5 DEF Beside!VerifierNext, Beside!Account, Account

\* The loop never writes the tables.
LEMMA LoopReads ==
  ASSUME Beside!LoopNext
  PROVE  UNCHANGED <<balance, entries>>
  BY DEF Beside!LoopNext, Beside!RunLoop, Beside!Tick, Beside!Cancel,
         Beside!SelectDone, Beside!SelectTick, Beside!QueryTransactions,
         Beside!QueryBalances, Beside!QueryTotal, Beside!QueryFails, Beside!ledger

\* Only COMMIT writes what the verifier reads.
LEMMA WritesByCommit ==
  ASSUME IInv, [Next]_vars
  PROVE  UNCHANGED <<balance, entries>> \/ \E r \in Requests : Commit(r)
<1>1. ASSUME NEW u \in Users, EnsureUserAccount(u)
      PROVE  UNCHANGED <<balance, entries>>
  BY <1>1 DEF EnsureUserAccount
<1>2. ASSUME NEW r \in Requests, Step(r) \/ Fail(r), ~Commit(r)
      PROVE  UNCHANGED <<balance, entries>>
  BY <1>2, TablesFixed DEF tables
<1>3. CASE UNCHANGED vars
  BY <1>3 DEF vars, tables
<1> QED
  BY <1>1, <1>2, <1>3 DEF Next, Terminated

\* The two together are Verifier, and nothing is ever corrupt: whatever the
\* callers of Transfer do, the tables change by a Post or not at all.
THEOREM VerifierBesideTransfer == WatchedSpec => Beside!VerifierSpec
<1>1. Init /\ Beside!LoopInit => Beside!VerifierInit
  BY DEF Init, Beside!VerifierInit, Account, Beside!Account
<1>2. IInv /\ [Next]_vars /\ [Beside!LoopNext]_(Beside!loop)
         => [Beside!VerifierNext]_(Beside!verVars)
  <2> SUFFICES ASSUME IInv, [Next]_vars, [Beside!LoopNext]_(Beside!loop)
               PROVE  Beside!VerifierNext \/ UNCHANGED Beside!verVars
    OBVIOUS
  <2>1. CASE Beside!LoopNext
    BY <2>1 DEF Beside!VerifierNext
  <2>2. CASE UNCHANGED Beside!loop /\ \E r \in Requests : Commit(r)
    BY <2>2, CommitIsSeen
  <2>3. CASE UNCHANGED Beside!loop /\ UNCHANGED <<balance, entries>>
    BY <2>3 DEF Beside!verVars, Beside!ledger
  <2> QED
    BY <2>1, <2>2, <2>3, WritesByCommit
<1> QED
  BY <1>1, <1>2, Invariant, PTL
  DEF WatchedSpec, LoopSpec, Spec, Beside!VerifierSpec

\* The verifier never raises an alarm over what the callers of Transfer do,
\* however their statements and its queries interleave.
THEOREM NoAlarmBesideTransfer ==
  ASSUME IsFiniteSet(Users), MaxFailures \in Nat, MayTruncate \in BOOLEAN
  PROVE  WatchedSpec => [](log # "violation")
<1>1. Beside!VerifierBounds
  BY BigintAssumption DEF Beside!VerifierBounds
<1>2. Beside!AccountsAssumption /\ Beside!SystemsAssumption
  <2>1. IsFiniteSet(Users \cup Systems)
    BY SystemsAssumption, FS_Union
  <2> QED
    BY <2>1, SystemsAssumption
    DEF Beside!AccountsAssumption, Beside!SystemsAssumption, Beside!Account,
        Beside!IsFiniteSet, IsFiniteSet
<1>3. Beside!OwnersAssumption /\ Beside!KeysAssumption /\ Beside!BigintAssumption
  BY OwnersAssumption, KeysAssumption, BigintAssumption
  DEF Beside!OwnersAssumption, Beside!KeysAssumption, Beside!BigintAssumption
<1>4. Beside!VerifierSpec => []Beside!NoFalseAlarm
  BY <1>1, <1>2, <1>3, Beside!NeverCriesWolf, PTL
<1>5. Beside!NoFalseAlarm => log # "violation"
  BY DEF Beside!NoFalseAlarm
<1> QED
  BY <1>4, <1>5, VerifierBesideTransfer, PTL
=============================================================================
