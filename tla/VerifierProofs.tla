--------------------------- MODULE VerifierProofs ---------------------------
(***************************************************************************)
(* Theorems about the verifier, for every set of accounts and transfers,   *)
(* every width of a balance, and any number of failed queries.             *)
(*                                                                         *)
(* VerifierInv is inductive.  Its heart is LedgerTells: as long as only    *)
(* transfers write the tables the three queries find nothing, and after a  *)
(* corruption the second one always finds something.                       *)
(***************************************************************************)
EXTENDS Verifier, AuditLemmas

LEMMA RowsSummable ==
  ASSUME VerifierTypeOK, IsFiniteSet(entries)
  PROVE  Summable(entries)
  BY DEF VerifierTypeOK, LedgerEntry, Bigint, Summable

LEMMA SumOfAccount ==
  ASSUME VerifierTypeOK, IsFiniteSet(entries), NEW a
  PROVE  LedgerSum(OfAccount(entries, a)) \in Int
<1>1. Summable(OfAccount(entries, a))
  BY RowsSummable, SummableSubset DEF OfAccount
<1> QED
  BY <1>1, LedgerSumType

LEMMA BalanceIsInt ==
  ASSUME VerifierTypeOK, NEW a \in Account
  PROVE  balance[a] \in Int
  BY BigintAssumption DEF VerifierTypeOK, Bigint

LEMMA InitVerifier == VerifierInit => VerifierInv
<1> SUFFICES ASSUME VerifierInit PROVE VerifierInv
  OBVIOUS
<1> USE DEF VerifierInit, LoopInit
<1>1. VerifierTypeOK
  <2>1. 0 \in Bigint /\ 0 \in 0 .. MaxFailures
    BY BigintAssumption, VerifierBounds DEF Bigint
  <2>2. report \in [unbalanced : SUBSET Requests, drifted : SUBSET Account,
                    total : Int]
    BY DEF EmptyReport
  <2> QED
    BY <2>1, <2>2 DEF VerifierTypeOK, Phases
<1>2. IsFiniteSet(entries)
  BY FS_EmptySet
<1>3. SoundLedger
  <2>1. Unbalanced(entries) = {}
    BY DEF Unbalanced
  <2>2. \A a : OfAccount(entries, a) = {}
    BY DEF OfAccount
  <2>3. Drifted(Account, balance, entries) = {}
    BY <2>2, LedgerSumEmpty DEF Drifted
  <2>4. Total(Account, balance) = 0
    BY AccountsAssumption, SumZero DEF Total
  <2> QED
    BY <2>1, <2>3, <2>4 DEF SoundLedger
<1> QED
  BY <1>1, <1>2, <1>3
  DEF VerifierInv, LedgerTells, ReportTells, NoFalseAlarm, Queries

-----------------------------------------------------------------------------
(***************************************************************************)
(* What a transfer does to the three queries: nothing.                     *)
(***************************************************************************)
LEMMA PostMoves ==
  ASSUME VerifierInv, NEW t \in Requests, NEW f \in Account, NEW g \in Account,
         NEW n \in 1 .. MaxAmount, Post(t, f, g, n)
  PROVE  /\ n \in Int /\ f # g
         /\ IsPosting(entries, Row(t, f, -n), Row(t, g, n), f, g, n)
         /\ entries' = entries \cup {Row(t, f, -n), Row(t, g, n)}
         /\ \A a \in Account : balance'[a] = IF a = f THEN balance[a] - n
                                             ELSE IF a = g THEN balance[a] + n
                                             ELSE balance[a]
<1>1. n \in Int /\ n # 0 /\ f # g
  BY VerifierBounds DEF Post
<1>2. IsPosting(entries, Row(t, f, -n), Row(t, g, n), f, g, n)
  BY <1>1 DEF Post, IsPosting, Row
<1> QED
  BY <1>1, <1>2 DEF Post, VerifierInv, VerifierTypeOK

LEMMA PostDrifted ==
  ASSUME VerifierInv, NEW t \in Requests, NEW f \in Account, NEW g \in Account,
         NEW n \in 1 .. MaxAmount, Post(t, f, g, n)
  PROVE  Drifted(Account, balance, entries)' = Drifted(Account, balance, entries)
<1>1. ASSUME NEW a \in Account
      PROVE  balance'[a] # LedgerSum(OfAccount(entries, a))'
                <=> balance[a] # LedgerSum(OfAccount(entries, a))
  <2>1. LedgerSum(OfAccount(entries \cup {Row(t, f, -n), Row(t, g, n)}, a))
           = LedgerSum(OfAccount(entries, a))
               + (IF a = f THEN -n ELSE IF a = g THEN n ELSE 0)
    <3>1. Summable(entries)
      BY RowsSummable DEF VerifierInv
    <3> QED
      BY <3>1, PostMoves, AccountSumPost
  <2>2. LedgerSum(OfAccount(entries, a))'
           = LedgerSum(OfAccount(entries \cup {Row(t, f, -n), Row(t, g, n)}, a))
    BY PostMoves DEF OfAccount, LedgerSum
  <2>3. LedgerSum(OfAccount(entries, a)) \in Int /\ balance[a] \in Int
    BY SumOfAccount, BalanceIsInt DEF VerifierInv
  <2>4. /\ n \in Int /\ f # g
        /\ balance'[a] = IF a = f THEN balance[a] - n
                         ELSE IF a = g THEN balance[a] + n ELSE balance[a]
    BY PostMoves
  <2> QED
    BY <2>1, <2>2, <2>3, <2>4
<1> QED
  BY <1>1 DEF Drifted

LEMMA PostUnbalanced ==
  ASSUME VerifierInv, NEW t \in Requests, NEW f \in Account, NEW g \in Account,
         NEW n \in 1 .. MaxAmount, Post(t, f, g, n)
  PROVE  Unbalanced(entries)' = Unbalanced(entries)
<1>1. Summable(entries)
  BY RowsSummable DEF VerifierInv
<1>2. Unbalanced(entries \cup {Row(t, f, -n), Row(t, g, n)}) = Unbalanced(entries)
  BY <1>1, PostMoves, UnbalancedPost
<1>3. entries' = entries \cup {Row(t, f, -n), Row(t, g, n)}
  BY PostMoves
<1> QED
  BY <1>2, <1>3 DEF Unbalanced, OfTransaction, LedgerSum

LEMMA PostTotal ==
  ASSUME VerifierInv, NEW t \in Requests, NEW f \in Account, NEW g \in Account,
         NEW n \in 1 .. MaxAmount, Post(t, f, g, n)
  PROVE  Total(Account, balance)' = Total(Account, balance)
<1>1. \A a \in Account : balance[a] \in Int
  BY BalanceIsInt DEF VerifierInv
<1>2. /\ n \in Int /\ f # g
      /\ balance'[f] = balance[f] - n /\ balance'[g] = balance[g] + n
      /\ \A a \in Account \ {f, g} : balance'[a] = balance[a]
  BY PostMoves
<1>3. Total(Account, balance') = Total(Account, balance)
  BY <1>1, <1>2, AccountsAssumption, TotalMove
<1> QED
  BY <1>3 DEF Total

LEMMA PostInv ==
  ASSUME VerifierInv, NEW t \in Requests, NEW f \in Account, NEW g \in Account,
         NEW n \in 1 .. MaxAmount, Post(t, f, g, n)
  PROVE  VerifierInv'
<1>1. VerifierTypeOK'
  <2>1. balance' \in [Account -> Bigint]
    BY DEF Post, BalanceAllowed, VerifierInv, VerifierTypeOK
  <2>2. Row(t, f, -n) \in LedgerEntry /\ Row(t, g, n) \in LedgerEntry
    BY VerifierBounds, BigintAssumption DEF Row, LedgerEntry, Bigint
  <2>3. entries' \subseteq LedgerEntry
    BY <2>2 DEF Post, VerifierInv, VerifierTypeOK
  <2>4. UNCHANGED <<corrupted, loop>>
    BY DEF Post
  <2> QED
    BY <2>1, <2>3, <2>4 DEF loop, VerifierInv, VerifierTypeOK
<1>2. IsFiniteSet(entries)'
  <2>1. Summable(entries)
    BY RowsSummable DEF VerifierInv
  <2>2. IsFiniteSet(entries \cup {Row(t, f, -n)})
    BY FS_AddElement DEF VerifierInv
  <2>3. IsFiniteSet((entries \cup {Row(t, f, -n)}) \cup {Row(t, g, n)})
    BY <2>2, FS_AddElement
  <2>4. entries' = (entries \cup {Row(t, f, -n)}) \cup {Row(t, g, n)}
    BY PostMoves
  <2> QED
    BY <2>3, <2>4
<1>3. UNCHANGED <<corrupted, loop>>
  BY DEF Post
<1>4. LedgerTells'
  BY <1>3, PostDrifted, PostUnbalanced, PostTotal
  DEF VerifierInv, LedgerTells, SoundLedger
<1>5. ReportTells' /\ NoFalseAlarm'
  BY <1>3 DEF loop, VerifierInv, ReportTells, NoFalseAlarm
<1> QED
  BY <1>1, <1>2, <1>4, <1>5 DEF VerifierInv

-----------------------------------------------------------------------------
(***************************************************************************)
(* What a corruption does: an account drifts.                              *)
(***************************************************************************)
LEMMA CorruptDrifts ==
  ASSUME VerifierInv, Corrupt
  PROVE  \E a \in Account : balance'[a] # LedgerSum(OfAccount(entries, a))'
<1>1. \A a \in Account : balance[a] = LedgerSum(OfAccount(entries, a))
  BY DEF VerifierInv, LedgerTells, SoundLedger, Drifted, Corrupt
<1>2. \A a \in Account : balance[a] \in Int
  BY BalanceIsInt DEF VerifierInv
<1>3. CASE \E a \in Account :
              balance'[a] = balance[a] + 1 /\ UNCHANGED entries
  <2>1. PICK a \in Account : balance'[a] = balance[a] + 1 /\ UNCHANGED entries
    BY <1>3
  <2>2. LedgerSum(OfAccount(entries, a))' = LedgerSum(OfAccount(entries, a))
    BY <2>1 DEF LedgerSum, OfAccount
  <2> QED
    BY <1>1, <1>2, <2>1, <2>2
<1>4. CASE \E e \in entries : entries' = entries \ {e} /\ UNCHANGED balance
  <2>1. PICK e \in entries : entries' = entries \ {e} /\ UNCHANGED balance
    BY <1>4
  <2>2. e.account \in Account /\ e.amount \in Int /\ e.amount # 0
    BY DEF VerifierInv, VerifierTypeOK, LedgerEntry, Bigint
  <2> DEFINE rows == OfAccount(entries, e.account)
  <2>3. e \in rows /\ Summable(rows)
    BY RowsSummable, SummableSubset DEF OfAccount, VerifierInv
  <2>4. OfAccount(entries, e.account)' = rows \ {e}
    BY <2>1 DEF OfAccount
  <2> HIDE DEF rows
  <2>5. LedgerSum(rows \ {e}) = LedgerSum(rows) - e.amount
    BY <2>3, LedgerSumRemove
  <2>6. LedgerSum(OfAccount(entries, e.account))' = LedgerSum(rows \ {e})
    BY <2>4 DEF LedgerSum
  <2>7. balance'[e.account] = LedgerSum(rows)
    BY <1>1, <2>1, <2>2 DEF rows
  <2>8. LedgerSum(rows) \in Int
    BY <2>3, LedgerSumType
  <2> QED
    BY <2>2, <2>5, <2>6, <2>7, <2>8
<1>5. \/ \E a \in Account : balance'[a] = balance[a] + 1 /\ UNCHANGED entries
      \/ \E e \in entries : entries' = entries \ {e} /\ UNCHANGED balance
  BY DEF Corrupt, VerifierInv, VerifierTypeOK
<1> QED
  BY <1>3, <1>4, <1>5

LEMMA CorruptInv ==
  ASSUME VerifierInv, Corrupt
  PROVE  VerifierInv'
<1>1. VerifierTypeOK'
  BY DEF Corrupt, loop, BalanceAllowed, VerifierInv, VerifierTypeOK
<1>2. IsFiniteSet(entries)'
  BY FS_RemoveElement DEF Corrupt, VerifierInv
<1>3. corrupted' = TRUE /\ UNCHANGED loop
  BY DEF Corrupt
<1>4. LedgerTells'
  BY <1>3, CorruptDrifts DEF LedgerTells, Drifted
<1>5. ReportTells' /\ NoFalseAlarm'
  BY <1>3 DEF loop, VerifierInv, ReportTells, NoFalseAlarm
<1> QED
  BY <1>1, <1>2, <1>4, <1>5 DEF VerifierInv

-----------------------------------------------------------------------------
(***************************************************************************)
(* The loop: it reads the ledger and never writes it.                      *)
(***************************************************************************)
LEMMA LedgerFixed ==
  ASSUME VerifierInv, UNCHANGED ledger
  PROVE  IsFiniteSet(entries)' /\ LedgerTells'
  BY DEF ledger, VerifierInv, LedgerTells, SoundLedger, Unbalanced, Drifted,
         Total, OfTransaction, OfAccount, LedgerSum

\* A query collects rows it has found.
LEMMA CollectedRows ==
  ASSUME NEW rows, NEW part \in Collected(rows)
  PROVE  part \subseteq rows /\ (~MayTruncate => part = rows)
  BY VerifierBounds DEF Collected

\* Outside the queries nothing but the phase matters.
LEMMA SelectInv ==
  ASSUME VerifierInv, Tick \/ Cancel \/ SelectDone \/ SelectTick
  PROVE  VerifierInv'
<1> USE DEF Tick, Cancel, SelectDone, SelectTick
<1>1. UNCHANGED ledger
  OBVIOUS
<1>2. VerifierTypeOK'
  <2>1. EmptyReport \in [unbalanced : SUBSET Requests, drifted : SUBSET Account,
                         total : Int]
    BY DEF EmptyReport
  <2>2. CASE Tick \/ Cancel \/ SelectDone
    BY <2>2 DEF ledger, VerifierInv, VerifierTypeOK, Phases
  <2>3. CASE SelectTick
    BY <2>1, <2>3 DEF ledger, VerifierInv, VerifierTypeOK, Phases
  <2> QED
    BY <2>2, <2>3
<1>3. ReportTells' /\ NoFalseAlarm'
  BY DEF ledger, VerifierInv, VerifierTypeOK, ReportTells, NoFalseAlarm, Queries,
         EmptyReport
<1> QED
  BY <1>1, <1>2, <1>3, LedgerFixed DEF VerifierInv

LEMMA QueryTransactionsInv ==
  ASSUME VerifierInv, QueryTransactions
  PROVE  VerifierInv'
<1>1. UNCHANGED <<ledger, tick, cancelled, log, soundAtStart, failures>>
      /\ phase = "query1" /\ phase' = "query2"
  BY DEF QueryTransactions
<1>2. PICK rows \in Collected(Unbalanced(entries)) :
             report' = [report EXCEPT !.unbalanced = rows]
  BY DEF QueryTransactions
<1>3. rows \subseteq Unbalanced(entries)
  BY CollectedRows
<1>4. Unbalanced(entries) \subseteq Requests
  BY DEF Unbalanced, VerifierInv, VerifierTypeOK, LedgerEntry
<1>5. report \in [unbalanced : SUBSET Requests, drifted : SUBSET Account,
                  total : Int]
  BY DEF VerifierInv, VerifierTypeOK
<1>6. /\ report'.unbalanced = rows /\ report'.drifted = report.drifted
      /\ report' \in [unbalanced : SUBSET Requests, drifted : SUBSET Account,
                      total : Int]
  BY <1>2, <1>3, <1>4, <1>5
<1>7. VerifierTypeOK'
  BY <1>1, <1>6 DEF ledger, VerifierInv, VerifierTypeOK, Phases
<1>8. ReportTells'
  <2>1. ~corrupted => Unbalanced(entries) = {}
    BY DEF VerifierInv, LedgerTells, SoundLedger
  <2> QED
    BY <1>1, <1>3, <1>6, <2>1 DEF ledger, VerifierInv, ReportTells, Queries
<1>9. NoFalseAlarm'
  BY <1>1 DEF ledger, VerifierInv, NoFalseAlarm
<1> QED
  BY <1>1, <1>7, <1>8, <1>9, LedgerFixed DEF VerifierInv

LEMMA QueryBalancesInv ==
  ASSUME VerifierInv, QueryBalances
  PROVE  VerifierInv'
<1> DEFINE found == Drifted(Account, balance, entries)
<1>1. UNCHANGED <<ledger, tick, cancelled, log, soundAtStart, failures>>
      /\ phase = "query2" /\ phase' = "query3"
  BY DEF QueryBalances
<1>2. PICK rows \in Collected(found) : report' = [report EXCEPT !.drifted = rows]
  BY DEF QueryBalances
<1>3. rows \subseteq found /\ (~MayTruncate => rows = found)
  BY CollectedRows
<1>4. found \subseteq Account
  BY DEF Drifted
<1>5. report \in [unbalanced : SUBSET Requests, drifted : SUBSET Account,
                  total : Int]
  BY DEF VerifierInv, VerifierTypeOK
<1>6. IF corrupted THEN found # {} ELSE found = {}
  BY DEF VerifierInv, LedgerTells, SoundLedger
<1> HIDE DEF found
<1>7. /\ report'.drifted = rows /\ report'.unbalanced = report.unbalanced
      /\ report' \in [unbalanced : SUBSET Requests, drifted : SUBSET Account,
                      total : Int]
  BY <1>2, <1>3, <1>4, <1>5
<1>8. VerifierTypeOK'
  BY <1>1, <1>7 DEF ledger, VerifierInv, VerifierTypeOK, Phases
<1>9. ReportTells'
  BY <1>1, <1>3, <1>6, <1>7 DEF ledger, VerifierInv, ReportTells, Queries
<1>10. NoFalseAlarm'
  BY <1>1 DEF ledger, VerifierInv, NoFalseAlarm
<1> QED
  BY <1>1, <1>8, <1>9, <1>10, LedgerFixed DEF VerifierInv

LEMMA QueryTotalInv ==
  ASSUME VerifierInv, QueryTotal
  PROVE  VerifierInv'
<1> DEFINE sum == Total(Account, balance)
<1>1. UNCHANGED <<ledger, tick, cancelled, soundAtStart, failures>>
      /\ phase = "query3" /\ phase' = "select"
      /\ report' = [report EXCEPT !.total = sum]
      /\ log' = IF ReportOK(report') THEN "ok" ELSE "violation"
  BY DEF QueryTotal
<1>2. report \in [unbalanced : SUBSET Requests, drifted : SUBSET Account,
                  total : Int]
  BY DEF VerifierInv, VerifierTypeOK
<1>3. sum \in Int
  <2>1. \A a \in Account : balance[a] \in Int
    BY BalanceIsInt DEF VerifierInv
  <2> QED
    BY <2>1, AccountsAssumption, SumType DEF Total
<1>4. ~corrupted => sum = 0
  BY DEF VerifierInv, LedgerTells, SoundLedger
<1> HIDE DEF sum
<1>5. /\ report'.unbalanced = report.unbalanced
      /\ report'.drifted = report.drifted
      /\ report'.total = sum
      /\ report' \in [unbalanced : SUBSET Requests, drifted : SUBSET Account,
                      total : Int]
  BY <1>1, <1>2, <1>3
<1>6. VerifierTypeOK'
  BY <1>1, <1>5 DEF ledger, VerifierInv, VerifierTypeOK, Phases
<1>7. ReportTells'
  BY <1>1 DEF ReportTells, Queries
<1>8. NoFalseAlarm'
  BY <1>1, <1>4, <1>5
  DEF ledger, VerifierInv, ReportTells, Queries, ReportOK, NoFalseAlarm
<1> QED
  BY <1>1, <1>6, <1>7, <1>8, LedgerFixed DEF VerifierInv

LEMMA QueryFailsInv ==
  ASSUME VerifierInv, QueryFails
  PROVE  VerifierInv'
<1>1. /\ UNCHANGED <<ledger, tick, cancelled, report, soundAtStart>>
      /\ phase' = "select" /\ log' = "failed"
  BY DEF QueryFails
<1>2. failures' \in 0 .. MaxFailures
  BY VerifierBounds DEF QueryFails, VerifierInv, VerifierTypeOK
<1>3. VerifierTypeOK'
  BY <1>1, <1>2 DEF ledger, VerifierInv, VerifierTypeOK, Phases
<1>4. ReportTells' /\ NoFalseAlarm'
  BY <1>1 DEF ReportTells, NoFalseAlarm, Queries
<1> QED
  BY <1>1, <1>3, <1>4, LedgerFixed DEF VerifierInv

-----------------------------------------------------------------------------
(***************************************************************************)
(* The invariant, and what follows from it.                                *)
(***************************************************************************)
THEOREM VerifierInvariant == VerifierSpec => []VerifierInv
<1>1. VerifierInv /\ [VerifierNext]_verVars => VerifierInv'
  <2> SUFFICES ASSUME VerifierInv, [VerifierNext]_verVars PROVE VerifierInv'
    OBVIOUS
  <2>1. ASSUME NEW t \in Requests, NEW f \in Account, NEW g \in Account,
               NEW n \in 1 .. MaxAmount, Post(t, f, g, n)
        PROVE  VerifierInv'
    BY <2>1, PostInv
  <2>2. CASE Corrupt
    BY <2>2, CorruptInv
  <2>3. CASE Tick \/ Cancel \/ SelectDone \/ SelectTick
    BY <2>3, SelectInv
  <2>4. CASE QueryTransactions
    BY <2>4, QueryTransactionsInv
  <2>5. CASE QueryBalances
    BY <2>5, QueryBalancesInv
  <2>6. CASE QueryTotal
    BY <2>6, QueryTotalInv
  <2>7. CASE QueryFails
    BY <2>7, QueryFailsInv
  <2>8. CASE UNCHANGED verVars
    <3>1. VerifierTypeOK' /\ ReportTells' /\ NoFalseAlarm'
      BY <2>8 DEF verVars, ledger, loop, VerifierInv, VerifierTypeOK,
                  ReportTells, NoFalseAlarm
    <3> QED
      BY <2>8, <3>1, LedgerFixed DEF verVars, VerifierInv
  <2> QED
    BY <2>1, <2>2, <2>3, <2>4, <2>5, <2>6, <2>7, <2>8
    DEF VerifierNext, LoopNext, RunLoop
<1> QED
  BY InitVerifier, <1>1, PTL DEF VerifierSpec

\* Every variable keeps its type.
THEOREM VerifierTypeCorrect == VerifierSpec => []VerifierTypeOK
  BY VerifierInvariant, PTL DEF VerifierInv

\* No violation is logged of a ledger that only transfers have written, although
\* transfers commit between the three queries of a run.
THEOREM NeverCriesWolf == VerifierSpec => []NoFalseAlarm
  BY VerifierInvariant, PTL DEF VerifierInv

\* As long as only transfers write the tables, they stay sound; once something
\* else has, an account stays drifted, whatever transfers follow.
THEOREM CorruptionStays == VerifierSpec => []LedgerTells
  BY VerifierInvariant, PTL DEF VerifierInv

\* If no connection breaks while rows are read, "verifier: ok" is logged only of
\* a ledger that was sound when the run began.  That the hypothesis is needed is
\* what the missing rows.Err costs (verifier.go:59, verifier.go:80).
THEOREM OkIsSound ==
  ASSUME ~MayTruncate
  PROVE  VerifierSpec => OkMeansSound
<1>1. VerifierInv /\ [VerifierNext]_verVars =>
         [phase = "query3" /\ phase' = "select" /\ log' = "ok"
             => soundAtStart]_verVars
  <2> SUFFICES ASSUME VerifierInv, VerifierNext, phase = "query3",
                      phase' = "select", log' = "ok"
               PROVE  soundAtStart
    BY DEF OkMeansSound
  <2>1. QueryTotal
    BY DEF VerifierNext, LoopNext, RunLoop, Post, loop, Corrupt, Tick, Cancel, SelectDone,
           SelectTick, QueryTransactions, QueryBalances, QueryFails
  <2>2. report'.drifted = report.drifted /\ report'.drifted = {}
    BY <2>1 DEF QueryTotal, ReportOK, VerifierInv, VerifierTypeOK
  <2> QED
    BY <2>2 DEF VerifierInv, VerifierTypeOK, ReportTells, Queries
<1> QED
  BY <1>1, VerifierInvariant, PTL DEF VerifierSpec, OkMeansSound
=============================================================================
