------------------------------ MODULE Verifier ------------------------------
(***************************************************************************)
(* The verifier of the wallet service (verifier.go): a loop that, at every *)
(* tick, runs three queries one after the other while transfers keep being *)
(* committed, and logs what they found.                                    *)
(*                                                                         *)
(* The ledger is seen here as the queries see it, in its committed rows: a *)
(* transfer is one step (Transfer implements Ledger).  Corrupt is what the *)
(* verifier is there to find: rows changed by something else than Transfer *)
(* (a migration, a hand on the database, a bug).                           *)
(***************************************************************************)
EXTENDS Audit

CONSTANTS
    MaxAmount,      \* bound on the amount of a transfer
    MaxFailures,    \* bound on the queries that fail before ctx is cancelled
    MayTruncate     \* can a connection break while the rows of a query are read

ASSUME VerifierBounds == /\ MaxAmount \in 1 .. BigintMax
                         /\ MaxFailures \in Nat
                         /\ MayTruncate \in BOOLEAN

\* The accounts are the rows of a table.
ASSUME AccountsAssumption == IsFiniteSet(Account)

VARIABLES
    balance, entries,   \* the committed rows; every account exists
    corrupted,          \* has Corrupt happened
    tick,               \* a tick waits in the channel ticker.C (capacity 1)
    cancelled,          \* ctx is done
    phase,              \* where RunLoop is
    report,             \* the VerifyReport under construction
    log,                \* the last line logged
    soundAtStart,       \* had nothing been corrupted when the run began
    failures

ledger  == <<balance, entries, corrupted>>
loop    == <<tick, cancelled, phase, report, log, soundAtStart, failures>>
verVars == <<ledger, loop>>

Phases == {"select", "query1", "query2", "query3", "stopped"}

EmptyReport == [unbalanced |-> {}, drifted |-> {}, total |-> 0]

LoopInit ==
    /\ tick = FALSE
    /\ cancelled = FALSE
    /\ phase = "select"
    /\ report = EmptyReport
    /\ log = "none"
    /\ soundAtStart = TRUE
    /\ failures = 0

VerifierInit ==
    /\ balance = [a \in Account |-> 0]
    /\ entries = {}
    /\ corrupted = FALSE
    /\ LoopInit
-----------------------------------------------------------------------------
Row(t, a, n) == [tx |-> t, account |-> a, amount |-> n]

\* Mutant: the credit is not part of the transaction.
PostDebitOnly(t, f, g, n) ==
    /\ \A e \in entries : e.tx # t
    /\ f # g
    /\ BalanceAllowed(f, balance[f] - n)
    /\ balance' = [balance EXCEPT ![f] = @ - n]
    /\ entries' = entries \cup {Row(t, f, -n)}
    /\ UNCHANGED <<corrupted, loop>>

\* Mutant: sums are not confined to the column.
PostAnyWidth(t, f, g, n) ==
    /\ \A e \in entries : e.tx # t
    /\ f # g
    /\ OwnerType(f) = "user" => balance[f] >= n
    /\ balance' = [balance EXCEPT ![f] = @ - n, ![g] = @ + n]
    /\ entries' = entries \cup {Row(t, f, -n), Row(t, g, n)}
    /\ UNCHANGED <<corrupted, loop>>

\* A committed Transfer.
Post(t, f, g, n) ==
    /\ \A e \in entries : e.tx # t
    /\ f # g
    /\ BalanceAllowed(f, balance[f] - n)
    /\ BalanceAllowed(g, balance[g] + n)
    /\ balance' = [balance EXCEPT ![f] = @ - n, ![g] = @ + n]
    /\ entries' = entries \cup {Row(t, f, -n), Row(t, g, n)}
    /\ UNCHANGED <<corrupted, loop>>

\* A balance is changed, money is shifted between two balances, or an entry is
\* lost.
Corrupt ==
    /\ ~corrupted
    /\ corrupted' = TRUE
    /\ \/ \E a \in Account :
              /\ BalanceAllowed(a, balance[a] + 1)
              /\ balance' = [balance EXCEPT ![a] = @ + 1]
              /\ UNCHANGED entries
       \/ \E a, b \in Account :
              /\ a # b
              /\ BalanceAllowed(a, balance[a] + 1)
              /\ BalanceAllowed(b, balance[b] - 1)
              /\ balance' = [balance EXCEPT ![a] = @ + 1, ![b] = @ - 1]
              /\ UNCHANGED entries
       \/ \E e \in entries :
              /\ entries' = entries \ {e}
              /\ UNCHANGED balance
    /\ UNCHANGED loop
-----------------------------------------------------------------------------
\* The ticker fires; a tick nobody has taken yet absorbs the next ones.
Tick ==
    /\ phase # "stopped"
    /\ ~tick
    /\ tick' = TRUE
    /\ UNCHANGED <<ledger, cancelled, phase, report, log, soundAtStart, failures>>

Cancel ==
    /\ ~cancelled
    /\ cancelled' = TRUE
    /\ UNCHANGED <<ledger, tick, phase, report, log, soundAtStart, failures>>

\* Mutant: the loop does not watch ctx.
SelectDoneNever == FALSE /\ UNCHANGED verVars

\* case <-ctx.Done()
SelectDone ==
    /\ phase = "select"
    /\ cancelled
    /\ phase' = "stopped"
    /\ UNCHANGED <<ledger, tick, cancelled, report, log, soundAtStart, failures>>

\* case <-ticker.C; select takes either when both are ready.
SelectTick ==
    /\ phase = "select"
    /\ tick
    /\ tick' = FALSE
    /\ phase' = "query1"
    /\ report' = EmptyReport
    /\ soundAtStart' = ~corrupted
    /\ UNCHANGED <<ledger, cancelled, log, failures>>

\* What the loop over rows.Next() collects of the rows of a query: all of them,
\* or those read before the connection broke.  rows.Err() is not asked.
Collected(rows) == IF MayTruncate THEN SUBSET rows ELSE {rows}

QueryTransactions ==
    /\ phase = "query1"
    /\ ~cancelled
    /\ phase' = "query2"
    /\ \E rows \in Collected(Unbalanced(entries)) :
          report' = [report EXCEPT !.unbalanced = rows]
    /\ UNCHANGED <<ledger, tick, cancelled, log, soundAtStart, failures>>

\* rows.Scan puts SUM(amount), a NUMERIC, into an int64: it fails on a sum that
\* has left the width of a balance.
Scans(a) == LedgerSum(OfAccount(entries, a)) \in Bigint

QueryBalances ==
    /\ phase = "query2"
    /\ ~cancelled
    /\ phase' = "query3"
    /\ \E rows \in Collected(Drifted(Account, balance, entries)) :
          /\ \A a \in rows : Scans(a)
          /\ report' = [report EXCEPT !.drifted = rows]
    /\ UNCHANGED <<ledger, tick, cancelled, log, soundAtStart, failures>>

\* Mutant: the drifted accounts are left out.
ReportOKNoDrift(rep) == rep.unbalanced = {} /\ rep.total = 0

\* VerifyReport.OK
ReportOK(rep) == rep.unbalanced = {} /\ rep.drifted = {} /\ rep.total = 0

\* The last query; the report is complete, and logged.
QueryTotal ==
    /\ phase = "query3"
    /\ ~cancelled
    /\ phase' = "select"
    /\ report' = [report EXCEPT !.total = Total(Account, balance)]
    /\ log' = IF ReportOK(report') THEN "ok" ELSE "violation"
    /\ UNCHANGED <<ledger, tick, cancelled, soundAtStart, failures>>

\* The second query returns a row that cannot be scanned.
SumTooWide ==
    /\ phase = "query2"
    /\ \E a \in Drifted(Account, balance, entries) : ~Scans(a)

\* Mutant: an error ends the loop.
QueryFailsForGood ==
    /\ phase \in {"query1", "query2", "query3"}
    /\ \/ cancelled /\ UNCHANGED failures
       \/ ~cancelled /\ failures < MaxFailures /\ failures' = failures + 1
       \/ ~cancelled /\ SumTooWide /\ UNCHANGED failures
    /\ phase' = "stopped"
    /\ log' = "failed"
    /\ UNCHANGED <<ledger, tick, cancelled, report, soundAtStart>>

\* A query returns an error, as all do once ctx is done: the run is given up
\* and the loop goes on.
QueryFails ==
    /\ phase \in {"query1", "query2", "query3"}
    /\ \/ cancelled /\ UNCHANGED failures
       \/ ~cancelled /\ failures < MaxFailures /\ failures' = failures + 1
       \/ ~cancelled /\ SumTooWide /\ UNCHANGED failures
    /\ phase' = "select"
    /\ log' = "failed"
    /\ UNCHANGED <<ledger, tick, cancelled, report, soundAtStart>>

RunLoop ==
    \/ SelectDone \/ SelectTick
    \/ QueryTransactions \/ QueryBalances \/ QueryTotal \/ QueryFails

\* The loop and what it waits for.
LoopNext == Tick \/ Cancel \/ RunLoop

VerifierNext ==
    \/ \E t \in Requests, f, g \in Account, n \in 1 .. MaxAmount : Post(t, f, g, n)
    \/ Corrupt \/ LoopNext

VerifierSpec == VerifierInit /\ [][VerifierNext]_verVars

\* The ticker keeps firing and the goroutine keeps running.  When a tick and
\* ctx.Done are both ready, select picks at random: it cannot pass over Done
\* for ever (strong fairness).
VerifierFairness ==
    /\ WF_verVars(Tick)
    /\ WF_verVars(RunLoop)
    /\ SF_verVars(SelectDone)

VerifierFairSpec == VerifierSpec /\ VerifierFairness
-----------------------------------------------------------------------------
(***************************************************************************)
(* Properties.                                                             *)
(***************************************************************************)

VerifierTypeOK ==
    /\ balance \in [Account -> Bigint]
    /\ entries \subseteq LedgerEntry
    /\ {corrupted, tick, cancelled, soundAtStart} \subseteq BOOLEAN
    /\ phase \in Phases
    /\ report \in [unbalanced : SUBSET Requests, drifted : SUBSET Account,
                   total : Int]
    /\ log \in {"none", "ok", "violation", "failed"}
    /\ failures \in 0 .. MaxFailures

\* The verifier never cries wolf: although its three queries look at the ledger
\* at three different times, transfers committed in between make none of them
\* find anything (verifier.go:45-105).
NoFalseAlarm == log = "violation" => corrupted

\* verifier.go:42: "Run executes all three checks against the whole ledger".
\* "verifier: ok" is logged only if nothing was corrupt when the run began.
OkMeansSound ==
    [][phase = "query3" /\ phase' = "select" /\ log' = "ok" => soundAtStart]_verVars

\* A corruption is logged as a violation, unless the service is shut down first
\* or the sum of an account's entries leaves the width of a balance (every run
\* then ends in an error): other failed runs only delay it.
CorruptionReported ==
    corrupted ~> \/ log = "violation"
                 \/ cancelled
                 \/ \E a \in Account : ~Scans(a)

\* Once ctx is cancelled the goroutine ends.
LoopStops == cancelled ~> phase = "stopped"
-----------------------------------------------------------------------------
(***************************************************************************)
(* The inductive invariant.                                                *)
(***************************************************************************)
Queries == {"query1", "query2", "query3"}

\* What the three queries are to find of rows that only transfers have written.
SoundLedger ==
    /\ Unbalanced(entries) = {}
    /\ Drifted(Account, balance, entries) = {}
    /\ Total(Account, balance) = 0

\* Every corruption leaves an account whose balance is not the sum of its
\* entries, and no later transfer hides it: a transfer moves both alike.
LedgerTells == IF corrupted THEN Drifted(Account, balance, entries) # {}
                            ELSE SoundLedger

\* A run of the verifier knows no more than the ledger: what it has found so far
\* is there, and what was there when it began it has found.
ReportTells ==
    phase \in Queries =>
        /\ ~corrupted => report.unbalanced = {} /\ report.drifted = {}
        /\ ~soundAtStart => corrupted
        /\ ~soundAtStart /\ ~MayTruncate /\ phase = "query3"
              => report.drifted # {}

VerifierInv ==
    /\ VerifierTypeOK
    /\ IsFiniteSet(entries)
    /\ LedgerTells
    /\ ReportTells
    /\ NoFalseAlarm
=============================================================================
