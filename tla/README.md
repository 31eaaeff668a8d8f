# Casino: specification and verification

TLA+ models of the parts of the casino platform that carry its own logic, the
TLC configurations that check them on small instances, and theorems about them
that TLAPS checks for every value of the constants. The reference is the Go
and SQL of the repository; every definition is a translation of the lines that
`PROJECT.json` gives under `map`.

## 1. The system

| Component | State | Operations | Interacts with |
|---|---|---|---|
| wallet: `Repo.Transfer` (`wallet/repo.go`) | tables `wallet.accounts`, `transactions`, `ledger_entries`; per call: a database transaction with row locks, pending rows, a pooled connection | `Transfer`, `GetOrCreateUserAccount`, lookups | Postgres (READ COMMITTED) through `pgxpool`; all calls share the tables and the pool |
| wallet: handlers (`wallet/handler.go`) | none between requests | `Deposit`, `Withdraw`, `Balance`, `Transactions` | call the repo; every route is behind `RequireAuth` |
| wallet: verifier (`wallet/verifier.go`) | a goroutine with a ticker, the report under construction | `Run` (three queries), `RunLoop` | reads the tables while transfers commit; stops with the process context |
| wallet: schema (`migrations/wallet`) | constraints and seeded system accounts | – | decides what an `INSERT` or `UPDATE` may do |
| auth: handlers and repo (`internal/user`) | tables `auth.users`, `auth.refresh_tokens` | `Register`, `Login`, `Refresh` (rotation), `Logout`, `Me` | `password`, `token`, Postgres |
| `pkg/token`, `pkg/authmw` | none (signed tokens carry their expiry) | `Sign`, `Verify`, `RequireAuth` | both services |
| `pkg/postgres` | the connection pool | acquire, release, `Close` | both services |
| service `main`s | listener, signal context | start, `Shutdown` (10 s), deferred `pool.Close` | everything above |
| API gateway | none | prefix routing, 502 on a dead backend | proxies to both services |
| `pkg/config`, `pkg/httpx`, `pkg/logger` | none | environment, JSON responses, logs | – |
| game, bonus, risk services | none | `/healthz` | skeletons |

What is hard here is the money path: several requests, from several processes
or from retries of one client, run `Transfer` at once; it takes its locks one
by one, waits for a pooled connection, for row locks and for a unique key that
another transaction has inserted and not committed, may fail or be cancelled at
every statement, and may lose the answer to its `COMMIT`. The `hazards` of
`PROJECT.json` list these situations at the lines where they bite, with the
properties that would catch them going wrong.

What makes each component correct:

* **Transfer**: the books always balance; no user is overdrawn; a key is posted
  once; a successful answer names a committed transaction of its key; nobody
  waits for ever; nothing is left behind by a call that failed.
* **handlers**: a 201 is true, a 400 or a 402 moved nothing, the balance
  reported is the user's.
* **history**: following the cursor shows every entry that was there, once.
* **verifier**: no false alarm while money moves, no all-clear over a ledger
  that was corrupt when the run began, every corruption reported, the loop ends.
* **auth**: one account per e-mail, in whatever case or spacing it is typed; a login opens the
  account that was registered and no other; a token that was spent buys nothing
  later; nothing is accepted after its expiry or its user; a refusal has a
  reason.
* **lifecycle and gateway**: a signal ends its process, whatever the requests
  in it wait for; an exit code 0 means that every request was answered, and
  none refused a connection; every request that the gateway accepts gets an
  answer, whatever happens to the backend; a request that was answered 502 runs
  nowhere any more.

## 2. Modules

```
WalletSchema ── Ledger                     abstract specification
     ├── History ── MCHistory
     │      └── HistoryProofs
     ├── Audit ── Verifier ── MCVerifier
     │     │         └── VerifierProofs (with AuditLemmas)
     │     └── AuditLemmas
     └── Transfer ── TransferInv ── TransferProofs
             │            └── TransferAudit (with Audit) ── MCTransfer
             │                     └── Watched (with VerifierProofs)
             │                            └── AuditProofs (with TransferProofs, AuditLemmas)
             └── WalletService ── MCWalletService
                      └── WalletServiceProofs (with AuditProofs)

Sessions                                   abstract specification
Auth (with Sessions) ── MCAuth             Config ── Lifecycle ── MCLifecycle
  └── AuthProofs                                         └── LifecycleProofs
```

* **WalletSchema** – what a row is and what the constraints of the migration
  allow. An account is identified with its owner (`accounts_unique_owner`; USD
  is the only currency) and a transaction with the call that inserts it (its id
  is a fresh UUID). `BigintMax` is a parameter: the width of a balance matters
  and is small in the runs.
* **Ledger** – the promise: accounts are opened, and money is posted in one
  step, at most once per key, within the balance of a user.
* **Transfer** – `Repo.Transfer` with one action per statement sent to the
  database. `pc` is the statement a call sends next; `accounts`, `balance`,
  `transactions`, `entries` are the committed rows; `newTransactions`,
  `newEntries`, `newFrom`, `newTo` what a transaction has written and not
  committed; `locks` the rows it has locked; `conn` the calls that hold a
  connection; `seen` the balance `lockAccount` returned. Each action is
  annotated with its line. `Fail` is any statement returning an error, or the
  context of a call being cancelled while it runs or waits. `Commit` may move
  the money and still report an error. The order in which row locks are taken
  comes from `Rank`, the order of the account ids.
* **TransferInv**, **TransferProofs** – the inductive invariant and theorems.
* **WalletService** – the handlers around Transfer: validation, creation of the
  user's account, the lookup of `external`, the call, the mapping of errors to
  status codes, and the choice of the side whose balance is reported. It
  extends Transfer and adds the stage of each request and its reply.
* **Audit** – the verifier's three queries as functions of the tables.
* **AuditLemmas** – what sums over finite sets of rows are, and what a posting
  (two entries of a new transaction that add up to zero) does to each query.
* **TransferAudit** – the queries over the tables Transfer writes
  (`AuditClean`), and the invariant behind them.
* **Watched** – Transfer and the verifier's loop beside it, in one
  specification: the conjunction of `Spec` and of the loop, which reads the
  tables between any two statements of the callers.
* **AuditProofs** – the theorems about both.
* **Verifier** – the loop: ticker channel of capacity one, `select`, three
  queries at three moments, `continue` on errors, cancellation. The second query
  also fails, whatever the connection does, if the sum of a drifted account
  cannot be scanned into an `int64` (`SumTooWide`). Transfers are single steps
  here, which `VerifierBesideTransfer` justifies. `Corrupt` is what the verifier
  exists for and is no operation of the program.
* **VerifierProofs** – the theorems about the loop.
* **History** – `Transactions`, `ListEntries`, `parseLimit` and the cursor. The
  database side has a clock and transfers that begin (fixing `created_at`) and
  commit later, in any order; the client follows the cursor with whatever
  limits it likes, may fail and retry, may send a cursor that does not decode,
  and starts over. The server keeps nothing between pages, so one client
  suffices. A page is a set whose order is `Before`; two transactions may share
  a microsecond, and then the id decides.
* **HistoryProofs** – what `ORDER BY` and `LIMIT` give of a finite set, the
  invariant of a listing, and the theorems.

* **Sessions** – the promise of the auth service about users and refresh tokens:
  a token is given to a member, spent once and for all, and continued only by
  tokens of the same member; who leaves takes the tokens along; a name is given
  once. A spent token may be followed by several, which is what calls with one
  token that overlap add to a session that would else be a chain.
* **Auth** – the handlers and the repo of the auth service with `password`,
  `token` and `authmw`, one action per statement sent to the database: no
  handler opens a transaction, so that any other call may run between the
  lookup, the revocation and the store of a refresh (`Refresh`, `Revoke`,
  `Store`). The rows are `users` and `tokens`; a row and a pair of tokens are
  named after the call that makes them, since ids and secrets are random.
  `signed` is the time at which a call signed its access token, which fixes the
  expiry of both. A statement may fail, and one that succeeds may lose its
  answer (`Complete`). `before` records, for the properties only, which calls
  had been answered and whether the token was live when a call arrived.
  Clients present tokens they were given, strange ones or none. `DeleteUser` is
  no operation of the service: the comments of `Me` and the `ON DELETE CASCADE`
  of the schema provide for it, so it is part of the environment.
* **AuthProofs** – its invariant and theorems.
* **Config** – `config.Load` as operators over an environment: precedence of
  the port variables, defaults, the panic over an integer that is none (and when
  a missing port is found before it), what is required, and the conversion of `POSTGRES_MAX_CONNS` to an `int32`.
* **Lifecycle** – the `run` functions of the gateway and of the two services
  behind it as they start, serve, drain and stop, and the requests that pass
  through the gateway to them. Each process has a `phase`; each request is at a
  `hop` in each process. A process that could not load its configuration, reach
  its database or listen ends with code 1, one that panicked over a variable
  with the runtime's 2. The gateway's round trip to a backend fails in one step
  (`RoundTripFails`: nobody listens, or the connection breaks) and its
  `ErrorHandler` answers 502 in a later one (`Unavailable`), so a backend may
  start, stop or be found by other requests in between. A handler that wants a
  connection once the pool is closing gets none (`Refuse`) and answers 500. The order of the deferred calls, the limit of ten
  seconds, and the wait of `pool.Close` for the connections that are out are
  those of the code; the verifier's goroutine is a user of the pool that nobody
  waits for. What a handler does inside a transaction is Transfer, WalletService
  and Auth, where a call can be cut off at any statement: the properties of
  both sides meet at `hop = "inTx"`. `Exit` leaves a request that is in a
  transaction there: if the process could end then, the database would finish
  the transaction in its own time.
* **LifecycleProofs** – its invariant and theorems.

The rules of Postgres that the code relies on are in Transfer and marked
external in the map: `SELECT ... FOR UPDATE` waits for a row lock and then
reads the committed row; an `INSERT` of a unique value waits for an open
transaction that has inserted it, succeeds if that one rolls back and fails
with 23505 if it commits; `COMMIT` publishes all rows of a transaction at
once; `ROLLBACK` and `COMMIT` release locks and the connection.

## 3. Runs

| Run | Instance | What it shows |
|---|---|---|
| `transfer` | 3 calls, 3 accounts, 2 connections, `BigintMax` 3 | `IInv`, `FundsReserved` and the three audits hold in every state; the tables change as `Ledger` says (refinement, with `accounts` as `opened` and `Postings` as `posted`) |
| `races` | 4 calls, 4 accounts, 3 connections | one key over disjoint pairs of accounts: `KeyPostedOnce`, `FallbackFinds`, `NoCircularWait` |
| `liveness` | 3 calls, 2 connections, no symmetry | `AllAnswered` under weak fairness |
| `replay`, `refusal` | 3 calls, a deposit and its withdrawal | the two findings about repeated keys |
| `service` | 3 requests, 2 users, keys of one request and its retries | what responses say is true; `UsesTransfer` |
| `reuse` | the same key for a deposit and a withdrawal | the finding about the reported balance |
| `verifier` | 2 transfers, 3 accounts, one corruption, one failing query | safety and liveness of the loop; a corruption is reported unless a sum leaves the width of a balance |
| `history` | 4 transfers, 3 instants, limits 1 to 3 | pages never repeat or skip an entry although entries appear behind and ahead of the cursor; a cursor always leads to an entry |
| `auth` | 4 calls, 2 spellings of one address, 2 passwords, lifetimes 1 and 2, clock to 2 | safety of accounts, logins and tokens under races, expiry, lost answers, failures and deletions; users and tokens change as `Sessions` says (refinement: `Members`, `ActiveTokens`, `SpentTokens`, and the calls not answered as `unused`) |
| `lifecycle` | 3 processes, 2 requests, 3 paths, 4 environments | exit code 0 is earned (`CleanExitAnswersAll`); a 502 is the end of its request (`UnavailableIsFinal`); under fairness, every accepted request leaves the gateway (`AcceptedIsAnswered`) and every signal ends its process (`SignalEnds`) |
| `truncated` | the `verifier` instance, queries may break off | the finding about `rows.Err()` |

Bounds. Every hazard of Transfer is between two calls and what they wait for:
three calls give two competitors and a bystander, four a second pair. Two
connections for three calls (three for four) make the pool a thing to wait for
while transactions still overlap. `BigintMax` 3 with amounts up to 2 lets two
deposits overflow the column, and one deposit of 2 pays a withdrawal of 2 or
two of 1, not both. Calls start in any order and time, so `Init` choosing
their arguments loses nothing. `MaxFailures` bounds the queries of the verifier
that fail; transfers and the
clock of History are bounded by their numbers and by `MaxTime` (four entries
for pages of up to three), transfers of the verifier's runs by their ids.
In `auth`, four calls are a registration, a login and two calls that compete
for its token (or a refresh and a use of its successor); the clock passes the
end of the access token while the refresh token lives, and then the end of
both. The state constraint `OneOdd` lets at most one call be malformed, carry a
token the service has not issued or fail: such a call changes little for the
others. The theorems about Auth do not have this constraint. In `lifecycle`, one request is in the way of
the other's shutdown; the paths are an operation, an operation at the wrong
service and an unknown prefix; the environments are one in which the gateway
listens where `PORT` says and the others where their own variables do; one over
which the auth service panics, and in which the wallet service listens at the
address of the auth service; one that no service accepts; and one whose number of
connections is 0 as an `int32` (`HalfRange` stands for 2^31). The addresses of
the backends are constants in the gateway (`stripPrefixAndProxy` for 8081 and
8082), whatever the variables of the backends say: in the second environment
`/wallet/` gets 502 from a gateway that looks in the wrong place, and
`/auth/deposit` reaches the wallet. The properties hold there too.
`EnvsAssumption` only rules out that the gateway is its own backend. Symmetry is over calls only, and not used in liveness runs. `CHECK_DEADLOCK` is
off only in the verifier's runs, where the loop ends with the process.

Fairness. `AllAnswered` assumes that each call is scheduled (a goroutine is)
and that Postgres answers: weak fairness of the disjunction of the statements
of one call. Weak is enough because a row, key or connection is only waited
for while a call that will return holds it. Failing statements are never
assumed. The verifier has weak fairness of its loop and of the ticker, and
strong fairness of `SelectDone`: Go's `select` chooses at random among ready
cases, so it cannot take the tick for ever. `SignalEnds` assumes that each
process makes its steps, that the verifier's goroutine is scheduled, and that a
connection that is out comes back (a statement ends, or its context does).
Nothing is assumed of requests: a body may never arrive and a handler may never
answer, which is what the limit of `Shutdown` is for; without it the run fails.
`AcceptedIsAnswered` rests on weak fairness of the gateway's goroutine of each
request (`Proxy`) and of the connections its handler holds (`End`). It assumes,
for the request it speaks of and inside the property, that the backend's handler
returns (`Returns`: strong fairness of `Respond`, because a handler makes
finitely many transactions); no fairness of `LifecycleSpec` says so, and a body
that never arrives is exempted by `Waiting`.

## 4. What is proved

All theorems hold for every set of users, system accounts, calls and keys,
every pool size, width of balances and order of account ids, from the `ASSUME`s
beside the constants (owners of the two kinds are disjoint, `NoKey` is no key,
the order of ids is strict, arguments have the types of the Go parameters).

*Invariant* (`Spec => []IInv`). The properties are not inductive alone:
`NoOverdraft` needs that the funds checked are still there at `COMMIT`
(`FundsReserved`), which needs that the balance read is current while the row
is locked (`SeenIsCurrent`, `LocksHeld`, `LocksExclusive`); `KeyPostedOnce`
needs that a key in flight is in no committed row and in flight once
(`StagedKeysFresh`); `FallbackFinds` needs that whoever gave up on a key left
a committed row behind (`DuplicateIsCommitted`). Each conjunct has a lemma
`<Conjunct>Step`, with one step per action that can disturb it.
`TypeCorrect`, `NeverOverdrawn`, `FundsStayReserved`, `PostedOnce`,
`AnswersAreTrue`, `FallbackAlwaysFinds` and `NothingLeaks` follow.

*TransferImplementsLedger*. Only `COMMIT` changes the postings, by exactly one
(`CommitPosts`, from `PostingsExact`: the postings of the tables are those of
the calls whose transaction is committed); every other step is an opening of
an account or a stutter.

*DeadlockFree*. In a state of `IInv` a call that waits for a connection or its
first row holds nothing others wait for; one that waits for a key waits for a
call that writes and waits for nothing; calls that wait for their second row
wait in ascending order of ids. A cycle would be a finite set of ids without a
greatest.

*The audits*. A sum over a set of rows is a recursive function, so its laws
(`SumAdd`, `SumRemove`, `SumUpdate`, `TotalMove`, ...) are proved by induction
over the size of a finite set, with the induction principle stated of sets
instead of predicates (`SetInduction`). From them, `AccountSumPost` and
`UnbalancedPost` say what a posting does to the queries. `AuditClean` is not
inductive: `AuditInv` says that every balance is the sum of its entries, also
of an account that has no row yet (it counts as 0, so that opening it adds
nothing), and that the balances add up to zero; with `IInv`, which says what
`COMMIT` writes, it is (`AuditInvariant`, `TablesAuditClean`). Every
transaction balances because `IInv` says which entries it has. The seeded rows
are finitely many (`SystemsAssumption`); users may be any set.

*The verifier beside Transfer.* `VerifierBesideTransfer` composes the two: a
step of the loop is one of Verifier's and leaves the tables alone; each
`COMMIT` is a `Post`; every other step leaves alone what the verifier reads;
and there is never a `Corrupt`. With `NeverCriesWolf` of the instance it follows
that the verifier never logs a violation over what the callers of Transfer, or
the handlers, do (`NoAlarmBesideTransfer`, `NoAlarmBesideService`), for finitely
many users.

*The verifier* (`VerifierSpec => []VerifierInv`), for every finite set of
accounts (they are rows, `AccountsAssumption`), any transfers, any number of
failed queries. `LedgerTells` is the heart: before a corruption the three
queries find nothing, after it an account stays drifted for ever, since a
transfer moves a balance and the sum of its entries alike (`CorruptionStays`).
`ReportTells` carries this through a run, whose queries look at three different
states: what it has found was there to be found, and a run that began after the
corruption has found it at its second query. `NeverCriesWolf` follows, and
`OkIsSound` under the hypothesis that no connection breaks while rows are read;
run `truncated` shows that the hypothesis is needed.

*The service*. `ServiceUsesTransfer` shows that handlers take only Transfer's
steps, which carries the theorems over (`ServiceNeverOverdrawn`,
`ServiceDeadlockFree`, `ServiceAuditClean`, `ServiceImplementsLedger`,
`NoAlarmBesideService`). `ServicePrepared` and `RefusalIsFinal` rest on an
invariant relating a handler's stage to the call it prepares. `SuccessIsTrue`
and `BalanceIsTheUsers` hold of clients that use a key for one request and its
retries (`KeysNameRequests`, a hypothesis of both; run `reuse` is what happens
without it): a 201 is the result of the handler's call (`Called`), the
transaction it names was posted for that request or an earlier try of it
(`SameRequest`), and the lookup of a replay reads the balances of its two sides
(`LookupReads`).

*History* (`HistorySpec => []HistoryInv`), for any number of transfers, any
clock and any limits. `Before` orders the entries of an account, because an
account has one entry of a transaction (`OneEntryEach`). A first and a last
entry exist by minimal cardinality, and from them follows what a page is
(`PageOf`: the first `limit` entries, and whether there are more). The invariant
says where the cursor stands (`CursorStands`): at the last entry listed, with an
entry behind it, and with everything that has to be listed either listed or
behind it. A commit between two pages may add an entry on either side of the
cursor, and changes none of this (`MoreEntries`).

*Auth* (`AuthSpec => []AuthInv`), for every set of calls, addresses, spellings,
passwords, lifetimes and every length of the clock. `RegisteredOnce` comes from
`OneAccountPerAddress`, with `UserRows` tying a row to the request that made
it; `LoginIsRight` from `Authenticated` and `LoginRefused`, where the second
needs that a row stays as it was committed until its user is deleted. `SpentIsFinal` needs that a
spent token stays revoked (`SpentIsDead`): a row is inserted by a call that has
not been answered yet, and clients only present tokens of calls that have been,
so no insert can bring a presented token back; a call that arrives after the
spending was answered then finds nothing (`LateIsStopped`). `RefusalExplained`
needs that a token that was handed out is in the table, active unless someone
used it, expired or lost its user (`HandedOut`). `AuthTypeCorrect`,
`AddressesAreUnique`, `LoginsAreRight`, `SpentTokensAreFinal`,
`AcceptedTokensAreLive`, `RefusalsAreExplained`, `RotationHolds` and
`TokensKeepUsers` follow. In `AuthImplementsSessions` the step to explain is the
`Store` of a refresh, which ran its lookup and its revocation long before: its
user exists (the foreign key), so the row of the token it was sent is still
there (`HandedOut`), of the same user, and revoked by now (`SpentIsDead`); the
token it stores continues a spent one (`StoreContinues`).

*Lifecycle* (`LifecycleSpec => []LifecycleInv`), for every set of environments,
of requests and paths. The invariant says that only a process that lives is
occupied (`OccupiesTheLiving`), that a process that leaves with 0 has no active
handler (`CleanReturn`), that a request is cut, or refused a connection, only by
a process that is over its limit (`BrokenOverTheLimit`), that it is at one
backend at most (`AtOneBackend`), and that it is at none any more from the moment
its round trip has failed (`FailedIsOver`, which with `NamesBackend` also says
that such a request is not accepted again). The step that matters is
`RoundTripFails` over a connection that broke: the backend has exited, so
nothing in it is active, because `pool.Close` has waited for its transactions
(`ExitCuts`); and a backend that starts later is not asked. `LifecycleTypeCorrect`,
`CleanExitsAreClean` and `UnavailableMeansOver` follow.

`Watched` has no run of its own (TLC does not evaluate a step of the instance in
which a constant stands for `corrupted`): its two halves are the runs `transfer`
and `verifier`.

Only model-checked: what needs fairness (`AllAnswered`, `CorruptionReported`,
`LoopStops`, `AcceptedIsAnswered`, `SignalEnds`), since TLAPS does not reason about `ENABLED`. Every
invariant and action property of the passing runs is stated by a theorem.

## 5. Findings

1. *A retried withdrawal can be refused after it was made* (`refusal`): funds
   are checked before the key is inserted (`repo.go:118`), so of two
   withdrawals that race on a key, the one that locks the account second is
   judged on the balance the first has left and answers 402.
2. *A replay is not the original result* (`replay`): `findByKey` reads the
   balances of now (`repo.go:242`) where the comment promises the original
   result.
3. *A key used again for another kind of request* (`reuse`) reports the balance
   of the system account.
4. *A broken connection can make the verifier log ok* (`truncated`):
   `rows.Err()` is never asked in `Run`.

Besides: every deposit and withdrawal locks the row of the account `external`,
so in the deployed service money movements are serialised by that row, and the
wait on a key only matters to callers that move money between other accounts.
And a corruption that takes the sum of an account's entries out of the range of
an `int64` is never reported as one: `rows.Scan` fails on it (`verifier.go:86`),
and each run logs an error instead. `CorruptionReported` exempts this case.

## 6. Not modelled

Currencies (the schema allows one), metadata and kinds of transactions, the
wording of responses and logs, and the skeleton services. The cryptography of
passwords and tokens is taken as ideal: a hash is verified by the password it
was made of (the salt included), a signature by its signer, and the parsing of
encoded hashes and tokens is left out. The clocks of the auth service and of
its database are one clock. Of the processes, `/healthz` and `/readyz`, headers,
and the lifetimes of idle connections are left out; so are clients that hang up
on the gateway (nobody reads what it answers them) and processes that are killed
or crash after `Start`: an `Exit` is a return of `run`. Postgres is taken at its
documented behaviour; crashes of the database are failures of statements here,
its durability is not modelled. When the context of a call is cancelled its
deferred `Rollback` closes the connection, and the server may give up the locks
a moment after the call has returned; the models give up everything at once.

`ParseAddress` (`user/handler.go:88`) also accepts an address with a display
name, which is stored as it was typed: to the database, and here, that is
another address. The `exp` of an access token is cut to whole seconds
(`token.go:76`), which is finer than the model's clock. Two refreshes that overlap,
a logout beside a refresh, a refresh that fails half-way and a response that is
lost (`user/handler.go:214`, `220`, `248`) have outcomes that the properties of
Auth allow and explain, not exclude.

Every kind of `Corrupt` leaves an account whose balance is not the sum of its
entries, so query 2 alone would see it: `CorruptionReported` says nothing of
queries 1 and 3 taken singly.

`RequireAuth` is modelled once, in Auth (`Accepted`); the models of the wallet
start from a request that it has let through.

## 7. Plan

A gateway in front of Auth and WalletService, to state end to end what a client
that lost an answer may do; and the lookup of a repeated key in the abstract
Ledger, so that what a replay may report is part of the promise.
