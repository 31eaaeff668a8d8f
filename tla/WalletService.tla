---------------------------- MODULE WalletService ----------------------------
(***************************************************************************)
(* The HTTP handlers of the wallet service (handler.go): Deposit, Withdraw *)
(* and Balance.  A request prepares its call of Transfer, with statements  *)
(* of its own, makes it, and turns the result into a response.             *)
(*                                                                         *)
(* Every route is behind RequireAuth (main.go:79-82), so a request comes   *)
(* with its user.                                                          *)
(***************************************************************************)
EXTENDS Transfer

CONSTANTS
    External,   \* the system account "external"
    Http        \* the requests clients may send

HttpRequest == [kind : {"deposit", "withdraw", "balance"}, user : Users,
                amount : Bigint, key : Keys \cup {NoKey}, json : BOOLEAN]

\* Mutant: the sides of a withdrawal are swapped.
ArgsSwapped(h) ==
    [from |-> External, to |-> h.user, amount |-> h.amount, key |-> h.key]

\* The TransferParams of a request.
Args(h) ==
    [from |-> IF h.kind = "withdraw" THEN h.user ELSE External,
     to   |-> IF h.kind = "withdraw" THEN External ELSE h.user,
     amount |-> h.amount, key |-> h.key]

ASSUME HttpAssumption     == Http \subseteq HttpRequest
ASSUME ExternalAssumption == External \in Systems
ASSUME ArgsAssumption     == \A h \in Http : Args(h) \in Params

VARIABLES
    http,       \* the request each handler serves
    stage,      \* where the handler is
    reply       \* what it has written

serviceVars == <<vars, http, stage, reply>>

Stages == {"received", "insertUser", "loadUser", "loadExternal", "transfer",
           "loadBalance", "replied"}

\* status 0: nothing written yet.
Reply == [status : {0, 200, 201, 400, 402, 500}, tx : Requests \cup {NoTx},
          balance : Int]

Response(s)       == [status |-> s, tx |-> NoTx, balance |-> 0]
MoneyResponse(t, b) == [status |-> 201, tx |-> t, balance |-> b]
BalanceResponse(b)  == [status |-> 200, tx |-> NoTx, balance |-> b]

Advance(r, s) == stage' = [stage EXCEPT ![r] = s] /\ UNCHANGED reply
Write(r, v)   == /\ stage' = [stage EXCEPT ![r] = "replied"]
                 /\ reply' = [reply EXCEPT ![r] = v]
-----------------------------------------------------------------------------
ServiceInit ==
    /\ Init
    /\ http \in [Requests -> Http]
    /\ param = [r \in Requests |-> Args(http[r])]
    /\ stage = [r \in Requests |-> "received"]
    /\ reply = [r \in Requests |-> Response(0)]

\* Mutant: the sign of the amount is not checked.
AcceptableAnyAmount(h) == h.key # NoKey /\ h.json

\* Idempotency-Key header, JSON body, amount.
Acceptable(h) == h.key # NoKey /\ h.json /\ h.amount > 0

Validate(r) ==
    /\ stage[r] = "received"
    /\ \/ http[r].kind = "balance" /\ Advance(r, "loadBalance")
       \/ /\ http[r].kind # "balance"
          /\ Acceptable(http[r])
          /\ Advance(r, "insertUser")
       \/ /\ http[r].kind # "balance"
          /\ ~Acceptable(http[r])
          /\ Write(r, Response(400))
    /\ UNCHANGED <<vars, http>>

\* Mutant: the account is only looked up.
InsertUserNever(r) ==
    /\ stage[r] = "insertUser"
    /\ Advance(r, "loadExternal")
    /\ UNCHANGED <<vars, http>>

\* GetOrCreateUserAccount: INSERT ... ON CONFLICT DO NOTHING ...
InsertUser(r) ==
    /\ stage[r] = "insertUser"
    /\ ConnFree
    /\ \/ EnsureUserAccount(http[r].user)
       \/ http[r].user \in accounts /\ UNCHANGED vars
    /\ Advance(r, "loadUser")
    /\ UNCHANGED http

\* ... and SELECT.  GetSystemAccount("external") is the next statement.
LoadAccount(r, from, a, next) ==
    /\ stage[r] = from
    /\ ConnFree
    /\ \/ a \in accounts /\ Advance(r, next)
       \/ a \notin accounts /\ Write(r, Response(500))
    /\ UNCHANGED <<vars, http>>

LoadUser(r)     == LoadAccount(r, "loadUser", http[r].user, "loadExternal")
LoadExternal(r) == LoadAccount(r, "loadExternal", External, "transfer")

\* h.repo.Transfer
CallTransfer(r) ==
    /\ stage[r] = "transfer"
    /\ Step(r) \/ Fail(r)
    /\ UNCHANGED <<http, stage, reply>>

\* Mutant: both handlers report the balance of the "to" side.
ReportedBalanceTo(h, v) == v.toBalance

\* "user account is the ... side"
ReportedBalance(h, v) ==
    IF h.kind = "deposit" THEN v.toBalance ELSE v.fromBalance

\* Mutant: a failure is answered with a status of its own.
StatusUnavailable(h, e) ==
    CASE e = "none" -> 201
      [] e = "insufficientFunds" /\ h.kind = "withdraw" -> 402
      [] e = "dbError" -> 503
      [] OTHER -> 500

\* Mutant: every error of a withdrawal is reported as a refusal.
StatusAllRefused(h, e) ==
    CASE e = "none" -> 201
      [] e # "none" /\ h.kind = "withdraw" -> 402
      [] OTHER -> 500

\* Withdraw tells a refusal from a failure, Deposit does not.
Status(h, e) ==
    CASE e = "none" -> 201
      [] e = "insufficientFunds" /\ h.kind = "withdraw" -> 402
      [] OTHER -> 500

\* Mutant: a transfer that failed is tried again.
RespondRetries(r) ==
    /\ stage[r] = "transfer"
    /\ pc[r] = "done"
    /\ result[r].err = "dbError"
    /\ Goto(r, "idle")
    /\ result' = [result EXCEPT ![r] = Failure("pending")]
    /\ UNCHANGED <<tables, param, session, http, stage, reply>>

Respond(r) ==
    LET h == http[r]
        v == result[r]
        s == Status(h, v.err)
    IN  /\ stage[r] = "transfer"
        /\ pc[r] = "done"
        /\ Write(r, IF s = 201 THEN MoneyResponse(v.tx, ReportedBalance(h, v))
                               ELSE Response(s))
        /\ UNCHANGED <<vars, http>>

\* GetUserAccount: no account yet is a balance of zero.
LoadBalance(r) ==
    LET u == http[r].user
    IN  /\ stage[r] = "loadBalance"
        /\ ConnFree
        /\ Write(r, BalanceResponse(IF u \in accounts THEN balance[u] ELSE 0))
        /\ UNCHANGED <<vars, http>>

\* A statement of the handler itself fails, or its request is cancelled.
QueryFails(r) ==
    /\ stage[r] \in {"insertUser", "loadUser", "loadExternal", "loadBalance"}
    /\ Write(r, Response(500))
    /\ UNCHANGED <<vars, http>>

AllReplied ==
    /\ \A r \in Requests : stage[r] = "replied"
    /\ UNCHANGED serviceVars

Handle(r) ==
    \/ Validate(r) \/ InsertUser(r) \/ LoadUser(r) \/ LoadExternal(r)
    \/ CallTransfer(r) \/ Respond(r) \/ LoadBalance(r)

ServiceNext ==
    \/ \E r \in Requests : Handle(r) \/ QueryFails(r)
    \/ AllReplied

ServiceSpec == ServiceInit /\ [][ServiceNext]_serviceVars
-----------------------------------------------------------------------------
(***************************************************************************)
(* Properties.                                                             *)
(***************************************************************************)

ServiceTypeOK ==
    /\ http \in [Requests -> Http]
    /\ stage \in [Requests -> Stages]
    /\ reply \in [Requests -> Reply]

\* The handlers prepare their calls of Transfer well: the accounts exist, they
\* differ, and the amount is positive, so these errors (and their 500s) never
\* occur.
TransferIsPrepared ==
    \A r \in Requests : result[r].err \notin
        {"invalidAmount", "sameAccount", "accountNotFound", "keyNotFound"}

\* A 201 is the truth: the money named in the request has moved between the
\* accounts it names, in the transaction the response names, under its key.
SuccessMeansMoved ==
    \A r \in Requests : reply[r].status = 201 =>
        \E p \in Postings :
            /\ p.id = reply[r].tx
            /\ p.key = http[r].key
            /\ p.amount = http[r].amount
            /\ http[r].kind = "deposit" => p.from = External /\ p.to = http[r].user
            /\ http[r].kind = "withdraw" => p.from = http[r].user /\ p.to = External

\* A 400 or a 402 is the truth too: the request itself has moved nothing and
\* never will.
RefusalMovesNothing ==
    \A r \in Requests : reply[r].status \in {400, 402} =>
        /\ result[r].err \in {"pending", "insufficientFunds"}
        /\ \A t \in transactions : t.id # r

\* handler.go:35: "user's new balance".  The balance a deposit or a withdrawal
\* will report is, when Transfer returns, the balance of the user's account.
ReportsUserBalance ==
    [][\A r \in Requests :
        pc[r] # "done" /\ pc'[r] = "done" /\ result'[r].err = "none"
            => ReportedBalance(http[r], result'[r]) = balance'[http[r].user]
      ]_serviceVars

\* The handlers use Transfer as it is specified: what is checked and proved of
\* Transfer holds in the service.
UsesTransfer == Spec
=============================================================================
