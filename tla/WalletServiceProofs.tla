------------------------ MODULE WalletServiceProofs ------------------------
(***************************************************************************)
(* Theorems about WalletService: the handlers use Transfer as it is        *)
(* specified, so its theorems hold in the service; they prepare their      *)
(* calls so well that most of its errors cannot occur; a refusal is final; *)
(* and a success is true.                                                  *)
(***************************************************************************)
EXTENDS WalletService, AuditProofs

HttpOK ==
    /\ http \in [Requests -> Http]
    /\ stage \in [Requests -> Stages]
    /\ param = [r \in Requests |-> Args(http[r])]

\* A request that never changes, served by a handler at one of its stages.
LEMMA HttpInvariant == ServiceSpec => []HttpOK
<1>1. ServiceInit => HttpOK
  BY DEF ServiceInit, HttpOK, Stages
<1>2. HttpOK /\ [ServiceNext]_serviceVars => HttpOK'
  <2> SUFFICES ASSUME HttpOK, [ServiceNext]_serviceVars PROVE HttpOK'
    OBVIOUS
  <2> USE DEF HttpOK, Stages
  <2>1. ASSUME NEW r \in Requests, Validate(r) \/ Respond(r) \/ LoadBalance(r)
        PROVE  HttpOK'
    BY <2>1 DEF Validate, Respond, LoadBalance, Advance, Write, vars
  <2>2. ASSUME NEW r \in Requests, LoadUser(r) \/ LoadExternal(r) \/ QueryFails(r)
        PROVE  HttpOK'
    BY <2>2 DEF LoadUser, LoadExternal, LoadAccount, QueryFails, Advance, Write,
                vars
  <2>3. ASSUME NEW r \in Requests, InsertUser(r) PROVE HttpOK'
    BY <2>3 DEF InsertUser, Advance, EnsureUserAccount, vars
  <2>4. ASSUME NEW r \in Requests, CallTransfer(r) PROVE HttpOK'
    BY <2>4, ParamFixed DEF CallTransfer
  <2>5. CASE UNCHANGED serviceVars
    BY <2>5 DEF serviceVars, vars
  <2> QED
    BY <2>1, <2>2, <2>3, <2>4, <2>5 DEF ServiceNext, Handle, AllReplied
<1> QED
  BY <1>1, <1>2, PTL DEF ServiceSpec

\* Every step of the service is a step of Transfer, or invisible to it.
LEMMA ServiceStepRefines ==
  ASSUME HttpOK, [ServiceNext]_serviceVars
  PROVE  [Next]_vars
<1>1. ASSUME NEW r \in Requests, InsertUser(r) PROVE [Next]_vars
  <2>1. http[r].user \in Users
    BY HttpAssumption DEF HttpOK, HttpRequest
  <2> QED
    BY <1>1, <2>1 DEF InsertUser, Next
<1>2. ASSUME NEW r \in Requests, CallTransfer(r) PROVE [Next]_vars
  BY <1>2 DEF CallTransfer, Next
<1>3. ASSUME NEW r \in Requests,
             \/ Validate(r) \/ LoadUser(r) \/ LoadExternal(r) \/ Respond(r)
             \/ LoadBalance(r) \/ QueryFails(r)
      PROVE  UNCHANGED vars
  BY <1>3 DEF Validate, LoadUser, LoadExternal, LoadAccount, Respond,
              LoadBalance, QueryFails
<1> QED
  BY <1>1, <1>2, <1>3 DEF ServiceNext, Handle, AllReplied, serviceVars

\* The handlers use Transfer as it is specified: all that is proved of Transfer
\* (balances, keys, answers, deadlock freedom) holds in the service.
THEOREM ServiceUsesTransfer == ServiceSpec => UsesTransfer
<1>1. ServiceInit => Init
  BY DEF ServiceInit
<1>2. HttpOK /\ [ServiceNext]_serviceVars => [Next]_vars
  BY ServiceStepRefines
<1> QED
  BY <1>1, <1>2, HttpInvariant, PTL DEF ServiceSpec, UsesTransfer, Spec

\* No user of the service is ever overdrawn.
THEOREM ServiceNeverOverdrawn == ServiceSpec => []NoOverdraft
  BY ServiceUsesTransfer, NeverOverdrawn, PTL DEF UsesTransfer

\* No two requests of the service wait for each other.
THEOREM ServiceDeadlockFree == ServiceSpec => []NoCircularWait
  BY ServiceUsesTransfer, DeadlockFree, PTL DEF UsesTransfer

\* The verifier's queries find nothing in the tables the service writes.
THEOREM ServiceAuditClean == ServiceSpec => []AuditClean
  BY ServiceUsesTransfer, TablesAuditClean, PTL DEF UsesTransfer

\* Nor does the verifier raise an alarm over what the service does.
THEOREM NoAlarmBesideService ==
  ASSUME IsFiniteSet(Users), MaxFailures \in Nat, MayTruncate \in BOOLEAN
  PROVE  ServiceSpec /\ LoopSpec => [](log # "violation")
  BY ServiceUsesTransfer, NoAlarmBesideTransfer, PTL DEF UsesTransfer, WatchedSpec

\* The handlers and Transfer together do what Ledger promises.
THEOREM ServiceImplementsLedger == ServiceSpec => ImplementsLedger
  BY ServiceUsesTransfer, TransferImplementsLedger, PTL DEF UsesTransfer
-----------------------------------------------------------------------------
(***************************************************************************)
(* What a handler has established when it calls Transfer.                  *)
(***************************************************************************)
Prepared ==
    \A r \in Requests :
        /\ stage[r] # "transfer" /\ reply[r].status \in {0, 400}
              => pc[r] = "idle" /\ result[r].err = "pending"
        /\ stage[r] \in {"insertUser", "loadUser", "loadExternal", "transfer"}
              => Acceptable(http[r]) /\ reply[r].status = 0
        /\ stage[r] \in {"loadUser", "loadExternal", "transfer"}
              => http[r].user \in accounts
        /\ stage[r] = "transfer" => External \in accounts
        /\ stage[r] # "replied" => reply[r].status = 0

\* A refused request has not been posted, and one that Transfer has refused is
\* not posted either.
Refused ==
    \A r \in Requests :
        reply[r].status = 402 => result[r].err = "insufficientFunds"

\* The row of a posted transaction is that of a call that was not refused.
PostedNotRefused ==
    \A t \in transactions : result[t.id].err \in {"none", "dbError"}

\* In a step of a call whose accounts exist, differ, and whose amount is
\* positive, Transfer decides none of the errors of a bad call.
LEMMA GoodCall ==
  ASSUME IInv, NEW r \in Requests, Step(r) \/ Fail(r),
         param[r].amount > 0, param[r].from # param[r].to,
         {param[r].from, param[r].to} \subseteq accounts
  PROVE  /\ \/ result'[r] = result[r]
            \/ result'[r].err \in {"none", "dbError", "insufficientFunds"}
         /\ \A q \in Requests \ {r} : result'[q] = result[q]
<1> USE DEF IInv, TypeOK
<1>1. CASE FindByKey(r) \/ Refind(r)
  BY <1>1, LookupStep DEF Lookup, Found
<1>2. CASE Commit(r)
  BY <1>2, CommitStep DEF Failure, Found
<1>3. CASE Enter(r)
  BY <1>3, ParamsAssumption DEF Enter, Goto, TransferParams, Bigint
<1>4. CASE LockFirst(r) \/ LockSecond(r)
  <2>1. /\ Ids(param[r])[1] \in accounts
        /\ Ids(param[r])[2] \in accounts
    BY DEF Ids
  <2>2. UNCHANGED result
    BY <1>4, <2>1 DEF LockFirst, LockSecond, LockAccount
  <2> QED
    BY <2>2
<1>5. CASE CheckFunds(r) \/ UpdateFrom(r) \/ UpdateTo(r) \/ Fail(r)
  BY <1>5 DEF CheckFunds, UpdateFrom, UpdateTo, Fail, Return, Unwind, Failure
<1>6. CASE Begin(r) \/ InsertTransaction(r) \/ RollbackDuplicate(r)
           \/ InsertDebit(r) \/ InsertCredit(r) \/ DeferredRollback(r)
  BY <1>6 DEF Begin, InsertTransaction, RollbackDuplicate, InsertDebit,
              InsertCredit, InsertEntry, DeferredRollback
<1> QED
  BY <1>1, <1>2, <1>3, <1>4, <1>5, <1>6 DEF Step

\* The strengthening that TransferIsPrepared and RefusalMovesNothing need.
ServiceInv == Prepared /\ Refused /\ PostedNotRefused /\ TransferIsPrepared

LEMMA ServiceInitInv == ServiceInit => ServiceInv
  BY DEF ServiceInit, Init, ServiceInv, Prepared, Refused, PostedNotRefused,
         TransferIsPrepared, Response, Failure

\* The steps of a handler around its call of Transfer.
LEMMA HandlerStep ==
  ASSUME ServiceInv, HttpOK, reply \in [Requests -> Reply], NEW r \in Requests,
         \/ Validate(r) \/ InsertUser(r) \/ LoadUser(r) \/ LoadExternal(r)
         \/ Respond(r) \/ LoadBalance(r) \/ QueryFails(r)
  PROVE  ServiceInv'
<1> USE DEF HttpOK, ServiceInv
<1>1. /\ UNCHANGED <<transactions, result, pc, http>>
      /\ accounts \subseteq accounts'
  BY DEF Validate, InsertUser, LoadUser, LoadExternal, LoadAccount, Respond,
         LoadBalance, QueryFails, EnsureUserAccount, vars, tables
<1>2. PostedNotRefused' /\ TransferIsPrepared'
  BY <1>1 DEF PostedNotRefused, TransferIsPrepared
<1>3. CASE Validate(r) \/ LoadBalance(r) \/ QueryFails(r)
  BY <1>1, <1>2, <1>3
  DEF Prepared, Refused, Acceptable, Validate, LoadBalance, QueryFails, Advance,
      Write, Response, BalanceResponse, Reply
<1>4. CASE InsertUser(r)
  BY <1>1, <1>2, <1>4
  DEF Prepared, Refused, Acceptable, InsertUser, Advance, EnsureUserAccount
<1>5. CASE LoadUser(r) \/ LoadExternal(r)
  BY <1>1, <1>2, <1>5
  DEF Prepared, Refused, Acceptable, LoadUser, LoadExternal, LoadAccount,
      Advance, Write, Response
<1>6. CASE Respond(r)
  BY <1>1, <1>2, <1>6
  DEF Prepared, Refused, Acceptable, Respond, Write, Response, MoneyResponse,
      Status
<1> QED
  BY <1>3, <1>4, <1>5, <1>6

\* The steps of Transfer on behalf of a handler.
LEMMA CallTransferStep ==
  ASSUME IInv, IInv', ServiceInv, HttpOK, NEW r \in Requests, CallTransfer(r)
  PROVE  ServiceInv'
<1> USE DEF HttpOK, ServiceInv
<1>1. /\ UNCHANGED <<http, stage, reply>>
      /\ stage[r] = "transfer" /\ reply[r].status = 0
      /\ Step(r) \/ Fail(r)
  BY DEF CallTransfer, Prepared
<1>2. /\ pc[r] # "done"
      /\ \A q \in Requests \ {r} : pc'[q] = pc[q]
      /\ accounts \subseteq accounts'
  BY <1>1, PcStep, TablesFixed DEF IInv, tables, Commit
<1>3. /\ result'[r] = result[r]
            \/ result'[r].err \in {"none", "dbError", "insufficientFunds"}
      /\ \A q \in Requests \ {r} : result'[q] = result[q]
  <2>1. /\ Acceptable(http[r]) /\ http[r].user \in accounts
        /\ External \in accounts
    BY <1>1 DEF Prepared
  <2>2. http[r] \in HttpRequest
    BY HttpAssumption
  <2>3. /\ param[r].amount > 0 /\ param[r].from # param[r].to
        /\ {param[r].from, param[r].to} \subseteq accounts
    BY <2>1, <2>2, ExternalAssumption, OwnersAssumption
    DEF Acceptable, Args, HttpRequest
  <2> QED
    BY <1>1, <2>3, GoodCall
<1>4. Prepared'
  BY <1>1, <1>2, <1>3 DEF Prepared, Acceptable
<1>5. Refused'
  BY <1>1, <1>3 DEF Refused
<1>6. TransferIsPrepared'
  BY <1>3 DEF TransferIsPrepared
<1>7. PostedNotRefused'
  <2>1. \A t \in transactions : t.id \in Requests \ {r}
    BY <1>2 DEF IInv, TypeOK, Transaction, CommittedRows
  <2>2. CASE Commit(r)
    <3>1. transactions' = transactions \cup {Row(r)} /\ Row(r).id = r
      BY <2>2, CommitAdds DEF Row
    <3>2. result'[r].err \in {"none", "dbError"}
      BY <2>2, CommitStep DEF IInv, TypeOK, Failure, Found
    <3> QED
      BY <1>3, <2>1, <3>1, <3>2 DEF PostedNotRefused
  <2>3. CASE ~Commit(r)
    BY <1>1, <1>3, <2>1, <2>3, TablesFixed DEF PostedNotRefused, tables
  <2> QED
    BY <2>2, <2>3
<1> QED
  BY <1>4, <1>5, <1>6, <1>7

\* What a handler writes is a response.
LEMMA ReplyType == ServiceSpec => [](reply \in [Requests -> Reply])
<1> DEFINE ReplyOK == reply \in [Requests -> Reply]
<1>1. ServiceInit => ReplyOK
  BY DEF ServiceInit, Reply, Response
<1>2. IInv /\ IInv' /\ ReplyOK /\ [ServiceNext]_serviceVars => ReplyOK'
  <2> SUFFICES ASSUME IInv, ReplyOK, [ServiceNext]_serviceVars PROVE ReplyOK'
    OBVIOUS
  <2>1. ASSUME NEW r \in Requests,
               Validate(r) \/ LoadUser(r) \/ LoadExternal(r) \/ QueryFails(r)
        PROVE  ReplyOK'
    BY <2>1 DEF Validate, LoadUser, LoadExternal, LoadAccount, QueryFails,
                Advance, Write, Response, Reply
  <2>2. ASSUME NEW r \in Requests, InsertUser(r) \/ CallTransfer(r)
        PROVE  ReplyOK'
    BY <2>2 DEF InsertUser, Advance, CallTransfer
  <2>3. ASSUME NEW r \in Requests, LoadBalance(r)
        PROVE  ReplyOK'
    <3>1. \A u \in accounts : balance[u] \in Int
      BY DEF IInv, TypeOK, Bigint
    <3> QED
      BY <2>3, <3>1 DEF LoadBalance, Write, BalanceResponse, Reply
  <2>4. ASSUME NEW r \in Requests, Respond(r)
        PROVE  ReplyOK'
    <3>1. /\ result[r].tx \in Requests \cup {NoTx}
          /\ ReportedBalance(http[r], result[r]) \in Int
      BY DEF IInv, TypeOK, Result, ReportedBalance
    <3>2. Status(http[r], result[r].err) \in {201, 402, 500}
      BY DEF Status
    <3> QED
      BY <2>4, <3>1, <3>2 DEF Respond, Write, MoneyResponse, Response, Reply
  <2> QED
    BY <2>1, <2>2, <2>3, <2>4 DEF ServiceNext, Handle, AllReplied, serviceVars
<1>3. ServiceSpec => []IInv
  BY ServiceUsesTransfer, Invariant, PTL DEF UsesTransfer
<1> QED
  BY <1>1, <1>2, <1>3, PTL DEF ServiceSpec

LEMMA ServiceInvariant == ServiceSpec => []ServiceInv
<1> DEFINE ReplyOK == reply \in [Requests -> Reply]
<1>1. /\ IInv /\ IInv' /\ HttpOK /\ ReplyOK /\ ServiceInv
      /\ [ServiceNext]_serviceVars
      => ServiceInv'
  <2> SUFFICES ASSUME IInv, IInv', HttpOK, ReplyOK, ServiceInv,
                      [ServiceNext]_serviceVars
               PROVE  ServiceInv'
    OBVIOUS
  <2>1. CASE UNCHANGED serviceVars
    BY <2>1 DEF serviceVars, vars, tables, ServiceInv, Prepared, Acceptable,
                Refused, PostedNotRefused, TransferIsPrepared
  <2>2. ASSUME NEW r \in Requests, Handle(r) \/ QueryFails(r)
        PROVE  ServiceInv'
    BY <2>2, HandlerStep, CallTransferStep DEF Handle
  <2> QED
    BY <2>1, <2>2 DEF ServiceNext, AllReplied
<1>2. ServiceSpec => []IInv
  BY ServiceUsesTransfer, Invariant, PTL DEF UsesTransfer
<1> QED
  BY <1>1, <1>2, ServiceInitInv, HttpInvariant, ReplyType, PTL DEF ServiceSpec

\* A handler's call of Transfer never fails for a missing account, a bad
\* amount, equal accounts or a key that is not found.
THEOREM ServicePrepared == ServiceSpec => []TransferIsPrepared
  BY ServiceInvariant, PTL DEF ServiceInv

\* A 400 or a 402 says that nothing was moved, and nothing will be.
THEOREM RefusalIsFinal == ServiceSpec => []RefusalMovesNothing
<1>1. IInv /\ HttpOK /\ ServiceInv => RefusalMovesNothing
  <2> SUFFICES ASSUME IInv, HttpOK, ServiceInv, NEW r \in Requests,
                      reply[r].status \in {400, 402}
               PROVE  /\ result[r].err \in {"pending", "insufficientFunds"}
                      /\ \A t \in transactions : t.id # r
    BY DEF RefusalMovesNothing
  <2>1. CASE reply[r].status = 400
    <3>1. pc[r] = "idle" /\ result[r].err = "pending"
      BY <2>1 DEF ServiceInv, Prepared
    <3> QED
      BY <3>1 DEF IInv, CommittedRows
  <2>2. CASE reply[r].status = 402
    BY <2>2 DEF ServiceInv, Refused, PostedNotRefused
  <2> QED
    BY <2>1, <2>2
<1>2. ServiceSpec => []IInv
  BY ServiceUsesTransfer, Invariant, PTL DEF UsesTransfer
<1> QED
  BY <1>1, <1>2, HttpInvariant, ServiceInvariant, PTL

\* What the handlers keep is well formed: a request that never changes, a stage,
\* and a response of one of the forms they write.
THEOREM ServiceTypeCorrect == ServiceSpec => []ServiceTypeOK
<1>1. HttpOK /\ reply \in [Requests -> Reply] => ServiceTypeOK
  BY DEF HttpOK, ServiceTypeOK
<1> QED
  BY <1>1, HttpInvariant, ReplyType, PTL

-----------------------------------------------------------------------------
(***************************************************************************)
(* Success.  What a 201 and the balance in it say is true of clients that  *)
(* use a key for one request and its retries.                              *)
(***************************************************************************)

\* A request that is passed on to Transfer.
Money(h) == h.kind # "balance" /\ Acceptable(h)

KeysNameRequests ==
    \A g, h \in Http : Money(g) /\ Money(h) /\ g.key = h.key =>
        g.kind = h.kind /\ g.user = h.user /\ g.amount = h.amount

\* A call has no result before it returns.
Undecided == \A r \in Requests : pc[r] # "done" => result[r].err # "none"

\* Only a request for money calls Transfer, and a 201 is the result of its call.
Called ==
    \A r \in Requests :
        /\ \/ stage[r] \in {"insertUser", "loadUser", "loadExternal", "transfer"}
           \/ pc[r] # "idle"
           => Money(http[r])
        /\ reply[r].status = 201 =>
              pc[r] = "done" /\ result[r].err = "none" /\ result[r].tx = reply[r].tx

LEMMA UndecidedInvariant == Spec => []Undecided
<1>1. Init => Undecided
  BY DEF Init, Undecided, Failure
<1>2. IInv /\ Undecided /\ [Next]_vars => Undecided'
  <2> SUFFICES ASSUME IInv, Undecided, [Next]_vars PROVE Undecided'
    OBVIOUS
  <2> USE DEF Undecided, IInv, TypeOK
  <2>1. ASSUME NEW r \in Requests, Step(r) \/ Fail(r) PROVE Undecided'
    <3>1. \A q \in Requests \ {r} : pc'[q] = pc[q]
      BY <2>1, PcStep
    <3>2. CASE FindByKey(r) \/ Refind(r)
      BY <3>1, <3>2 DEF FindByKey, Refind, Return, Goto
    <3>3. CASE Commit(r)
      BY <3>1, <3>3 DEF Commit, Return, Goto
    <3>4. CASE ~FindByKey(r) /\ ~Refind(r) /\ ~Commit(r)
      BY <2>1, <3>1, <3>4, ErrorStep, PcStep DEF Failure
    <3> QED
      BY <3>2, <3>3, <3>4
  <2>2. ASSUME NEW u \in Users, EnsureUserAccount(u) PROVE Undecided'
    BY <2>2 DEF EnsureUserAccount
  <2>3. CASE UNCHANGED vars
    BY <2>3 DEF vars
  <2> QED
    BY <2>1, <2>2, <2>3 DEF Next, Terminated
<1> QED
  BY <1>1, <1>2, Invariant, PTL DEF Spec

\* No step of a call changes the result of another.
LEMMA ResultFixed ==
  ASSUME IInv, NEW r \in Requests, Step(r) \/ Fail(r)
  PROVE  \A q \in Requests \ {r} : result'[q] = result[q]
<1> USE DEF IInv, TypeOK
<1>1. CASE FindByKey(r) \/ Refind(r)
  BY <1>1, LookupStep
<1>2. CASE Commit(r)
  BY <1>2, CommitStep
<1>3. CASE ~FindByKey(r) /\ ~Refind(r) /\ ~Commit(r)
  BY <1>3, ErrorStep
<1> QED
  BY <1>1, <1>2, <1>3

LEMMA CalledInvariant == ServiceSpec => []Called
<1> DEFINE ReplyOK == reply \in [Requests -> Reply]
<1>1. ServiceInit => Called
  BY DEF ServiceInit, Init, Called, Response
<1>2. /\ IInv /\ HttpOK /\ ReplyOK /\ ServiceInv /\ Called
      /\ [ServiceNext]_serviceVars
      => Called'
  <2> SUFFICES ASSUME IInv, HttpOK, ReplyOK, ServiceInv, Called,
                      [ServiceNext]_serviceVars
               PROVE  Called'
    OBVIOUS
  <2> USE DEF HttpOK, Called
  <2>1. ASSUME NEW r \in Requests, CallTransfer(r) PROVE Called'
    <3>1. /\ UNCHANGED <<http, stage, reply>>
          /\ stage[r] = "transfer" /\ reply[r].status = 0
          /\ Step(r) \/ Fail(r)
      BY <2>1 DEF CallTransfer, ServiceInv, Prepared
    <3>2. \A q \in Requests \ {r} : pc'[q] = pc[q] /\ result'[q] = result[q]
      BY <3>1, PcStep, ResultFixed DEF IInv
    <3> QED
      BY <3>1, <3>2 DEF Money, Acceptable
  <2>2. ASSUME NEW r \in Requests, Validate(r) \/ LoadBalance(r) \/ QueryFails(r)
        PROVE  Called'
    BY <2>2 DEF Validate, LoadBalance, QueryFails, Advance, Write, Response,
                BalanceResponse, Reply, Money, Acceptable, vars
  <2>3. ASSUME NEW r \in Requests, InsertUser(r) PROVE Called'
    BY <2>3 DEF InsertUser, Advance, EnsureUserAccount, Money, Acceptable, vars
  <2>4. ASSUME NEW r \in Requests, LoadUser(r) \/ LoadExternal(r) PROVE Called'
    BY <2>4 DEF LoadUser, LoadExternal, LoadAccount, Advance, Write, Response,
                Money, Acceptable, vars
  <2>5. ASSUME NEW r \in Requests, Respond(r) PROVE Called'
    <3>1. Status(http[r], result[r].err) = 201 => result[r].err = "none"
      BY DEF Status
    <3> QED
      BY <2>5, <3>1 DEF Respond, Write, MoneyResponse, Response, Money, Acceptable, vars
  <2>6. CASE UNCHANGED serviceVars
    BY <2>6 DEF serviceVars, vars, Money, Acceptable
  <2> QED
    BY <2>1, <2>2, <2>3, <2>4, <2>5, <2>6 DEF ServiceNext, Handle, AllReplied
<1>3. ServiceSpec => []IInv
  BY ServiceUsesTransfer, Invariant, PTL DEF UsesTransfer
<1> QED
  BY <1>1, <1>2, <1>3, HttpInvariant, ReplyType, ServiceInvariant, PTL DEF ServiceSpec

\* The committed transaction of a request's key is that of the request, or of one
\* that asked for the same.
LEMMA SameRequest ==
  ASSUME KeysNameRequests, IInv, HttpOK, Called, NEW r \in Requests,
         Money(http[r]), NEW t \in transactions, t.key = http[r].key
  PROVE  /\ t.id \in Requests
         /\ param[t.id].key = http[r].key
         /\ param[t.id].from = param[r].from /\ param[t.id].to = param[r].to
         /\ param[t.id].amount = http[r].amount
<1>1. /\ t.id \in Requests /\ pc[t.id] = "done"
      /\ t.key = param[t.id].key
  BY DEF IInv, TypeOK, Transaction, CommittedRows, Row
<1>2. Money(http[t.id])
  BY <1>1 DEF Called
<1>3. /\ param[t.id] = Args(http[t.id]) /\ param[r] = Args(http[r])
      /\ http[t.id] \in Http /\ http[r] \in Http
  BY <1>1 DEF HttpOK
<1>4. param[t.id].key = http[t.id].key
  BY <1>3 DEF Args
<1>5. /\ http[t.id].kind = http[r].kind /\ http[t.id].user = http[r].user
      /\ http[t.id].amount = http[r].amount
  BY <1>1, <1>2, <1>3, <1>4 DEF KeysNameRequests
<1> QED
  BY <1>1, <1>3, <1>5 DEF Args

\* A 201 is the truth: the money has moved as the request asked, in the
\* transaction that the response names.
THEOREM SuccessIsTrue ==
  ASSUME KeysNameRequests
  PROVE  ServiceSpec => []SuccessMeansMoved
<1>1. IInv /\ HttpOK /\ Called => SuccessMeansMoved
  <2> SUFFICES ASSUME IInv, HttpOK, Called, NEW r \in Requests, reply[r].status = 201
               PROVE  \E p \in Postings :
                         /\ p.id = reply[r].tx
                         /\ p.key = http[r].key
                         /\ p.amount = http[r].amount
                         /\ http[r].kind = "deposit" => p.from = External /\ p.to = http[r].user
                         /\ http[r].kind = "withdraw" => p.from = http[r].user /\ p.to = External
    BY DEF SuccessMeansMoved
  <2>1. /\ result[r].err = "none" /\ result[r].tx = reply[r].tx
        /\ Money(http[r])
    BY DEF Called
  <2>2. PICK t \in transactions : t.id = reply[r].tx /\ t.key = param[r].key
    BY <2>1 DEF IInv, AnswersNamePosting
  <2>3. param[r] = Args(http[r])
    BY DEF HttpOK
  <2>4. t.key = http[r].key
    BY <2>2, <2>3 DEF Args
  <2>5. /\ t.id \in Requests
        /\ param[t.id].key = http[r].key
        /\ param[t.id].from = param[r].from /\ param[t.id].to = param[r].to
        /\ param[t.id].amount = http[r].amount
    BY <2>1, <2>4, SameRequest
  <2> DEFINE p == PostingBy(t.id)
  <2>6. p \in Postings
    BY PostingsExact
  <2>7. /\ p.id = t.id /\ p.key = param[t.id].key
        /\ p.from = param[t.id].from /\ p.to = param[t.id].to
        /\ p.amount = param[t.id].amount
    BY DEF PostingBy, PostingOf, Row, DebitEntry, CreditEntry, Entry
  <2>8. /\ http[r].kind = "deposit" => param[r].from = External /\ param[r].to = http[r].user
        /\ http[r].kind = "withdraw" => param[r].from = http[r].user /\ param[r].to = External
    BY <2>3 DEF Args
  <2> HIDE DEF p
  <2> QED
    BY <2>2, <2>5, <2>6, <2>7, <2>8
<1>2. ServiceSpec => []IInv
  BY ServiceUsesTransfer, Invariant, PTL DEF UsesTransfer
<1> QED
  BY <1>1, <1>2, HttpInvariant, CalledInvariant, PTL

\* The lookup by key reads the balances of the two sides of the transaction.
LEMMA LookupReads ==
  ASSUME IInv, NEW t \in transactions
  PROVE  Lookup(t) = Found(t.id, balance[param[t.id].from], balance[param[t.id].to])
<1> USE DEF IInv, TypeOK
<1>1. t.id \in Requests /\ ValidParam(t.id)
      /\ DebitEntry(t.id) \in entries /\ CreditEntry(t.id) \in entries
  BY DEF Transaction, CommittedRows
<1>2. param[t.id].amount \in Int /\ param[t.id].amount > 0
  BY <1>1, ParamsAssumption DEF TransferParams, Bigint, ValidParam
<1>3. /\ DebitEntry(t.id).tx = t.id /\ DebitEntry(t.id).amount < 0
      /\ DebitEntry(t.id).account = param[t.id].from
      /\ CreditEntry(t.id).tx = t.id /\ CreditEntry(t.id).amount > 0
      /\ CreditEntry(t.id).account = param[t.id].to
  BY <1>2 DEF DebitEntry, CreditEntry, Entry
<1>4. \A e \in entries : e.tx = t.id =>
         /\ e.amount < 0 => e = DebitEntry(t.id)
         /\ e.amount > 0 => e = CreditEntry(t.id)
  BY EntriesOfTransaction
<1>5. (CHOOSE e \in entries : e.tx = t.id /\ e.amount < 0) = DebitEntry(t.id)
  BY <1>1, <1>3, <1>4
<1>6. (CHOOSE e \in entries : e.tx = t.id /\ e.amount > 0) = CreditEntry(t.id)
  BY <1>1, <1>3, <1>4
<1> QED
  BY <1>3, <1>5, <1>6 DEF Lookup

\* The balance that a response will report is the user's, as Transfer returns.
THEOREM BalanceIsTheUsers ==
  ASSUME KeysNameRequests
  PROVE  ServiceSpec => ReportsUserBalance
<1> DEFINE True(r) ==
              pc[r] # "done" /\ pc'[r] = "done" /\ result'[r].err = "none"
                => ReportedBalance(http[r], result'[r]) = balance'[http[r].user]
           Truth == \A r \in Requests : True(r)
<1>1. IInv /\ HttpOK /\ Called /\ Undecided /\ [ServiceNext]_serviceVars
      => [Truth]_serviceVars
  <2> SUFFICES ASSUME IInv, HttpOK, Called, Undecided, ServiceNext,
                      NEW r \in Requests,
                      pc[r] # "done", pc'[r] = "done", result'[r].err = "none"
               PROVE  ReportedBalance(http[r], result'[r]) = balance'[http[r].user]
    OBVIOUS
  <2>1. CallTransfer(r)
    <3>1. ASSUME NEW q \in Requests, CallTransfer(q) PROVE q = r
      BY <3>1, PcStep DEF CallTransfer, IInv
    <3>2. ASSUME NEW q \in Requests,
                 \/ Validate(q) \/ InsertUser(q) \/ LoadUser(q) \/ LoadExternal(q)
                 \/ Respond(q) \/ LoadBalance(q) \/ QueryFails(q) \/ AllReplied
          PROVE  FALSE
      BY <3>2 DEF Validate, InsertUser, LoadUser, LoadExternal, LoadAccount, Respond,
                  LoadBalance, QueryFails, AllReplied, EnsureUserAccount,
                  serviceVars, vars
    <3>3. ~AllReplied
      BY <3>2
    <3> QED
      BY <3>1, <3>2, <3>3 DEF ServiceNext, Handle
  <2>2. Step(r) \/ Fail(r)
    BY <2>1 DEF CallTransfer
  <2>3. /\ Money(http[r]) /\ http[r] \in HttpRequest
        /\ param[r] = Args(http[r])
    BY <2>1, HttpAssumption DEF Called, HttpOK, CallTransfer
  <2>4. /\ http[r].kind = "deposit" => param[r].to = http[r].user
        /\ http[r].kind # "deposit" => param[r].from = http[r].user
    BY <2>3 DEF Args, Money, HttpRequest
  <2>5. CASE Commit(r)
    <3>1. result'[r] = Found(r, newFrom[r], newTo[r])
      BY <2>5, CommitStep DEF IInv, TypeOK, Failure
    <3>2. balance'[param[r].from] = newFrom[r] /\ balance'[param[r].to] = newTo[r]
      <4>1. param[r].from # param[r].to
        BY <2>5, CommitAdds DEF ValidParam
      <4>2. param[r].from \in Account /\ param[r].to \in Account
        BY ParamsAssumption DEF IInv, TypeOK, TransferParams
      <4> QED
        BY <2>5, <4>1, <4>2 DEF Commit, Publish, IInv, TypeOK
    <3> QED
      BY <2>4, <3>1, <3>2 DEF ReportedBalance, Found
  <2>6. CASE FindByKey(r) \/ Refind(r)
    <3>1. \E t \in transactions : t.key = param[r].key /\ result'[r] = Lookup(t)
      <4>1. result[r].err # "none"
        BY DEF Undecided
      <4>2. result' # result
        BY <4>1
      <4> QED
        BY <2>6, <4>2, LookupStep DEF IInv, TypeOK
    <3>2. PICK t \in transactions : t.key = param[r].key /\ result'[r] = Lookup(t)
      BY <3>1
    <3>3. t.key = http[r].key
      BY <2>3, <3>2 DEF Args
    <3>4. param[t.id].from = param[r].from /\ param[t.id].to = param[r].to
      BY <2>3, <3>3, SameRequest
    <3>5. result'[r] = Found(t.id, balance[param[r].from], balance[param[r].to])
      BY <3>2, <3>4, LookupReads
    <3>6. balance' = balance
      BY <2>6 DEF FindByKey, Refind, tables
    <3> QED
      BY <2>4, <3>5, <3>6 DEF ReportedBalance, Found
  <2>7. CASE ~Commit(r) /\ ~FindByKey(r) /\ ~Refind(r)
    <3>1. result[r].err # "none"
      BY DEF Undecided
    <3> QED
      BY <2>2, <2>7, <3>1, ErrorStep DEF IInv, TypeOK, Failure
  <2> QED
    BY <2>5, <2>6, <2>7
<1>2. ServiceSpec => []IInv
  BY ServiceUsesTransfer, Invariant, PTL DEF UsesTransfer
<1>3. ServiceSpec => []Undecided
  BY ServiceUsesTransfer, UndecidedInvariant, PTL DEF UsesTransfer
<1> QED
  BY <1>1, <1>2, <1>3, HttpInvariant, CalledInvariant, PTL
  DEF ServiceSpec, ReportsUserBalance
=============================================================================
