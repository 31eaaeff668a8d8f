----------------------------- MODULE Lifecycle ------------------------------
(***************************************************************************)
(* The processes: how the gateway and the two services behind it start,    *)
(* serve, and stop at a signal (the run functions of their main.go), and   *)
(* the requests that pass through them meanwhile.                          *)
(*                                                                         *)
(* A handler of a backend reads its request, is in and out of database     *)
(* transactions, and answers; what it does there is Transfer,              *)
(* WalletService and Auth.                                                 *)
(***************************************************************************)
EXTENDS Config

CONSTANTS
    Envs,       \* environments the services are started in
    Requests,
    Paths       \* what clients ask the gateway for

Backends == {"auth", "wallet"}

\* The addresses in stripPrefixAndProxy's two calls.
Upstream == [auth |-> 8081, wallet |-> 8082]

Operations ==
    [auth   |-> {"register", "login", "refresh", "logout", "me"},
     wallet |-> {"deposit", "withdraw", "balance", "transactions"}]

\* The gateway does not listen where it looks for a backend: it would send its
\* requests to itself.  Backends may listen anywhere, also in each other's place.
ASSUME EnvsAssumption ==
    \A env \in Envs, b \in Backends :
        Loads(env, "gateway") => Port(env, "gateway") # Upstream[b]

VARIABLES
    env,
    phase,      \* of each process
    code,       \* its exit code
    signalled,  \* SIGINT or SIGTERM has come: ctx is done
    verifier,   \* the goroutine of the wallet service
    path,       \* what each request asks for, as <<prefix, operation>>
    hop,        \* where it is, in each process
    answer      \* what its client has got

vars == <<env, phase, code, signalled, verifier, path, hop, answer>>

NoPath == <<"", "">>

\* Failing: ListenAndServe has returned an error.  Closing: run has returned and
\* its deferred calls are made.
Phases == {"off", "starting", "serving", "failing", "draining", "closing", "exited"}
PoolOpen(s) == phase[s] \in {"serving", "failing", "draining"}
Alive(s)    == PoolOpen(s) \/ phase[s] = "closing"

\* A request occupies a handler: of the gateway, until and after its round trip
\* to a backend has failed; or of a backend.
Active == {"proxied", "failed", "reading", "running", "inTx"}
\* Refused: the handler got no connection and answers 500.
Done   == {"answered", "refused"}
Hops   == Active \cup Done \cup {"none", "cut"}

\* A connection of the pool is out.
InUse(s) == \/ \E r \in Requests : hop[r][s] = "inTx"
            \/ s = "wallet" /\ verifier = "running"

LifecycleInit ==
    /\ env \in Envs
    /\ phase     = [s \in Service |-> "off"]
    /\ code      = [s \in Service |-> 0]
    /\ signalled = [s \in Service |-> FALSE]
    /\ verifier  = "off"
    /\ path      = [r \in Requests |-> NoPath]
    /\ hop       = [r \in Requests |-> [s \in Service |-> "none"]]
    /\ answer    = [r \in Requests |-> 0]
-----------------------------------------------------------------------------
Enter(s, p)   == phase' = [phase EXCEPT ![s] = p]
Return(s, p, c) == Enter(s, p) /\ code' = [code EXCEPT ![s] = c]

\* config.Load, and from then on signals are caught.  A panic ends the process
\* with the 2 of the runtime, past main's exit.
Start(s) ==
    /\ phase[s] = "off"
    /\ \/ Loads(env, s) /\ Enter(s, "starting") /\ UNCHANGED code
       \/ Panics(env, s) /\ Return(s, "exited", 2)
       \/ ~Loads(env, s) /\ ~Panics(env, s) /\ Return(s, "exited", 1)
    /\ UNCHANGED <<env, signalled, verifier, path, hop, answer>>

\* postgres.New fails: a bad MaxConns, no answer to the ping, or ctx is done.
ConnectFails(s) ==
    /\ phase[s] = "starting"
    /\ s \in Backends
    /\ Return(s, "exited", 1)
    /\ UNCHANGED <<env, signalled, verifier, path, hop, answer>>

\* The pool is open, the verifier is started, and the listener is, if it can be.
Listen(s) ==
    LET free == \A q \in Service : phase[q] = "serving" => Port(env, q) # Port(env, s)
    IN  /\ phase[s] = "starting"
        /\ s \in Backends => ~signalled[s] /\ MaxConns(env) > 0
        /\ verifier' = IF s = "wallet" THEN "waiting" ELSE verifier
        /\ \/ free /\ Enter(s, "serving")
           \/ Enter(s, "failing")
        /\ UNCHANGED <<env, code, signalled, path, hop, answer>>

\* Later signals are swallowed, since stop is the last of the deferred calls.
Signal(s) ==
    /\ phase[s] \in {"starting", "serving", "failing"}
    /\ ~signalled[s]
    /\ signalled' = [signalled EXCEPT ![s] = TRUE]
    /\ UNCHANGED <<env, phase, code, verifier, path, hop, answer>>

\* <-errCh
ListenFails(s) ==
    /\ phase[s] = "failing"
    /\ Return(s, "closing", 1)
    /\ UNCHANGED <<env, signalled, verifier, path, hop, answer>>

\* <-ctx.Done(), which select may prefer to an error; srv.Shutdown closes the
\* listener ...
Shutdown(s) ==
    /\ phase[s] \in {"serving", "failing"}
    /\ signalled[s]
    /\ Enter(s, "draining")
    /\ UNCHANGED <<env, code, signalled, verifier, path, hop, answer>>

\* Mutant: srv.Close instead of srv.Shutdown.
HandlersDoneAtOnce(s) == TRUE

HandlersDone(s) == \A r \in Requests : hop[r][s] \notin Active

\* ... waits for the handlers ...
Drained(s) ==
    /\ phase[s] = "draining"
    /\ HandlersDone(s)
    /\ Return(s, "closing", 0)
    /\ UNCHANGED <<env, signalled, verifier, path, hop, answer>>

\* Mutant: the context of Shutdown has no deadline.
OverdueNever(s) == FALSE /\ UNCHANGED vars

\* ... for ten seconds.
Overdue(s) ==
    /\ phase[s] = "draining"
    /\ Return(s, "closing", 1)
    /\ UNCHANGED <<env, signalled, verifier, path, hop, answer>>

\* Mutant: the pool is not closed.
ClosedAtOnce(s) == TRUE

\* defer pool.Close() waits for the connections that are out.
Closed(s) == ~InUse(s)

\* main returns: what the process was still doing ends, but for a transaction,
\* which the database would end in its own time.
Exit(s) ==
    /\ phase[s] = "closing"
    /\ Closed(s)
    /\ Enter(s, "exited")
    /\ hop' = [r \in Requests |-> IF hop[r][s] \in Active \ {"inTx"}
                                    THEN [hop[r] EXCEPT ![s] = "cut"] ELSE hop[r]]
    /\ verifier' = IF s = "wallet" /\ verifier # "running" THEN "off" ELSE verifier
    /\ UNCHANGED <<env, code, signalled, path, answer>>
-----------------------------------------------------------------------------
\* RunLoop of the verifier, as a user of connections.
VerifierRuns ==
    /\ \/ /\ verifier = "waiting" /\ PoolOpen("wallet") /\ ~signalled["wallet"]
          /\ verifier' = "running"
       \/ verifier = "running" /\ Alive("wallet") /\ verifier' = "waiting"
       \/ verifier = "waiting" /\ signalled["wallet"] /\ verifier' = "off"
    /\ UNCHANGED <<env, phase, code, signalled, path, hop, answer>>

At(r, s, h) == hop' = [hop EXCEPT ![r][s] = h]

\* The gateway accepts a request.
Accept(r, p) ==
    /\ path[r] = NoPath
    /\ phase["gateway"] = "serving"
    /\ path' = [path EXCEPT ![r] = p]
    /\ \/ p[1] \in Backends /\ At(r, "gateway", "proxied") /\ UNCHANGED answer
       \/ /\ p[1] \notin Backends
          /\ At(r, "gateway", "answered") /\ answer' = [answer EXCEPT ![r] = 404]
    /\ UNCHANGED <<env, phase, code, signalled, verifier>>

Forwarded(r) == \E s \in Backends : hop[r][s] # "none"

\* Whom a connection to the upstream's port reaches.
Reached(r) == {s \in Backends : phase[s] = "serving"
                                /\ Port(env, s) = Upstream[path[r][1]]}

\* ReverseProxy, without the prefix.
Forward(r) ==
    /\ hop[r]["gateway"] = "proxied"
    /\ ~Forwarded(r)
    /\ \E s \in Reached(r) : At(r, s, "reading")
    /\ UNCHANGED <<env, phase, code, signalled, verifier, path, answer>>

\* Mutant: the gateway tries until somebody listens.
RoundTripWaits(r) ==
    /\ hop[r]["gateway"] = "proxied"
    /\ \E s \in Backends : phase[s] = "exited" /\ hop[r][s] \notin Done \cup {"none"}
    /\ At(r, "gateway", "failed")
    /\ UNCHANGED <<env, phase, code, signalled, verifier, path, answer>>

\* Nobody listens, or the connection breaks before there is a response.
RoundTripFails(r) ==
    /\ hop[r]["gateway"] = "proxied"
    /\ \/ ~Forwarded(r) /\ Reached(r) = {}
       \/ \E s \in Backends : phase[s] = "exited" /\ hop[r][s] \notin Done \cup {"none"}
    /\ At(r, "gateway", "failed")
    /\ UNCHANGED <<env, phase, code, signalled, verifier, path, answer>>

\* A backend has read the request and its mux has found the handler, or not.
Dispatch(r, s) ==
    /\ hop[r][s] = "reading"
    /\ Alive(s)
    /\ At(r, s, IF path[r][2] \in Operations[s] THEN "running" ELSE "answered")
    /\ UNCHANGED <<env, phase, code, signalled, verifier, path, answer>>

Begin(r, s) ==
    /\ hop[r][s] = "running"
    /\ PoolOpen(s)
    /\ At(r, s, "inTx")
    /\ UNCHANGED <<env, phase, code, signalled, verifier, path, answer>>

End(r, s) ==
    /\ hop[r][s] = "inTx"
    /\ Alive(s)
    /\ At(r, s, "running")
    /\ UNCHANGED <<env, phase, code, signalled, verifier, path, answer>>

Respond(r, s) ==
    /\ hop[r][s] = "running"
    /\ Alive(s)
    /\ At(r, s, "answered")
    /\ UNCHANGED <<env, phase, code, signalled, verifier, path, answer>>

\* A connection is asked for too late.
Refuse(r, s) ==
    /\ hop[r][s] = "running"
    /\ phase[s] = "closing"
    /\ At(r, s, "refused")
    /\ UNCHANGED <<env, phase, code, signalled, verifier, path, answer>>

GatewayAnswers(r, status) ==
    /\ At(r, "gateway", "answered")
    /\ answer' = [answer EXCEPT ![r] = status]
    /\ UNCHANGED <<env, phase, code, signalled, verifier, path>>

\* Mutant: the mux answers 405 to what it does not know.
StatusNotAllowed(r, s) == IF hop[r][s] = "refused" THEN 500
                          ELSE IF path[r][2] \in Operations[s] THEN 200 ELSE 405

\* 200 stands for whatever a handler answers that has its connections.
Status(r, s) == IF hop[r][s] = "refused" THEN 500
                ELSE IF path[r][2] \in Operations[s] THEN 200 ELSE 404

\* The response of the backend is passed on.
Relay(r) ==
    /\ hop[r]["gateway"] = "proxied"
    /\ \E s \in Backends : hop[r][s] \in Done /\ GatewayAnswers(r, Status(r, s))

\* ErrorHandler, whatever has become of the backend since.
Unavailable(r) ==
    /\ hop[r]["gateway"] = "failed"
    /\ GatewayAnswers(r, 502)

Process(s) ==
    \/ Start(s) \/ ConnectFails(s) \/ Listen(s) \/ ListenFails(s)
    \/ Shutdown(s) \/ Drained(s) \/ Overdue(s) \/ Exit(s)

Proxy(r) == Forward(r) \/ RoundTripFails(r) \/ Relay(r) \/ Unavailable(r)

Handler(r, s) ==
    Dispatch(r, s) \/ Begin(r, s) \/ End(r, s) \/ Respond(r, s) \/ Refuse(r, s)

AllOver == (\A s \in Service : phase[s] = "exited") /\ UNCHANGED vars

LifecycleNext ==
    \/ \E s \in Service : Process(s) \/ Signal(s)
    \/ VerifierRuns
    \/ \E r \in Requests :
          \/ \E p \in Paths : Accept(r, p)
          \/ Proxy(r)
          \/ \E s \in Backends : Handler(r, s)
    \/ AllOver

\* A process and its goroutines make their steps, and a connection that is out
\* comes back.  That a request's body arrives (Dispatch) is nobody's promise.
Fairness ==
    /\ \A s \in Service : WF_vars(Process(s))
    /\ WF_vars(VerifierRuns)
    /\ \A r \in Requests : /\ WF_vars(Proxy(r))
                          /\ WF_vars(\E s \in Backends : End(r, s))

LifecycleSpec == LifecycleInit /\ [][LifecycleNext]_vars /\ Fairness
-----------------------------------------------------------------------------
(***************************************************************************)
(* Properties.                                                             *)
(***************************************************************************)

LifecycleTypeOK ==
    /\ env \in Envs
    /\ phase \in [Service -> Phases]
    /\ code \in [Service -> {0, 1, 2}]
    /\ signalled \in [Service -> BOOLEAN]
    /\ verifier \in {"off", "waiting", "running"}
    /\ path \in [Requests -> Paths \cup {NoPath}]
    /\ hop \in [Requests -> [Service -> Hops]]
    /\ answer \in [Requests -> {0, 200, 404, 500, 502}]

\* A process that exits with code 0 has answered every request it accepted, and
\* refused none of them a connection while it was stopping.
CleanExitAnswersAll ==
    \A s \in Service : phase[s] = "exited" /\ code[s] = 0 =>
        \A r \in Requests : hop[r][s] \in {"none", "answered"}

\* main.go:112: "backend service is unavailable".  When a client is told so, its
\* request is over: no backend runs it, or has a transaction of it open, and none
\* ever will, so that a retry never runs beside it.
UnavailableIsFinal ==
    \A r \in Requests : answer[r] = 502 =>
        \A s \in Backends : hop[r][s] \in {"none", "cut"}

\* The gateway waits for the backend, and not for the body of its request.
Waiting(r) == /\ hop[r]["gateway"] \in {"proxied", "failed"}
              /\ \A s \in Backends : hop[r][s] # "reading"

\* The handler has finitely many transactions, so it gets to its answer.
Returns(r) == SF_vars(\E s \in Backends : Respond(r, s))

\* A request that the gateway has accepted does not wait there for ever, whether
\* the backends start, stop, fail or run over their limit meanwhile, unless its
\* body never arrives or its handler never returns.
AcceptedIsAnswered == \A r \in Requests : Returns(r) => []<>~Waiting(r)

\* A signal ends its process, whatever the requests in it wait for (a signal is
\* not taken back, so this is signalled[s] ~> phase[s] = "exited").
SignalEnds == \A s \in Service : []<>(signalled[s] => phase[s] = "exited")
=============================================================================
