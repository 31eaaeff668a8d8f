--------------------------- MODULE LifecycleProofs ---------------------------
(***************************************************************************)
(* Theorems about Lifecycle: what a process leaves behind when it ends,    *)
(* and what an answer of the gateway says of it.                           *)
(***************************************************************************)
EXTENDS Lifecycle, TLAPS

\* Handlers run, and connections are out, in a living process only.
OccupiesTheLiving ==
    /\ \A r \in Requests, s \in Service : hop[r][s] \in Active => Alive(s)
    /\ verifier = "running" => Alive("wallet")

\* Shutdown has returned nil.
CleanReturn ==
    \A s \in Service : phase[s] \in {"closing", "exited"} /\ code[s] = 0 =>
        \A r \in Requests : hop[r][s] \notin Active

\* A request is broken off, or refused a connection, over the limit only.
BrokenOverTheLimit ==
    \A r \in Requests, s \in Service : hop[r][s] \in {"refused", "cut"} =>
        phase[s] \in {"closing", "exited"} /\ code[s] # 0

\* A request is at one backend at most, ...
AtOneBackend ==
    \A r \in Requests, s, t \in Backends :
        hop[r][s] # "none" /\ hop[r][t] # "none" => s = t

\* ... and only if its path names one, ...
NamesBackend ==
    \A r \in Requests :
        hop[r]["gateway"] \in {"proxied", "failed"} \/ answer[r] = 502 =>
            path[r][1] \in Backends

\* ... and at none any more when its round trip has failed.
FailedIsOver ==
    \A r \in Requests : hop[r]["gateway"] = "failed" \/ answer[r] = 502 =>
        /\ hop[r]["gateway"] # "proxied"
        /\ \A s \in Backends : hop[r][s] \in {"none", "cut"}

LifecycleInv ==
    /\ LifecycleTypeOK /\ OccupiesTheLiving /\ CleanReturn /\ BrokenOverTheLimit
    /\ AtOneBackend /\ NamesBackend /\ FailedIsOver
-----------------------------------------------------------------------------
(***************************************************************************)
(* What a step does to the requests.                                       *)
(***************************************************************************)

LEMMA MovesOne ==
  ASSUME LifecycleTypeOK, NEW r \in Requests, NEW s \in Service, NEW h \in Hops, At(r, s, h)
  PROVE  /\ hop' \in [Requests -> [Service -> Hops]]
         /\ \A q \in Requests, t \in Service :
              hop'[q][t] = IF q = r /\ t = s THEN h ELSE hop[q][t]
  BY DEF LifecycleTypeOK, At

\* Steps of a process before its end move no request.
LEMMA ProcessKeeps ==
  ASSUME NEW s \in Service, Process(s), ~Exit(s)
  PROVE  UNCHANGED <<env, signalled, path, hop, answer>>
  BY DEF Process, Start, ConnectFails, Listen, ListenFails, Shutdown, Drained, Overdue

\* The end of a process cuts what was active in it.
LEMMA ExitCuts ==
  ASSUME LifecycleTypeOK, NEW s \in Service, Exit(s)
  PROVE  /\ \A r \in Requests, t \in Service :
              hop'[r][t] = IF t = s /\ hop[r][t] \in Active THEN "cut" ELSE hop[r][t]
         /\ phase' = [phase EXCEPT ![s] = "exited"] /\ phase[s] = "closing"
         /\ verifier' = IF s = "wallet" THEN "off" ELSE verifier
         /\ UNCHANGED <<env, code, signalled, path, answer>>
<1>1. ~InUse(s) /\ phase' = [phase EXCEPT ![s] = "exited"] /\ phase[s] = "closing"
      /\ UNCHANGED <<env, code, signalled, path, answer>>
  BY DEF Exit, Closed, Enter
<1>2. \A r \in Requests : hop[r][s] # "inTx"
  BY <1>1 DEF InUse
<1>3. \A r \in Requests, t \in Service :
        hop'[r][t] = IF t = s /\ hop[r][t] \in Active \ {"inTx"} THEN "cut" ELSE hop[r][t]
  BY DEF Exit, LifecycleTypeOK
<1>4. \A r \in Requests, t \in Service :
        hop'[r][t] = IF t = s /\ hop[r][t] \in Active THEN "cut" ELSE hop[r][t]
  BY <1>2, <1>3
<1>5. verifier' = IF s = "wallet" THEN "off" ELSE verifier
  BY <1>1 DEF InUse, Exit
<1> QED
  BY <1>1, <1>4, <1>5

\* A request on its way through one process.
Moves(r, s, h) ==
    /\ At(r, s, h)
    /\ h \in Active => phase[s] = "serving" \/ hop[r][s] \in Active
    /\ h = "refused" => phase[s] = "closing" /\ hop[r][s] \in Active
    /\ Alive(s)
    /\ UNCHANGED <<env, phase, code, signalled, verifier>>

Handling(r) ==
    \/ \E p \in Paths : Accept(r, p)
    \/ Proxy(r)
    \/ \E s \in Backends : Handler(r, s)

LEMMA HandlingMoves ==
  ASSUME LifecycleTypeOK, OccupiesTheLiving, NEW r \in Requests, Handling(r)
  PROVE  \E s \in Service, h \in Hops \ {"none", "cut"} : Moves(r, s, h)
<1> USE DEF Moves, Alive, PoolOpen, Service, Backends, Hops, Active, Done
<1>1. ASSUME NEW p \in Paths, Accept(r, p)
      PROVE  Moves(r, "gateway", "proxied") \/ Moves(r, "gateway", "answered")
  BY <1>1 DEF Accept
<1>2. ASSUME hop[r]["gateway"] \in {"proxied", "failed"} PROVE Alive("gateway")
  BY <1>2 DEF OccupiesTheLiving
<1>3. ASSUME NEW status, GatewayAnswers(r, status), Alive("gateway")
      PROVE  Moves(r, "gateway", "answered")
  BY <1>3 DEF GatewayAnswers
<1>4. CASE Relay(r) \/ Unavailable(r)
  <2>1. Alive("gateway") /\ \E status : GatewayAnswers(r, status)
    BY <1>2, <1>4 DEF Relay, Unavailable
  <2> QED
    BY <1>3, <2>1
<1>5. ASSUME Forward(r) PROVE \E s \in Backends : Moves(r, s, "reading")
  BY <1>5 DEF Forward, Reached
<1>6. ASSUME RoundTripFails(r) PROVE Moves(r, "gateway", "failed")
  BY <1>2, <1>6 DEF RoundTripFails
<1>7. ASSUME NEW s \in Backends, Dispatch(r, s)
      PROVE  Moves(r, s, "running") \/ Moves(r, s, "answered")
  <2>1. At(r, s, "running") \/ At(r, s, "answered")
    BY <1>7 DEF Dispatch
  <2> QED
    BY <1>7, <2>1 DEF Dispatch
<1>8. ASSUME NEW s \in Backends, Begin(r, s) PROVE Moves(r, s, "inTx")
  BY <1>8 DEF Begin
<1>9. ASSUME NEW s \in Backends, End(r, s) PROVE Moves(r, s, "running")
  BY <1>9 DEF End
<1>10. ASSUME NEW s \in Backends, Respond(r, s) PROVE Moves(r, s, "answered")
  BY <1>10 DEF Respond
<1>11. ASSUME NEW s \in Backends, Refuse(r, s) PROVE Moves(r, s, "refused")
  BY <1>11 DEF Refuse
<1> QED
  BY <1>1, <1>4, <1>5, <1>6, <1>7, <1>8, <1>9, <1>10, <1>11 DEF Handling, Proxy, Handler

\* What a backend does with a request is nothing to the gateway.
LEMMA HandlersKeep ==
  ASSUME LifecycleTypeOK, NEW r \in Requests, NEW s \in Backends, Handler(r, s)
  PROVE  /\ hop[r][s] \in Active
         /\ \A q \in Requests, t \in Service : q # r \/ t # s => hop'[q][t] = hop[q][t]
         /\ UNCHANGED <<path, answer>>
<1>1. hop[r][s] \in Active /\ (\E h \in Hops : At(r, s, h)) /\ UNCHANGED <<path, answer>>
  BY DEF Handler, Dispatch, Begin, End, Respond, Refuse, Active, Done, Hops
<1> QED
  BY <1>1, MovesOne DEF Service, Backends
-----------------------------------------------------------------------------
(***************************************************************************)
(* The invariant is inductive.                                             *)
(***************************************************************************)

LEMMA LifecycleTypeStep ==
  ASSUME LifecycleTypeOK, OccupiesTheLiving, [LifecycleNext]_vars
  PROVE  LifecycleTypeOK'
<1>1. ASSUME NEW s \in Service, Process(s), ~Exit(s) PROVE LifecycleTypeOK'
  <2>1. UNCHANGED <<env, signalled, path, hop, answer>>
    BY <1>1, ProcessKeeps
  <2>2. /\ phase' \in [Service -> Phases] /\ code' \in [Service -> {0, 1, 2}]
        /\ verifier' \in {"off", "waiting", "running"}
    BY <1>1 DEF LifecycleTypeOK, Process, Start, ConnectFails, Listen, ListenFails, Shutdown,
       Drained, Overdue, Return, Enter, Phases
  <2> QED
    BY <2>1, <2>2 DEF LifecycleTypeOK
<1>2. ASSUME NEW s \in Service, Exit(s) PROVE LifecycleTypeOK'
  <2>1. \A r \in Requests : [hop[r] EXCEPT ![s] = "cut"] \in [Service -> Hops]
    BY DEF LifecycleTypeOK, Hops
  <2>2. hop' \in [Requests -> [Service -> Hops]]
    BY <1>2, <2>1 DEF Exit, LifecycleTypeOK
  <2>3. phase' \in [Service -> Phases]
    BY <1>2 DEF Exit, Enter, LifecycleTypeOK, Phases
  <2> QED
    BY <1>2, <2>2, <2>3 DEF Exit, LifecycleTypeOK
<1>3. ASSUME NEW r \in Requests, Handling(r) PROVE LifecycleTypeOK'
  <2>1. hop' \in [Requests -> [Service -> Hops]] /\ UNCHANGED <<env, phase, code, signalled, verifier>>
    BY <1>3, HandlingMoves, MovesOne DEF Moves
  <2>2. /\ path' \in [Requests -> Paths \cup {NoPath}]
        /\ answer' \in [Requests -> {0, 200, 404, 500, 502}]
    <3> USE DEF LifecycleTypeOK
    <3>1. CASE \E p \in Paths : Accept(r, p)
      BY <3>1 DEF Accept
    <3>2. ASSUME NEW status \in {200, 404, 500, 502}, GatewayAnswers(r, status)
          PROVE  path' = path /\ answer' \in [Requests -> {0, 200, 404, 500, 502}]
      BY <3>2 DEF GatewayAnswers
    <3>3. CASE Relay(r) \/ Unavailable(r)
      BY <3>2, <3>3 DEF Relay, Unavailable, Status
    <3>4. CASE Forward(r) \/ RoundTripFails(r)
      BY <3>4 DEF Forward, RoundTripFails
    <3>5. CASE \E s \in Backends : Handler(r, s)
      BY <3>5, HandlersKeep
    <3> QED
      BY <1>3, <3>1, <3>3, <3>4, <3>5 DEF Handling, Proxy
  <2> QED
    BY <2>1, <2>2 DEF LifecycleTypeOK
<1>4. ASSUME NEW s \in Service, Signal(s) PROVE LifecycleTypeOK'
  BY <1>4 DEF Signal, LifecycleTypeOK
<1>5. CASE VerifierRuns \/ AllOver \/ UNCHANGED vars
  BY <1>5 DEF VerifierRuns, AllOver, vars, LifecycleTypeOK
<1> QED
  BY <1>1, <1>2, <1>3, <1>4, <1>5 DEF LifecycleNext, Handling

\* What becomes of the requests in a process that stops.
LEMMA OccupancyStep ==
  ASSUME LifecycleTypeOK, OccupiesTheLiving, CleanReturn, BrokenOverTheLimit,
         [LifecycleNext]_vars
  PROVE  OccupiesTheLiving' /\ CleanReturn' /\ BrokenOverTheLimit'
<1> DEFINE Occupancy == OccupiesTheLiving /\ CleanReturn /\ BrokenOverTheLimit
<1> USE DEF OccupiesTheLiving, CleanReturn, BrokenOverTheLimit, Alive, PoolOpen
<1>0. phase \in [Service -> Phases] /\ code \in [Service -> {0, 1, 2}]
  BY DEF LifecycleTypeOK
<1>1. ASSUME NEW s \in Service, Process(s), ~Exit(s) PROVE Occupancy'
  <2>1. hop' = hop
    BY <1>1, ProcessKeeps
  <2>2. /\ \A t \in Service : t # s => phase'[t] = phase[t] /\ code'[t] = code[t]
        /\ phase[s] # "exited" /\ phase[s] # "closing"
    BY <1>0, <1>1 DEF Process, Start, ConnectFails, Listen, ListenFails, Shutdown, Drained,
       Overdue, Return, Enter
  <2>3. ~Alive(s)' => ~Alive(s) /\ (phase'[s] = "exited" => code'[s] # 0)
    BY <1>0, <1>1 DEF Process, Start, ConnectFails, Listen, ListenFails, Shutdown, Drained,
       Overdue, Return, Enter
  <2>4. phase'[s] = "closing" => code'[s] # 0 \/ HandlersDone(s)
    BY <1>0, <1>1 DEF Process, Start, ConnectFails, Listen, ListenFails, Shutdown, Drained,
       Overdue, Return, Enter
  <2>5. verifier' = "running" => verifier = "running"
    BY <1>1 DEF Process, Start, ConnectFails, Listen, ListenFails, Shutdown, Drained, Overdue
  <2>6. OccupiesTheLiving'
    <3>1. \A t \in Service : Alive(t) => Alive(t)'
      BY <2>2, <2>3
    <3> QED
      BY <2>1, <2>5, <3>1 DEF Service
  <2>7. CleanReturn'
    <3>1. SUFFICES ASSUME NEW t \in Service, phase'[t] \in {"closing", "exited"},
                          code'[t] = 0, NEW r \in Requests
                   PROVE  hop[r][t] \notin Active
      BY <2>1
    <3> QED
      BY <2>2, <2>3, <2>4, <3>1 DEF HandlersDone
  <2>8. BrokenOverTheLimit'
    BY <2>1, <2>2
  <2> QED
    BY <2>6, <2>7, <2>8
<1>2. ASSUME NEW s \in Service, Exit(s) PROVE Occupancy'
  <2>1. OccupiesTheLiving'
    <3>1. ASSUME NEW r \in Requests, NEW t \in Service, hop'[r][t] \in Active PROVE Alive(t)'
      <4>1. t # s /\ hop[r][t] \in Active
        BY <1>2, <3>1, ExitCuts DEF Active
      <4> QED
        BY <1>0, <1>2, <4>1, ExitCuts
    <3>2. ASSUME verifier' = "running" PROVE Alive("wallet")'
      <4>1. s # "wallet" /\ verifier = "running"
        BY <1>2, <3>2, ExitCuts
      <4> QED
        BY <1>0, <1>2, <4>1, ExitCuts DEF Service
    <3> QED
      BY <3>1, <3>2
  <2>2. CleanReturn' /\ BrokenOverTheLimit'
    BY <1>0, <1>2, ExitCuts DEF Active
  <2> QED
    BY <2>1, <2>2
<1>3. ASSUME NEW r \in Requests, Handling(r) PROVE Occupancy'
  <2>1. PICK s \in Service, h \in Hops \ {"none", "cut"} : Moves(r, s, h)
    BY <1>3, HandlingMoves
  <2>2. \A q \in Requests, t \in Service :
          hop'[q][t] = IF q = r /\ t = s THEN h ELSE hop[q][t]
    BY <2>1, MovesOne DEF Moves
  <2> QED
    BY <2>1, <2>2 DEF Moves
<1>4. ASSUME NEW s \in Service, Signal(s) PROVE Occupancy'
  BY <1>4 DEF Signal
<1>5. CASE VerifierRuns \/ AllOver \/ UNCHANGED vars
  BY <1>5 DEF VerifierRuns, AllOver, vars
<1> QED
  BY <1>1, <1>2, <1>3, <1>4, <1>5 DEF LifecycleNext, Handling

\* What the gateway owes to the requests whose round trip fails.
LEMMA RoundTripStep ==
  ASSUME LifecycleTypeOK, OccupiesTheLiving, AtOneBackend, NamesBackend, FailedIsOver,
         [LifecycleNext]_vars
  PROVE  AtOneBackend' /\ NamesBackend' /\ FailedIsOver'
<1> DEFINE RoundTrip == AtOneBackend /\ NamesBackend /\ FailedIsOver
<1> USE DEF AtOneBackend, NamesBackend, FailedIsOver
<1>1. ASSUME NEW s \in Service, Process(s), ~Exit(s) PROVE RoundTrip'
  BY <1>1, ProcessKeeps
<1>2. ASSUME NEW s \in Service, Exit(s) PROVE RoundTrip'
  <2>1. UNCHANGED <<path, answer>>
    BY <1>2, ExitCuts
  <2>2. \A r \in Requests, t \in Service :
          hop'[r][t] = IF t = s /\ hop[r][t] \in Active THEN "cut" ELSE hop[r][t]
    BY <1>2, ExitCuts
  <2> QED
    BY <2>1, <2>2 DEF Active, Service, Backends
<1>3. ASSUME NEW r \in Requests, NEW p \in Paths, Accept(r, p) PROVE RoundTrip'
  <2>1. NoPath[1] \notin Backends
    BY DEF NoPath, Backends
  <2>2. answer[r] # 502 /\ \A q \in Requests : path'[q] = IF q = r THEN p ELSE path[q]
    BY <1>3, <2>1 DEF Accept, LifecycleTypeOK
  <2>3. PICK h \in Hops :
          /\ At(r, "gateway", h) /\ (h = "proxied" => p[1] \in Backends)
          /\ h \in {"proxied", "answered"}
          /\ \A q \in Requests : answer'[q] = 502 => answer[q] = 502
    BY <1>3 DEF Accept, Hops, Active, Done, LifecycleTypeOK
  <2>4. \A q \in Requests, t \in Service :
          hop'[q][t] = IF q = r /\ t = "gateway" THEN h ELSE hop[q][t]
    BY <2>3, MovesOne DEF Service
  <2> QED
    BY <2>2, <2>3, <2>4 DEF Service, Backends
<1>4. ASSUME NEW r \in Requests, Forward(r) PROVE RoundTrip'
  <2>1. PICK s \in Backends : At(r, s, "reading")
    BY <1>4 DEF Forward, Reached
  <2>2. \A q \in Requests, t \in Service :
          hop'[q][t] = IF q = r /\ t = s THEN "reading" ELSE hop[q][t]
    BY <2>1, MovesOne DEF Service, Backends, Hops, Active
  <2>3. /\ hop[r]["gateway"] = "proxied" /\ (\A t \in Backends : hop[r][t] = "none")
        /\ UNCHANGED <<path, answer>>
    BY <1>4 DEF Forward, Forwarded
  <2> QED
    BY <2>2, <2>3 DEF Service, Backends
<1>5. ASSUME NEW r \in Requests, RoundTripFails(r) PROVE RoundTrip'
  <2>1. \A q \in Requests, t \in Service :
          hop'[q][t] = IF q = r /\ t = "gateway" THEN "failed" ELSE hop[q][t]
    BY <1>5, MovesOne DEF RoundTripFails, Service, Hops, Active
  <2>2. hop[r]["gateway"] = "proxied" /\ UNCHANGED <<path, answer>>
    BY <1>5 DEF RoundTripFails
  <2>3. \A s \in Backends : hop[r][s] \in {"none", "cut"}
    <3>1. CASE ~Forwarded(r)
      BY <3>1 DEF Forwarded
    <3>2. CASE \E s \in Backends : phase[s] = "exited" /\ hop[r][s] \notin Done \cup {"none"}
      <4>1. PICK s \in Backends : phase[s] = "exited" /\ hop[r][s] \notin Done \cup {"none"}
        BY <3>2
      <4>2. hop[r][s] = "cut"
        BY <4>1 DEF OccupiesTheLiving, Alive, PoolOpen, LifecycleTypeOK, Hops, Service, Backends
      <4> QED
        BY <4>2
    <3> QED
      BY <1>5, <3>1, <3>2 DEF RoundTripFails
  <2> QED
    BY <2>1, <2>2, <2>3 DEF Service, Backends
<1>6. ASSUME NEW r \in Requests, Relay(r) \/ Unavailable(r) PROVE RoundTrip'
  <2>1. PICK status : /\ GatewayAnswers(r, status)
                      /\ status = 502 => hop[r]["gateway"] = "failed"
                      /\ hop[r]["gateway"] \in {"proxied", "failed"}
    BY <1>6 DEF Relay, Unavailable, Status
  <2>2. \A q \in Requests, t \in Service :
          hop'[q][t] = IF q = r /\ t = "gateway" THEN "answered" ELSE hop[q][t]
    BY <2>1, MovesOne DEF GatewayAnswers, Service, Hops, Done
  <2>3. path' = path /\ \A q \in Requests : answer'[q] = IF q = r THEN status ELSE answer[q]
    BY <2>1 DEF GatewayAnswers, LifecycleTypeOK
  <2> QED
    BY <2>1, <2>2, <2>3 DEF Service, Backends
<1>7. ASSUME NEW r \in Requests, NEW s \in Backends, Handler(r, s) PROVE RoundTrip'
  <2>1. UNCHANGED <<path, answer>>
    BY <1>7, HandlersKeep
  <2>2. hop[r][s] \notin {"none", "cut"}
    BY <1>7, HandlersKeep DEF Active
  <2>3. \A q \in Requests, t \in Service : q # r \/ t # s => hop'[q][t] = hop[q][t]
    BY <1>7, HandlersKeep
  <2> QED
    BY <2>1, <2>2, <2>3 DEF Service, Backends
<1>8. ASSUME NEW s \in Service, Signal(s) PROVE RoundTrip'
  BY <1>8 DEF Signal
<1>9. CASE VerifierRuns \/ AllOver \/ UNCHANGED vars
  BY <1>9 DEF VerifierRuns, AllOver, vars
<1> QED
  BY <1>1, <1>2, <1>3, <1>4, <1>5, <1>6, <1>7, <1>8, <1>9 DEF LifecycleNext, Proxy
-----------------------------------------------------------------------------
(***************************************************************************)
(* Theorems.                                                               *)
(***************************************************************************)

LEMMA LifecycleInvariant == LifecycleSpec => []LifecycleInv
<1>1. LifecycleInit => LifecycleInv
  BY DEF LifecycleInit, LifecycleInv, LifecycleTypeOK, OccupiesTheLiving, CleanReturn,
     BrokenOverTheLimit, AtOneBackend, NamesBackend, FailedIsOver, Phases, Hops, Active,
     Done, Service, Backends
<1>2. LifecycleInv /\ [LifecycleNext]_vars => LifecycleInv'
  BY LifecycleTypeStep, OccupancyStep, RoundTripStep DEF LifecycleInv
<1> QED
  BY <1>1, <1>2, PTL DEF LifecycleSpec

\* The variables stay within their types: in particular a client is told nothing
\* but what the gateway and the muxes and handlers behind it write.
THEOREM LifecycleTypeCorrect == LifecycleSpec => []LifecycleTypeOK
<1>1. LifecycleInv => LifecycleTypeOK
  BY DEF LifecycleInv
<1> QED
  BY <1>1, LifecycleInvariant, PTL

\* A process that exits with code 0 has answered every request it accepted, none of
\* them for want of a connection.
THEOREM CleanExitsAreClean == LifecycleSpec => []CleanExitAnswersAll
<1>1. LifecycleInv => CleanExitAnswersAll
  BY DEF LifecycleInv, LifecycleTypeOK, CleanReturn, BrokenOverTheLimit,
     CleanExitAnswersAll, Hops, Done
<1> QED
  BY <1>1, LifecycleInvariant, PTL

\* A request that is answered 502 runs in no backend and has no transaction open,
\* then or later, wherever the services listen and however they stop.
THEOREM UnavailableMeansOver == LifecycleSpec => []UnavailableIsFinal
<1>1. LifecycleInv => UnavailableIsFinal
  BY DEF LifecycleInv, FailedIsOver, UnavailableIsFinal
<1> QED
  BY <1>1, LifecycleInvariant, PTL
=============================================================================
