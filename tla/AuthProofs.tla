----------------------------- MODULE AuthProofs -----------------------------
(***************************************************************************)
(* Theorems about Auth.  A step of a call is explained by what is true of  *)
(* the call and of the rows it meets, whatever other calls, deletions and  *)
(* the clock do in between; the invariant says what that is.               *)
(***************************************************************************)
EXTENDS Auth, TLAPS

\* The parts of handlers are seen through.
USE DEF Create, Sign, Issue, FindByEmail, FindRefreshToken, VerifyToken

\* What a call can be, at each point of its handler.
Progress ==
    \A c \in Calls :
        /\ pc[c] = "idle" <=> req[c].kind = "none"
        /\ pc[c] = "done" <=> status[c] # 0
        /\ pc[c] = "revoke" => req[c].kind = "refresh"
        /\ pc[c] = "store" => req[c].kind \in {"login", "refresh"}
        /\ status[c] = 200 => req[c].kind \in {"login", "refresh", "me"}
        /\ status[c] = 201 => req[c].kind = "register"
        /\ status[c] = 204 => req[c].kind = "logout"
        /\ req[c].kind = "login" => req[c].token = Blank

\* What a call refers to was there before it.
References ==
    \A c \in Calls :
        /\ req[c].token \in Calls => req[c].token \in Issuers
        /\ user[c] \in Calls => pc[user[c]] = "done"
        /\ before[c].done \subseteq Done

UserRows ==
    \A row \in users :
        /\ pc[row.id] = "done"
        /\ req[row.id].kind = "register"
        /\ row.email = Normal[req[row.id].form.email]
        /\ row.hash = Hash(req[row.id].form.password, row.id)

OneAccountPerAddress == \A row, other \in users : row.email = other.email => row = other

TokenRows ==
    \A row \in tokens :
        /\ pc[row.id] = "done"
        /\ row.user = user[row.id]
        /\ row.expires = signed[row.id] + RefreshTTL
        /\ Exists(row.user)

\* A login that has verified the password, a refresh that has found its token.
Authenticated ==
    \A c \in Calls :
        /\ req[c].kind = "login" /\ (pc[c] = "store" \/ status[c] = 200) =>
              /\ user[c] \in Calls
              /\ req[user[c]].kind = "register"
              /\ SameCredentials(req[user[c]].form, req[c].form)
        /\ \/ req[c].kind = "refresh"
              /\ (pc[c] \in {"revoke", "store"} \/ status[c] = 200)
           \/ req[c].kind = "me" /\ status[c] = 200
           => /\ req[c].token \in Calls
              /\ user[c] = user[req[c].token] /\ before[c].live

LoginRefused ==
    \A c \in Calls : req[c].kind = "login" /\ status[c] = 401 =>
        \A d \in before[c].done :
            status[d] = 201 /\ SameCredentials(req[d].form, req[c].form) => ~Exists(d)

\* The calls after which the token they present is dead.
Spends(c) ==
    \/ /\ req[c].kind = "refresh"
       /\ pc[c] = "store" \/ status[c] = 200 \/ \E row \in tokens : row.id = c
    \/ req[c].kind = "logout" /\ status[c] = 204

Dead(token) == \A row \in tokens : row.id = token => row.revoked

SpentIsDead == \A c \in Calls : Spends(c) => Dead(req[c].token)

\* A call that arrived after its token was spent gets nowhere.
LateIsStopped ==
    \A c, d \in Calls :
        /\ c \in before[d].done /\ Spends(c)
        /\ req[c].token \in Calls /\ req[d].token = req[c].token
        /\ req[d].kind = "refresh"
        => pc[d] = "done" /\ status[d] # 200

\* Why the row of a token that has been handed out may be missing or revoked.
PresentedBy(token) == {d \in Calls : req[d].token = token
                                  /\ req[d].kind \in {"refresh", "logout"}}
HandedOut ==
    \A t \in Issuers : Exists(user[t]) =>
        \E row \in tokens : row.id = t /\ (row.revoked => PresentedBy(t) # {})

AuthInv ==
    /\ AuthTypeOK /\ Progress /\ References
    /\ UserRows /\ OneAccountPerAddress /\ TokenRows
    /\ Authenticated /\ LoginRefused
    /\ SpentIsDead /\ LateIsStopped
    /\ HandedOut /\ RefusalExplained
-----------------------------------------------------------------------------
(***************************************************************************)
(* Frames: what a step leaves alone.                                       *)
(***************************************************************************)

\* What every step but those of c leaves alone.
SameCall(c) ==
    /\ pc'[c] = pc[c] /\ req'[c] = req[c] /\ user'[c] = user[c]
    /\ signed'[c] = signed[c] /\ status'[c] = status[c] /\ before'[c] = before[c]

LEMMA OthersStay ==
  ASSUME AuthTypeOK, NEW c \in Calls, NEW d \in Calls \ {c}, Handle(c)
  PROVE  SameCall(d)
<1> USE DEF AuthTypeOK, SameCall, Receive, Complete, Answer, Goto
<1>1. ASSUME NEW form \in Forms, Register(c, form) PROVE SameCall(d)
  BY <1>1 DEF Register
<1>2. ASSUME NEW form \in Forms, Login(c, form) PROVE SameCall(d)
  BY <1>2 DEF Login
<1>3. ASSUME NEW token \in Presented, Refresh(c, token) PROVE SameCall(d)
  BY <1>3 DEF Refresh
<1>4. ASSUME NEW token \in Presented, Logout(c, token) PROVE SameCall(d)
  BY <1>4 DEF Logout
<1>5. ASSUME NEW token \in Presented, Me(c, token) PROVE SameCall(d)
  BY <1>5 DEF Me
<1>6. CASE Revoke(c) \/ Store(c) \/ QueryFails(c)
  BY <1>6 DEF Revoke, Store, QueryFails
<1> QED
  BY <1>1, <1>2, <1>3, <1>4, <1>5, <1>6 DEF Handle

\* A call that has been answered does not change.
LEMMA AnsweredStays ==
  ASSUME AuthTypeOK, [AuthNext]_vars, NEW d \in Calls, pc[d] = "done"
  PROVE  SameCall(d)
<1>1. ASSUME NEW c \in Calls, Handle(c) PROVE SameCall(d)
  <2>1. pc[c] # "done"
    BY <1>1 DEF Handle, Register, Login, Refresh, Logout, Me, Receive, Revoke,
                Store, QueryFails
  <2> QED
    BY <1>1, <2>1, OthersStay
<1>2. ASSUME NEW u \in Calls, DeleteUser(u) PROVE SameCall(d)
  BY <1>2 DEF DeleteUser, SameCall
<1>3. CASE Tick \/ AllAnswered \/ UNCHANGED vars
  BY <1>3 DEF Tick, AllAnswered, vars, SameCall
<1> QED
  BY <1>1, <1>2, <1>3 DEF AuthNext

\* A request does not change once it has arrived.
LEMMA RequestStays ==
  ASSUME AuthTypeOK, [AuthNext]_vars, NEW d \in Calls, pc[d] # "idle"
  PROVE  req'[d] = req[d] /\ before'[d] = before[d] /\ pc'[d] # "idle"
<1> DEFINE Stays == req'[d] = req[d] /\ before'[d] = before[d] /\ pc'[d] # "idle"
<1>1. ASSUME NEW c \in Calls, Handle(c) PROVE Stays
  <2>1. CASE c # d
    BY <1>1, <2>1, OthersStay DEF SameCall
  <2>2. CASE c = d
    <3>1. Revoke(c) \/ Store(c) \/ QueryFails(c)
      BY <1>1, <2>2 DEF Handle, Register, Login, Refresh, Logout, Me, Receive
    <3> QED
      BY <2>2, <3>1 DEF Revoke, Store, QueryFails, Complete, Answer, Goto, AuthTypeOK
  <2> QED
    BY <2>1, <2>2
<1>2. ASSUME NEW u \in Calls, DeleteUser(u) PROVE Stays
  BY <1>2 DEF DeleteUser
<1>3. CASE Tick \/ AllAnswered \/ UNCHANGED vars
  BY <1>3 DEF Tick, AllAnswered, vars
<1> QED
  BY <1>1, <1>2, <1>3 DEF AuthNext

\* An account comes from a registration.
LEMMA UserRowFrom ==
  ASSUME [AuthNext]_vars, NEW row \in users'
  PROVE  \/ row \in users
         \/ \E c \in Calls, form \in Forms :
               /\ Register(c, form)
               /\ ~EmailTaken(Normalise(form.email))
               /\ row = [id |-> c, email |-> Normalise(form.email),
                         hash |-> Hash(form.password, c)]
  BY DEF AuthNext, vars, Handle, Register, Login, Refresh, Logout, Me, Revoke,
         Store, QueryFails, DeleteUser, Tick, AllAnswered

\* A user who has registered and is gone does not come back.
LEMMA GoneStays ==
  ASSUME AuthTypeOK, [AuthNext]_vars, NEW u \in Calls, pc[u] = "done", Exists(u)'
  PROVE  Exists(u)
<1>1. PICK row \in users' : row.id = u
  BY DEF Exists
<1>2. row \in users
  BY <1>1, UserRowFrom DEF Register, Receive
<1> QED
  BY <1>1, <1>2 DEF Exists

\* A row of a token comes from Store, and then is only ever revoked.
LEMMA TokenRowFrom ==
  ASSUME AuthTypeOK, [AuthNext]_vars, NEW row \in tokens'
  PROVE  \/ \E old \in tokens : /\ old.id = row.id /\ old.user = row.user
                                /\ old.expires = row.expires
                                /\ old.revoked => row.revoked
         \/ \E c \in Calls : /\ Store(c)
                             /\ row = [id |-> c, user |-> user[c], revoked |-> FALSE,
                                       expires |-> ExpiresAt(c)]
<1> DEFINE From(old) == /\ old.id = row.id /\ old.user = row.user
                        /\ old.expires = row.expires
                        /\ old.revoked => row.revoked
<1>1. ASSUME NEW t, tokens' = Revoked(t) PROVE \E old \in tokens : From(old)
  BY <1>1 DEF Revoked, AuthTypeOK, RefreshToken
<1>2. ASSUME NEW c \in Calls, NEW token \in Presented, Logout(c, token)
      PROVE  \E old \in tokens : From(old)
  BY <1>1, <1>2 DEF Logout
<1>3. ASSUME NEW c \in Calls, Revoke(c) PROVE \E old \in tokens : From(old)
  BY <1>1, <1>3 DEF Revoke
<1>4. ASSUME NEW c \in Calls, Store(c), row \notin tokens
      PROVE  row = [id |-> c, user |-> user[c], revoked |-> FALSE,
                    expires |-> ExpiresAt(c)]
  BY <1>4 DEF Store
<1>5. CASE row \in tokens
  BY <1>5
<1>6. CASE row \notin tokens
  <2>1. \E c \in Calls : \/ \E token \in Presented : Logout(c, token)
                         \/ Revoke(c) \/ Store(c)
    BY <1>6 DEF AuthNext, vars, Handle, Register, Login, Refresh, Me, QueryFails,
                DeleteUser, Tick, AllAnswered
  <2> QED
    BY <2>1, <1>2, <1>3, <1>4, <1>6
<1> QED
  BY <1>5, <1>6

\* Only its own handler changes a call.
LEMMA OwnStep ==
  ASSUME AuthTypeOK, [AuthNext]_vars, NEW d \in Calls
  PROVE  SameCall(d) \/ Handle(d)
<1>1. ASSUME NEW c \in Calls, Handle(c) PROVE SameCall(d) \/ Handle(d)
  BY <1>1, OthersStay
<1>2. ASSUME NEW u \in Calls, DeleteUser(u) PROVE SameCall(d)
  BY <1>2 DEF DeleteUser, SameCall
<1>3. CASE Tick \/ AllAnswered \/ UNCHANGED vars
  BY <1>3 DEF Tick, AllAnswered, vars, SameCall
<1> QED
  BY <1>1, <1>2, <1>3 DEF AuthNext
-----------------------------------------------------------------------------
(***************************************************************************)
(* The invariant is inductive.                                             *)
(***************************************************************************)

LEMMA AuthTypeStep == AuthTypeOK /\ [AuthNext]_vars => AuthTypeOK'
<1> SUFFICES ASSUME AuthTypeOK, [AuthNext]_vars PROVE AuthTypeOK'
  OBVIOUS
<1>0. /\ NoForm \in Form /\ Blank \in TokenName
      /\ \A form \in Forms : form \in Form /\ form.email \in Emails
                           /\ form.password \in Passwords
      /\ \A token \in Presented : token \in TokenName
      /\ \A email \in Emails : Normalise(email) \in Emails
      /\ Done \subseteq Calls
  BY FormsAssumption, NormalAssumption DEF Form, TokenName, Presented, Issuers,
     Normalise, Done
<1>a. /\ users \subseteq User /\ tokens \subseteq RefreshToken
      /\ \A row \in users : row.id \in Calls
      /\ \A row \in tokens : row.user \in Calls
  BY DEF AuthTypeOK, User, RefreshToken
<1>1. ASSUME NEW c \in Calls, NEW kind \in {"register", "login", "refresh", "logout", "me"},
             NEW form \in Form, NEW token \in TokenName, Receive(c, kind, form, token)
      PROVE  /\ req' \in [Calls -> Request]
             /\ before' \in [Calls -> [done : SUBSET Calls, live : BOOLEAN]]
             /\ now' \in Nat
  <2>1. [kind |-> kind, form |-> form, token |-> token] \in Request
    BY DEF Request
  <2>2. (kind \in {"refresh", "me"} /\ Live(kind, token)) \in BOOLEAN
    OBVIOUS
  <2> QED
    BY <1>0, <1>1, <2>1, <2>2 DEF Receive, AuthTypeOK
<1>2. ASSUME NEW c \in Calls, NEW s \in {200, 201, 204, 400, 401, 409, 500},
             Answer(c, s)
      PROVE  /\ pc' \in [Calls -> {"idle", "revoke", "store", "done"}]
             /\ status' \in [Calls -> {0, 200, 201, 204, 400, 401, 409, 500}]
  BY <1>2 DEF Answer, AuthTypeOK
<1>3. ASSUME NEW c \in Calls, NEW label \in {"revoke", "store"}, Goto(c, label)
      PROVE  /\ pc' \in [Calls -> {"idle", "revoke", "store", "done"}]
             /\ status' \in [Calls -> {0, 200, 201, 204, 400, 401, 409, 500}]
  BY <1>3 DEF Goto, AuthTypeOK
<1>4. \A t : tokens' = Revoked(t) => tokens' \subseteq RefreshToken
  <2>1. \A row \in tokens : [row EXCEPT !.revoked = TRUE] \in RefreshToken
    BY <1>a DEF RefreshToken
  <2> QED
    BY <1>a, <2>1 DEF Revoked
<1>5. ASSUME NEW c \in Calls, NEW form \in Forms, Register(c, form) PROVE AuthTypeOK'
  <2>1. [id |-> c, email |-> Normalise(form.email), hash |-> Hash(form.password, c)]
          \in User
    BY <1>0 DEF User
  <2> QED
    BY <1>0, <1>1, <1>2, <1>5, <2>1 DEF Register, Complete, AuthTypeOK
<1>6. ASSUME NEW c \in Calls, NEW form \in Forms, Login(c, form) PROVE AuthTypeOK'
  <2>1. /\ users' \subseteq User /\ tokens' \subseteq RefreshToken
        /\ signed' \in [Calls -> Nat]
    BY <1>6 DEF Login, AuthTypeOK
  <2>3. user' \in [Calls -> Calls \cup {Blank}]
    BY <1>a, <1>6 DEF Login, AuthTypeOK
  <2>2. /\ pc' \in [Calls -> {"idle", "revoke", "store", "done"}]
        /\ status' \in [Calls -> {0, 200, 201, 204, 400, 401, 409, 500}]
    BY <1>2, <1>3, <1>6 DEF Login
  <2> QED
    BY <1>0, <1>1, <1>6, <2>1, <2>2, <2>3 DEF Login, AuthTypeOK
<1>7. ASSUME NEW c \in Calls, NEW token \in Presented, Refresh(c, token)
      PROVE  AuthTypeOK'
  <2>1. /\ users' \subseteq User /\ tokens' \subseteq RefreshToken
        /\ signed' \in [Calls -> Nat]
    BY <1>7 DEF Refresh, AuthTypeOK
  <2>3. user' \in [Calls -> Calls \cup {Blank}]
    BY <1>a, <1>7 DEF Refresh, AuthTypeOK
  <2>2. /\ pc' \in [Calls -> {"idle", "revoke", "store", "done"}]
        /\ status' \in [Calls -> {0, 200, 201, 204, 400, 401, 409, 500}]
    BY <1>2, <1>3, <1>7 DEF Refresh
  <2> QED
    BY <1>0, <1>1, <1>7, <2>1, <2>2, <2>3 DEF Refresh, AuthTypeOK
<1>8. ASSUME NEW c \in Calls, NEW token \in Presented, Logout(c, token)
      PROVE  AuthTypeOK'
  BY <1>0, <1>1, <1>2, <1>4, <1>8 DEF Logout, Complete, AuthTypeOK
<1>9. ASSUME NEW c \in Calls, NEW token \in Presented, Me(c, token)
      PROVE  AuthTypeOK'
  <2>1. user' \in [Calls -> Calls \cup {Blank}]
    BY <1>9 DEF Me, Accepted, AuthTypeOK
  <2> QED
    BY <1>0, <1>1, <1>2, <1>9, <2>1 DEF Me, MeStatus, AuthTypeOK
<1>10. ASSUME NEW c \in Calls, Revoke(c) PROVE AuthTypeOK'
  <2>1. signed' \in [Calls -> Nat]
    BY <1>10 DEF Revoke, AuthTypeOK
  <2> QED
    BY <1>2, <1>3, <1>4, <1>10, <2>1 DEF Revoke, AuthTypeOK
<1>11. ASSUME NEW c \in Calls, Store(c) PROVE AuthTypeOK'
  <2>1. user[c] \in Calls
    BY <1>11 DEF Store, OwnerExists, Exists, AuthTypeOK, User
  <2>2. ExpiresAt(c) \in Nat
    BY TimeAssumption DEF ExpiresAt, AuthTypeOK
  <2>3. [id |-> c, user |-> user[c], revoked |-> FALSE, expires |-> ExpiresAt(c)]
          \in RefreshToken
    BY <2>1, <2>2 DEF RefreshToken
  <2>4. tokens' \subseteq RefreshToken
    BY <1>a, <1>11, <2>3 DEF Store
  <2> QED
    BY <1>2, <1>11, <2>4 DEF Store, Complete, AuthTypeOK
<1>12. ASSUME NEW c \in Calls, QueryFails(c) PROVE AuthTypeOK'
  BY <1>2, <1>12 DEF QueryFails, AuthTypeOK
<1>13. ASSUME NEW u \in Calls, DeleteUser(u) PROVE AuthTypeOK'
  BY <1>13 DEF DeleteUser, AuthTypeOK
<1>14. CASE Tick \/ AllAnswered \/ UNCHANGED vars
  BY <1>14 DEF Tick, AllAnswered, vars, AuthTypeOK
<1> QED
  BY <1>5, <1>6, <1>7, <1>8, <1>9, <1>10, <1>11, <1>12, <1>13, <1>14
     DEF AuthNext, Handle

LEMMA ProgressStep ==
  ASSUME AuthTypeOK, Progress, [AuthNext]_vars
  PROVE  Progress'
<1> DEFINE Steady(c) ==
      /\ pc[c] = "idle" <=> req[c].kind = "none"
      /\ pc[c] = "done" <=> status[c] # 0
      /\ pc[c] = "revoke" => req[c].kind = "refresh"
      /\ pc[c] = "store" => req[c].kind \in {"login", "refresh"}
      /\ status[c] = 200 => req[c].kind \in {"login", "refresh", "me"}
      /\ status[c] = 201 => req[c].kind = "register"
      /\ status[c] = 204 => req[c].kind = "logout"
      /\ req[c].kind = "login" => req[c].token = Blank
<1>1. SUFFICES ASSUME NEW c \in Calls PROVE Steady(c)'
  BY DEF Progress
<1>2. Steady(c)
  BY DEF Progress
<1>3. CASE SameCall(c)
  BY <1>2, <1>3 DEF SameCall
<1> USE DEF AuthTypeOK, Receive, Complete, Answer, Goto
<1>4. ASSUME NEW form \in Forms, Register(c, form) PROVE Steady(c)'
  BY <1>2, <1>4 DEF Register
<1>5. ASSUME NEW form \in Forms, Login(c, form) PROVE Steady(c)'
  BY <1>2, <1>5 DEF Login
<1>6. ASSUME NEW token \in Presented, Refresh(c, token) PROVE Steady(c)'
  BY <1>2, <1>6 DEF Refresh
<1>7. ASSUME NEW token \in Presented, Logout(c, token) PROVE Steady(c)'
  BY <1>2, <1>7 DEF Logout
<1>8. ASSUME NEW token \in Presented, Me(c, token) PROVE Steady(c)'
  BY <1>2, <1>8 DEF Me, MeStatus
<1>9. CASE Revoke(c) \/ Store(c) \/ QueryFails(c)
  BY <1>2, <1>9 DEF Revoke, Store, QueryFails
<1> QED
  BY <1>3, <1>4, <1>5, <1>6, <1>7, <1>8, <1>9, OwnStep DEF Handle

\* The calls that have handed out tokens have been answered.
LEMMA IssuersAnswered ==
  ASSUME AuthTypeOK, Progress, NEW c \in Issuers
  PROVE  c \in Calls /\ pc[c] = "done"
  BY DEF AuthTypeOK, Progress, Issuers

LEMMA ReferencesStep ==
  ASSUME AuthTypeOK, Progress, References, UserRows, TokenRows, [AuthNext]_vars
  PROVE  References'
<1> DEFINE Refers(c) ==
      /\ req[c].token \in Calls => req[c].token \in Issuers
      /\ user[c] \in Calls => pc[user[c]] = "done"
      /\ before[c].done \subseteq Done
<1>1. SUFFICES ASSUME NEW c \in Calls PROVE Refers(c)'
  BY DEF References
<1>2. Refers(c)
  BY DEF References
<1>3. Issuers \subseteq Issuers'
  BY IssuersAnswered, AnsweredStays DEF Issuers, SameCall
<1>4. Done \subseteq Done'
  BY AnsweredStays DEF Done, SameCall
<1>5. \A d \in Calls : pc[d] = "done" => pc'[d] = "done"
  BY AnsweredStays DEF SameCall
<1>6. CASE SameCall(c)
  BY <1>2, <1>3, <1>4, <1>5, <1>6 DEF SameCall
<1>7. CASE Handle(c)
  <2>1. /\ before'[c].done \in {before[c].done, Done, {}}
        /\ req'[c].token \in Presented \cup {req[c].token}
    BY <1>7 DEF Handle, Register, Login, Refresh, Logout, Me, Revoke, Store,
                QueryFails, Receive, AuthTypeOK, Presented
  <2>2. \/ user'[c] = user[c]
        \/ \E row \in users : user'[c] = row.id
        \/ \E row \in tokens : user'[c] = row.user
        \/ \E token \in Calls : user'[c] = user[token]
    BY <1>7 DEF Handle, Register, Login, Refresh, Logout, Me, Revoke, Store,
                QueryFails, AuthTypeOK, Accepted
  <2>3. user'[c] \in Calls => pc[user'[c]] = "done"
    BY <1>2, <2>2 DEF References, UserRows, TokenRows, AuthTypeOK, RefreshToken
  <2>4. req'[c].token \in Calls => req'[c].token \in Issuers
    BY <1>2, <2>1, NamesAssumption DEF Presented
  <2> QED
    BY <1>2, <1>3, <1>4, <1>5, <2>1, <2>3, <2>4
<1> QED
  BY <1>6, <1>7, OwnStep

LEMMA UserRowsStep ==
  ASSUME AuthTypeOK, UserRows, OneAccountPerAddress, [AuthNext]_vars
  PROVE  UserRows' /\ OneAccountPerAddress'
<1> DEFINE Registered(row) == /\ pc[row.id] = "done"
                              /\ req[row.id].kind = "register"
                              /\ row.email = Normal[req[row.id].form.email]
                              /\ row.hash = Hash(req[row.id].form.password, row.id)
<1>1. ASSUME NEW row \in users PROVE Registered(row)'
  BY AnsweredStays DEF UserRows, SameCall, AuthTypeOK, User
<1>2. ASSUME NEW c \in Calls, NEW form \in Forms, Register(c, form),
             NEW row \in users', row.id = c, row.email = Normalise(form.email),
             row.hash = Hash(form.password, c), pc'[c] = "done"
      PROVE  Registered(row)'
  BY <1>2 DEF Register, Receive, AuthTypeOK, Normalise
<1>3. ASSUME NEW c \in Calls, NEW form \in Forms, Register(c, form)
      PROVE  pc'[c] = "done"
  BY <1>3 DEF Register, Complete, Answer, AuthTypeOK
<1>4. UserRows'
  <2> SUFFICES ASSUME NEW row \in users' PROVE Registered(row)'
    BY DEF UserRows
  <2> QED
    BY <1>1, <1>2, <1>3, UserRowFrom
<1>5. ASSUME NEW c \in Calls, NEW form \in Forms, Register(c, form)
      PROVE  \A row \in users' : row \notin users =>
               /\ row = [id |-> c, email |-> Normalise(form.email),
                         hash |-> Hash(form.password, c)]
               /\ ~EmailTaken(Normalise(form.email))
  BY <1>5 DEF Register
<1>6. OneAccountPerAddress'
  <2> SUFFICES ASSUME NEW row \in users', NEW other \in users', row.email = other.email
               PROVE  row = other
    BY DEF OneAccountPerAddress
  <2>1. CASE row \in users /\ other \in users
    BY <2>1 DEF OneAccountPerAddress
  <2>2. CASE ~(row \in users /\ other \in users)
    <3>1. PICK c \in Calls, form \in Forms : Register(c, form)
      BY <2>2, UserRowFrom
    <3> QED
      BY <1>5, <2>2, <3>1 DEF EmailTaken
  <2> QED
    BY <2>1, <2>2
<1> QED
  BY <1>4, <1>6

\* Only a deletion removes a user, and with the user the tokens.
LEMMA UserLeaves ==
  ASSUME AuthTypeOK, [AuthNext]_vars, NEW u, Exists(u), ~Exists(u)'
  PROVE  \A row \in tokens' : row.user # u
<1>1. ASSUME ~\E w \in Calls : DeleteUser(w) PROVE users \subseteq users'
  BY <1>1 DEF AuthNext, vars, Handle, Register, Login, Refresh, Logout, Me, Revoke,
              Store, QueryFails, Tick, AllAnswered
<1>2. PICK w \in Calls : DeleteUser(w)
  BY <1>1 DEF Exists
<1>3. w = u
  BY <1>2 DEF DeleteUser, Exists
<1> QED
  BY <1>2, <1>3 DEF DeleteUser

LEMMA TokenRowsStep ==
  ASSUME AuthTypeOK, TokenRows, [AuthNext]_vars
  PROVE  TokenRows'
<1> DEFINE Sound(row) == /\ pc[row.id] = "done"
                         /\ row.user = user[row.id]
                         /\ row.expires = signed[row.id] + RefreshTTL
<1>1. SUFFICES ASSUME NEW row \in tokens' PROVE Sound(row)' /\ Exists(row.user)'
  BY DEF TokenRows
<1>2. CASE \E old \in tokens : /\ old.id = row.id /\ old.user = row.user
                               /\ old.expires = row.expires
  <2>1. PICK old \in tokens : old.id = row.id /\ old.user = row.user
                             /\ old.expires = row.expires
    BY <1>2
  <2>2. old.id \in Calls /\ Sound(old) /\ Exists(old.user)
    BY DEF TokenRows, AuthTypeOK, RefreshToken
  <2>3. Sound(row)'
    BY <2>1, <2>2, AnsweredStays DEF SameCall
  <2>4. Exists(row.user)'
    BY <2>1, <2>2, UserLeaves
  <2> QED
    BY <2>3, <2>4
<1>3. ASSUME NEW c \in Calls, Store(c),
             row = [id |-> c, user |-> user[c], revoked |-> FALSE,
                    expires |-> ExpiresAt(c)]
      PROVE  Sound(row)' /\ Exists(row.user)'
  BY <1>3 DEF Store, Complete, Answer, OwnerExists, Exists, ExpiresAt, AuthTypeOK
<1> QED
  BY <1>2, <1>3, TokenRowFrom

\* No other password opens a hash.
LEMMA OnlyThePassword == \A p, q, salt : Verify(p, Hash(q, salt)) <=> p = q
  BY DEF Verify, Hash, IDKey

\* What is remembered of a token as a call with it arrives.
LEMMA ArrivesAlive ==
  ASSUME AuthTypeOK, NEW c \in Calls, NEW kind \in {"refresh", "me"}, NEW form, NEW token,
         Receive(c, kind, form, token), Live(kind, token)
  PROVE  req'[c].token = token /\ before'[c].live
<1>1. (kind \in {"refresh", "me"} /\ Live(kind, token)) = TRUE
  OBVIOUS
<1>2. before' = [before EXCEPT ![c] =
          [done |-> IF kind \in {"login", "refresh"} THEN Done ELSE {}, live |-> TRUE]]
  BY <1>1 DEF Receive
<1>3. before'[c].live
  BY <1>2 DEF AuthTypeOK
<1> QED
  BY <1>3 DEF Receive, AuthTypeOK

\* A step of a login or a refresh, towards its answer.
LEMMA AuthenticatedStep ==
  ASSUME AuthTypeOK, Progress, References, UserRows, TokenRows, Authenticated,
         [AuthNext]_vars
  PROVE  Authenticated'
<1> DEFINE Opens(c) == req[c].kind = "login" /\ (pc[c] = "store" \/ status[c] = 200)
           Account(c) == /\ user[c] \in Calls
                         /\ req[user[c]].kind = "register"
                         /\ SameCredentials(req[user[c]].form, req[c].form)
           Resumes(c) == \/ req[c].kind = "refresh"
                            /\ (pc[c] \in {"revoke", "store"} \/ status[c] = 200)
                         \/ req[c].kind = "me" /\ status[c] = 200
           Session(c) == /\ req[c].token \in Calls
                         /\ user[c] = user[req[c].token] /\ before[c].live
<1>1. SUFFICES ASSUME NEW c \in Calls
               PROVE  /\ Opens(c)' => Account(c)'
                      /\ Resumes(c)' => Session(c)'
  BY DEF Authenticated
<1>2. (Opens(c) => Account(c)) /\ (Resumes(c) => Session(c))
  BY DEF Authenticated
<1>3. \A d \in Calls : pc[d] = "done" => req'[d] = req[d] /\ user'[d] = user[d]
  BY AnsweredStays DEF SameCall
<1>4. \A d \in Issuers : d \in Calls /\ pc[d] = "done"
  BY IssuersAnswered
\* Whoever has come so far stays there.
<1>5. ASSUME user'[c] = user[c], req'[c] = req[c], before'[c] = before[c]
      PROVE  (Account(c) => Account(c)') /\ (Session(c) => Session(c)')
  BY <1>3, <1>4, <1>5 DEF References, SameCredentials
<1>6. CASE SameCall(c)
  BY <1>2, <1>5, <1>6 DEF SameCall
<1>7. ASSUME NEW form \in Forms, Login(c, form) PROVE Opens(c)' => Account(c)'
  <2>1. SUFFICES ASSUME pc'[c] = "store" \/ status'[c] = 200 PROVE Account(c)'
    OBVIOUS
  <2>2. PICK row \in users : /\ row.email = Normalise(form.email)
                            /\ Verify(form.password, row.hash)
                            /\ user' = [user EXCEPT ![c] = row.id]
    BY <1>7, <2>1 DEF Login, Answer, AuthTypeOK
  <2>3. /\ row.id \in Calls /\ pc[row.id] = "done"
        /\ req[row.id].kind = "register"
        /\ Normal[req[row.id].form.email] = Normal[form.email]
    BY <2>2 DEF UserRows, AuthTypeOK, User, Normalise
  <2>4. req[row.id].form.password = form.password
    BY <2>2, OnlyThePassword DEF UserRows
  <2>5. user'[c] = row.id /\ req'[c].form = form /\ req'[row.id] = req[row.id]
    BY <1>3, <1>7, <2>2, <2>3 DEF Login, Receive, AuthTypeOK
  <2> QED
    BY <2>3, <2>4, <2>5 DEF SameCredentials
<1>8. ASSUME NEW token \in Presented, Refresh(c, token)
      PROVE  Resumes(c)' => Session(c)'
  <2>1. SUFFICES ASSUME pc'[c] \in {"revoke", "store"} \/ status'[c] = 200
                 PROVE  Session(c)'
    BY <1>8 DEF Refresh, Receive, AuthTypeOK
  <2>2. PICK row \in tokens : /\ row.id = token /\ Active(row)
                             /\ user' = [user EXCEPT ![c] = row.user]
    BY <1>8, <2>1 DEF Refresh, Answer, AuthTypeOK
  <2>3. /\ token \in Calls /\ pc[token] = "done"
        /\ row.user = user[token] /\ Live("refresh", token)
    <3>1. TTL("refresh") = RefreshTTL
      BY DEF TTL
    <3>2. token \in Calls
      BY <2>2 DEF AuthTypeOK, RefreshToken
    <3> QED
      BY <2>2, <3>1, <3>2 DEF TokenRows, Active, Live
  <2>4. req'[c].token = token /\ before'[c].live
    BY <1>8, <2>3, ArrivesAlive DEF Refresh
  <2> QED
    BY <1>3, <2>2, <2>3, <2>4 DEF AuthTypeOK
<1>9. ASSUME NEW token \in Presented, Me(c, token) PROVE Resumes(c)' => Session(c)'
  <2>1. SUFFICES ASSUME status'[c] = 200 PROVE Session(c)'
    BY <1>9 DEF Me, Receive, AuthTypeOK
  <2>2. /\ token \in Calls /\ Exists(user[token]) /\ now < signed[token] + AccessTTL
        /\ user'[c] = user[token]
    BY <1>9, <2>1 DEF Me, MeStatus, Accepted, Answer, AuthTypeOK
  <2>3. Live("me", token) /\ token \in Issuers
    <3>1. TTL("me") = AccessTTL
      BY DEF TTL
    <3> QED
      BY <2>2, <3>1, NamesAssumption DEF Live, Presented
  <2>4. req'[c].token = token /\ before'[c].live
    BY <1>9, <2>3, ArrivesAlive DEF Me
  <2> QED
    BY <1>3, <1>4, <2>2, <2>3, <2>4
<1>10. CASE Revoke(c) \/ Store(c) \/ QueryFails(c)
  <2>1. user'[c] = user[c] /\ req'[c] = req[c] /\ before'[c] = before[c]
    BY <1>10 DEF Revoke, Store, QueryFails
  <2>2. (Opens(c)' => Opens(c)) /\ (Resumes(c)' => Resumes(c))
    BY <1>10 DEF Revoke, Store, QueryFails, Complete, Answer, Goto, Progress, AuthTypeOK
  <2> QED
    BY <1>2, <1>5, <2>1, <2>2
<1>11. ASSUME req'[c].kind \notin {"login", "refresh", "me"}
       PROVE  ~Opens(c)' /\ ~Resumes(c)'
  BY <1>11
<1>12. ASSUME NEW form \in Forms, Login(c, form) \/ Register(c, form)
       PROVE  req'[c].kind \in {"login", "register"}
  BY <1>12 DEF Login, Register, Receive, AuthTypeOK
<1>13. ASSUME NEW token \in Presented, Refresh(c, token) \/ Logout(c, token) \/ Me(c, token)
       PROVE  req'[c].kind \in {"refresh", "logout", "me"}
  BY <1>13 DEF Refresh, Logout, Me, Receive, AuthTypeOK
<1>14. ASSUME NEW form \in Forms, Register(c, form) PROVE req'[c].kind = "register"
  BY <1>14 DEF Register, Receive, AuthTypeOK
<1>15. ASSUME NEW token \in Presented, Logout(c, token) PROVE req'[c].kind = "logout"
  BY <1>15 DEF Logout, Receive, AuthTypeOK
<1> QED
  BY <1>6, <1>7, <1>8, <1>9, <1>10, <1>12, <1>13, <1>14, <1>15, OwnStep DEF Handle

LEMMA LoginRefusedStep ==
  ASSUME AuthTypeOK, Progress, References, UserRows, LoginRefused, [AuthNext]_vars
  PROVE  LoginRefused'
<1> DEFINE Good(c, d) == status[d] = 201 /\ SameCredentials(req[d].form, req[c].form)
<1>1. SUFFICES ASSUME NEW c \in Calls, req'[c].kind = "login", status'[c] = 401,
                      NEW d \in before'[c].done, Good(c, d)'
               PROVE  ~Exists(d)'
  BY DEF LoginRefused
<1>2. \A e \in Done : e \in Calls /\ SameCall(e) /\ (Exists(e)' => Exists(e))
  BY AnsweredStays, GoneStays DEF Done
<1>3. CASE SameCall(c)
  <2>1. d \in Done /\ Good(c, d)
    BY <1>1, <1>2, <1>3 DEF SameCall, References
  <2> QED
    BY <1>1, <1>2, <1>3, <2>1 DEF LoginRefused, SameCall
<1>4. CASE Handle(c)
  <2>1. PICK form \in Forms : Login(c, form)
    BY <1>1, <1>4 DEF Handle, Register, Refresh, Logout, Me, Revoke, Store,
       QueryFails, Receive, Complete, Answer, Goto, Progress, AuthTypeOK
  <2>2. /\ d \in Done /\ req'[c].form = form
        /\ \A row \in users : ~(/\ row.email = Normalise(form.email)
                               /\ Verify(form.password, row.hash))
    <3>1. d \in Done /\ req'[c].form = form
      BY <1>1, <2>1 DEF Login, Receive, AuthTypeOK
    <3>2. {row \in users : /\ row.email = Normalise(form.email)
                          /\ Verify(form.password, row.hash)} = {}
      <4>1. pc[c] = "idle"
        BY <2>1 DEF Login, Receive
      <4>2. status[c] = 0
        BY <4>1 DEF Progress, AuthTypeOK
      <4> QED
        BY <1>1, <2>1, <4>2 DEF Login, Answer, Goto, AuthTypeOK
    <3> QED
      BY <3>1, <3>2
  <2>3. SameCredentials(req[d].form, form)
    BY <1>1, <1>2, <2>2 DEF SameCall
  <2>4. ASSUME Exists(d) PROVE FALSE
    <3>1. PICK row \in users : row.id = d
      BY <2>4 DEF Exists
    <3>2. /\ row.email = Normalise(form.email)
          /\ row.hash = Hash(form.password, d)
      BY <2>3, <3>1 DEF UserRows, SameCredentials, Normalise
    <3>3. Verify(form.password, row.hash)
      BY <3>2, OnlyThePassword
    <3> QED
      BY <2>2, <3>2, <3>3
  <2> QED
    BY <1>2, <2>2, <2>4
<1> QED
  BY <1>3, <1>4, OwnStep
-----------------------------------------------------------------------------
(***************************************************************************)
(* Spending a token.                                                       *)
(***************************************************************************)

\* The row of a token that somebody presents is not stored a second time; and
\* once revoked it stays so.
LEMMA DeadStays ==
  ASSUME AuthTypeOK, Progress, [AuthNext]_vars,
         NEW t, t \in Calls => pc[t] = "done", Dead(t)
  PROVE  Dead(t)'
<1> SUFFICES ASSUME NEW row \in tokens', row.id = t PROVE row.revoked
  BY DEF Dead
<1>1. ASSUME NEW c \in Calls, Store(c), row.id = c PROVE FALSE
  BY <1>1 DEF Store
<1> QED
  BY <1>1, TokenRowFrom DEF Dead

\* A call that has been answered spends nothing more.
LEMMA SpendsStays ==
  ASSUME AuthTypeOK, [AuthNext]_vars, NEW c \in Calls, pc[c] = "done", Spends(c)'
  PROVE  Spends(c)
<1>1. SameCall(c)
  BY AnsweredStays
<1>2. ASSUME NEW row \in tokens', row.id = c PROVE \E old \in tokens : old.id = c
  <2>1. ASSUME NEW d \in Calls, Store(d), row.id = d PROVE FALSE
    BY <1>2, <2>1 DEF Store
  <2> QED
    BY <1>2, <2>1, TokenRowFrom
<1> QED
  BY <1>1, <1>2 DEF Spends, SameCall

LEMMA SpentIsDeadStep ==
  ASSUME AuthTypeOK, Progress, References, TokenRows, SpentIsDead, [AuthNext]_vars
  PROVE  SpentIsDead'
<1>1. SUFFICES ASSUME NEW c \in Calls, Spends(c)' PROVE Dead(req[c].token)'
  BY DEF SpentIsDead
<1>2. \A t \in Calls : t \in Issuers => pc[t] = "done"
  BY IssuersAnswered
<1>3. ASSUME NEW t, tokens' = Revoked(t) PROVE Dead(t)'
  BY <1>3 DEF Revoked, Dead, AuthTypeOK, RefreshToken
\* A call that was already spending its token.
<1>4. ASSUME Spends(c), pc[c] # "idle" PROVE Dead(req[c].token)'
  <2>1. req'[c] = req[c]
    BY <1>4, RequestStays
  <2>2. \A t : (t \in Calls => pc[t] = "done") /\ Dead(t) => Dead(t)'
    BY DeadStays
  <2>3. Dead(req[c].token) /\ (req[c].token \in Calls => pc[req[c].token] = "done")
    BY <1>2, <1>4 DEF SpentIsDead, References
  <2> QED
    BY <2>1, <2>2, <2>3 DEF Dead
<1>5. CASE pc[c] = "done"
  BY <1>1, <1>4, <1>5, SpendsStays
<1>6. ASSUME pc[c] # "done", NEW row \in tokens', row.id = c PROVE Store(c)
  <2>1. \A old \in tokens : old.id # c
    BY <1>6 DEF TokenRows
  <2> QED
    BY <1>6, <2>1, TokenRowFrom
<1>7. CASE pc[c] # "done" /\ SameCall(c)
  <2>1. ~Store(c)
    BY <1>7 DEF Store, Complete, Answer, SameCall, AuthTypeOK
  <2>2. Spends(c)
    BY <1>1, <1>6, <1>7, <2>1 DEF Spends, SameCall
  <2>3. pc[c] # "idle"
    BY <1>7, <2>2 DEF Spends, Progress
  <2> QED
    BY <1>4, <2>2, <2>3
<1>8. CASE Revoke(c)
  <2>1. req'[c] = req[c] /\ Dead(req[c].token)'
    BY <1>3, <1>8 DEF Revoke
  <2> QED
    BY <2>1
<1>9. CASE Store(c)
  <2>1. pc[c] = "store" /\ req'[c] = req[c]
    BY <1>9 DEF Store
  <2>2. req[c].kind \in {"login", "refresh"}
    BY <2>1 DEF Progress
  <2>3. req[c].kind # "login"
    BY <1>1, <2>1 DEF Spends
  <2>4. Spends(c)
    BY <2>1, <2>2, <2>3 DEF Spends
  <2> QED
    BY <1>4, <2>1, <2>4
<1>10. ASSUME NEW token \in Presented, Logout(c, token) PROVE Dead(req[c].token)'
  <2>1. req'[c].token = token /\ req'[c].kind = "logout"
    BY <1>10 DEF Logout, Receive, AuthTypeOK
  <2>2. status'[c] = 204
    BY <1>1, <2>1 DEF Spends
  <2>3. tokens' = Revoked(token)
    BY <1>10, <2>2 DEF Logout, Answer, AuthTypeOK
  <2> QED
    BY <1>3, <2>1, <2>3
<1>11. ASSUME NEW token \in Presented, Refresh(c, token) PROVE FALSE
  <2>1. /\ req'[c].kind = "refresh" /\ pc'[c] # "store" /\ status'[c] # 200
        /\ pc[c] = "idle"
    BY <1>11 DEF Refresh, Receive, Answer, Goto, AuthTypeOK, Progress
  <2>2. Store(c)
    BY <1>1, <1>6, <2>1 DEF Spends
  <2> QED
    BY <2>1, <2>2 DEF Store
<1>12. CASE QueryFails(c)
  <2>1. /\ req'[c] = req[c] /\ status'[c] = 500 /\ pc'[c] = "done"
        /\ pc[c] # "done" /\ tokens' = tokens
    BY <1>12 DEF QueryFails, Answer, AuthTypeOK
  <2> QED
    BY <1>1, <1>6, <2>1 DEF Spends, TokenRows
<1>13. ASSUME NEW form \in Forms, Register(c, form) \/ Login(c, form)
       PROVE  req'[c].kind \in {"register", "login"}
  BY <1>13 DEF Register, Login, Receive, AuthTypeOK
<1>14. ASSUME NEW token \in Presented, Me(c, token)
       PROVE  req'[c].kind = "me"
  BY <1>14 DEF Me, Receive, AuthTypeOK
<1>15. req'[c].kind \in {"refresh", "logout"}
  BY <1>1 DEF Spends
<1> QED
  BY <1>5, <1>7, <1>8, <1>9, <1>10, <1>11, <1>12, <1>13, <1>14, <1>15, OwnStep DEF Handle

LEMMA LateIsStoppedStep ==
  ASSUME AuthTypeOK, Progress, References, SpentIsDead, LateIsStopped, [AuthNext]_vars
  PROVE  LateIsStopped'
<1>1. SUFFICES ASSUME NEW c \in Calls, NEW d \in Calls,
                      c \in before'[d].done, Spends(c)', req'[c].token \in Calls,
                      req'[d].token = req'[c].token, req'[d].kind = "refresh"
               PROVE  pc'[d] = "done" /\ status'[d] # 200
  BY DEF LateIsStopped
<1>2. ASSUME pc[c] = "done" PROVE SameCall(c) /\ Spends(c)
  BY <1>1, <1>2, AnsweredStays, SpendsStays
<1>3. CASE pc[d] # "idle"
  <2>1. before'[d] = before[d] /\ req'[d] = req[d]
    BY <1>3, RequestStays
  <2>2. pc[c] = "done"
    BY <1>1, <2>1 DEF References, Done
  <2>3. pc[d] = "done" /\ status[d] # 200
    BY <1>1, <1>2, <2>1, <2>2 DEF LateIsStopped, SameCall
  <2> QED
    BY <2>3, AnsweredStays DEF SameCall
<1>4. CASE pc[d] = "idle"
  <2>1. req[d].kind = "none"
    BY <1>4 DEF Progress
  <2>2. Handle(d)
    BY <1>1, <2>1, OwnStep DEF SameCall
  <2>3. PICK token \in Presented : Refresh(d, token)
    BY <1>1, <1>4, <2>2 DEF Handle, Register, Login, Logout, Me, Revoke, Store,
       QueryFails, Receive, AuthTypeOK
  <2>4. req'[d].token = token /\ c \in Done
    BY <1>1, <2>3 DEF Refresh, Receive, AuthTypeOK
  <2>5. Dead(token)
    BY <1>1, <1>2, <2>4 DEF Done, SpentIsDead, SameCall
  <2>6. {row \in tokens : row.id = token /\ Active(row)} = {}
    BY <2>5 DEF Dead, Active
  <2> QED
    BY <2>3, <2>6 DEF Refresh, Answer, AuthTypeOK
<1> QED
  BY <1>3, <1>4

\* Who has presented a token will always have.
LEMMA PresentedStays ==
  ASSUME AuthTypeOK, Progress, [AuthNext]_vars, NEW d \in Calls,
         req[d].kind \in {"refresh", "logout"}
  PROVE  req'[d] = req[d]
<1>1. pc[d] # "idle"
  BY DEF Progress
<1> QED
  BY <1>1, RequestStays

LEMMA HandedOutStep ==
  ASSUME AuthTypeOK, Progress, References, TokenRows, HandedOut, [AuthNext]_vars
  PROVE  HandedOut'
<1> DEFINE Presents(d, t) == req[d].token = t /\ req[d].kind \in {"refresh", "logout"}
<1>1. SUFFICES ASSUME NEW t \in Issuers', Exists(user[t])'
               PROVE  \E row \in tokens' :
                        row.id = t /\ (row.revoked => \E d \in Calls : Presents(d, t)')
  BY DEF HandedOut, PresentedBy
<1>2. t \in Calls
  BY <1>1 DEF Issuers
<1>3. ASSUME NEW d \in Calls, Presents(d, t) PROVE Presents(d, t)'
  BY <1>3, PresentedStays
<1>4. CASE t \in Issuers
  <2>1. pc[t] = "done" /\ SameCall(t)
    BY <1>4, IssuersAnswered, AnsweredStays
  <2>2. Exists(user[t])
    <3>1. user'[t] = user[t] /\ AuthTypeOK'
      BY <2>1, AuthTypeStep DEF SameCall
    <3>2. \E row \in users' : row.id = user[t]
      BY <1>1, <3>1 DEF Exists
    <3>3. user[t] \in Calls
      BY <3>1, <3>2 DEF AuthTypeOK, User
    <3>4. pc[user[t]] = "done"
      BY <1>2, <3>3 DEF References
    <3>5. \A u \in Calls : pc[u] = "done" /\ Exists(u)' => Exists(u)
      BY GoneStays
    <3> QED
      BY <3>2, <3>3, <3>4, <3>5 DEF Exists
  <2>3. PICK row \in tokens :
          row.id = t /\ (row.revoked => \E d \in Calls : Presents(d, t))
    BY <1>4, <2>2 DEF HandedOut, PresentedBy
  <2>4. row.user = user[t]
    BY <2>3 DEF TokenRows
  <2>5. CASE row \in tokens'
    BY <1>3, <2>3, <2>5
  <2>6. ASSUME NEW u \in Calls, DeleteUser(u) PROVE row \in tokens'
    <3>1. u # user[t]
      BY <1>1, <2>1, <2>6 DEF DeleteUser, Exists, SameCall
    <3> QED
      BY <2>4, <2>6, <3>1 DEF DeleteUser
  <2>7. ASSUME NEW d \in Calls, NEW x, tokens' = Revoked(x), row \notin tokens',
               req'[d].token = x, req'[d].kind \in {"refresh", "logout"}
        PROVE  \E new \in tokens' :
                 new.id = t /\ (new.revoked => \E e \in Calls : Presents(e, t)')
    <3>1. row.id = x /\ [row EXCEPT !.revoked = TRUE] \in tokens'
      BY <2>7 DEF Revoked
    <3>2. [row EXCEPT !.revoked = TRUE].id = row.id
      BY DEF AuthTypeOK, RefreshToken
    <3> QED
      BY <2>3, <2>7, <3>1, <3>2
  <2>8. ASSUME NEW d \in Calls, Revoke(d), row \notin tokens'
        PROVE  \E new \in tokens' :
                 new.id = t /\ (new.revoked => \E e \in Calls : Presents(e, t)')
    <3>1. /\ tokens' = Revoked(req[d].token) /\ req'[d] = req[d]
          /\ req[d].kind = "refresh"
      BY <2>8 DEF Revoke, Progress
    <3> QED
      BY <2>7, <2>8, <3>1
  <2>9. ASSUME NEW d \in Calls, NEW token \in Presented, Logout(d, token),
               row \notin tokens'
        PROVE  \E new \in tokens' :
                 new.id = t /\ (new.revoked => \E e \in Calls : Presents(e, t)')
    <3>1. /\ tokens' = Revoked(token) /\ req'[d].token = token
          /\ req'[d].kind = "logout"
      BY <2>9 DEF Logout, Receive, AuthTypeOK
    <3> QED
      BY <2>7, <2>9, <3>1
  <2>10. ASSUME row \notin tokens', ~\E u \in Calls : DeleteUser(u)
         PROVE  \E d \in Calls : \/ Revoke(d)
                                \/ \E token \in Presented : Logout(d, token)
    BY <2>10 DEF AuthNext, vars, Handle, Register, Login, Refresh, Me, Store,
                 QueryFails, Tick, AllAnswered
  <2> QED
    BY <2>5, <2>6, <2>8, <2>9, <2>10
<1>5. CASE t \notin Issuers
  <2>1. Handle(t) /\ status'[t] = 200 /\ req'[t].kind \in {"login", "refresh"}
    BY <1>1, <1>2, <1>5, OwnStep DEF Issuers, SameCall
  <2>2. status[t] # 200 \/ req[t].kind \notin {"login", "refresh"}
    BY <1>2, <1>5 DEF Issuers
  <2>3. pc[t] = "idle" => status[t] = 0
    BY <1>2 DEF Progress, AuthTypeOK
  <2> USE <1>2 DEF Receive, Answer, Goto, AuthTypeOK
  <2>4. ASSUME NEW form \in Forms, Register(t, form) \/ Login(t, form) PROVE FALSE
    <3>1. Register(t, form) => req'[t].kind = "register"
      BY DEF Register
    <3>2. Login(t, form) => status'[t] # 200
      BY <2>3 DEF Login
    <3> QED
      BY <2>1, <2>4, <3>1, <3>2
  <2>5. ASSUME NEW token \in Presented,
               Refresh(t, token) \/ Logout(t, token) \/ Me(t, token)
        PROVE  FALSE
    <3>1. Refresh(t, token) => status'[t] # 200
      BY <2>3 DEF Refresh
    <3>2. Logout(t, token) \/ Me(t, token) => req'[t].kind \in {"logout", "me"}
      BY DEF Logout, Me
    <3> QED
      BY <2>1, <2>5, <3>1, <3>2
  <2>6. ~Revoke(t) /\ ~QueryFails(t)
    BY <2>1, <2>2 DEF Revoke, QueryFails
  <2> HIDE DEF Receive, Answer, Goto, AuthTypeOK
  <2>7. Store(t)
    BY <2>1, <2>4, <2>5, <2>6 DEF Handle
  <2> DEFINE new == [id |-> t, user |-> user[t], revoked |-> FALSE,
                     expires |-> ExpiresAt(t)]
  <2>8. new \in tokens'
    BY <2>7 DEF Store
  <2>9. new.id = t /\ new.revoked = FALSE
    OBVIOUS
  <2> HIDE DEF new
  <2> QED
    BY <2>8, <2>9
<1> QED
  BY <1>4, <1>5

LEMMA RefusalExplainedStep ==
  ASSUME AuthTypeOK, Progress, References, TokenRows, HandedOut, RefusalExplained,
         [AuthNext]_vars
  PROVE  RefusalExplained'
<1> DEFINE Rival(c, t) == \E d \in Calls \ {c} : /\ req[d].token = t
                                               /\ req[d].kind \in {"refresh", "logout"}
           Excused(c, t) == \/ ~Live(req[c].kind, t)
                            \/ req[c].kind = "refresh" /\ Rival(c, t)
<1>1. SUFFICES ASSUME NEW c \in Calls, NEW t \in Calls, req'[c].token = t,
                      status'[c] = 401
               PROVE  Excused(c, t)'
  BY DEF RefusalExplained
<1>2. Rival(c, t) => Rival(c, t)'
  BY PresentedStays
\* A token that is not live does not come to life.
<1>3. ASSUME NEW kind, pc[t] = "done", ~Live(kind, t) PROVE ~Live(kind, t)'
  <2>1. user'[t] = user[t] /\ signed'[t] = signed[t] /\ AuthTypeOK'
    BY <1>3, AnsweredStays, AuthTypeStep DEF SameCall
  <2>2. now' \in Nat /\ now \in Nat /\ signed[t] + TTL(kind) \in Nat /\ now' >= now
    <3>1. now' = now \/ now' = now + 1
      BY DEF AuthNext, vars, Handle, Register, Login, Refresh, Logout, Me, Receive,
             Revoke, Store, QueryFails, DeleteUser, Tick, AllAnswered
    <3>2. TTL(kind) \in Nat
      BY TimeAssumption DEF TTL
    <3> QED
      BY <3>1, <3>2 DEF AuthTypeOK
  <2>3. Exists(user[t])' => Exists(user[t])
    <3>1. ASSUME \E row \in users' : row.id = user[t]
          PROVE  user[t] \in Calls /\ pc[user[t]] = "done"
      BY <2>1, <3>1 DEF AuthTypeOK, User, References
    <3>2. \A u \in Calls : pc[u] = "done" /\ Exists(u)' => Exists(u)
      BY GoneStays
    <3> QED
      BY <2>1, <3>1, <3>2 DEF Exists
  <2> QED
    BY <1>3, <2>1, <2>2, <2>3 DEF Live, TTL
<1>4. CASE SameCall(c)
  <2>1. Excused(c, t)
    BY <1>1, <1>4 DEF RefusalExplained, SameCall
  <2>2. pc[t] = "done"
    BY <1>1, <1>4, IssuersAnswered DEF References, SameCall
  <2> QED
    BY <1>2, <1>3, <1>4, <2>1, <2>2 DEF SameCall
<1>5. CASE Handle(c)
  <2>1. pc[c] = "idle" /\ status[c] = 0
    BY <1>1, <1>5 DEF Handle, Register, Login, Refresh, Logout, Me, Receive, Revoke,
       Store, QueryFails, Complete, Answer, Goto, Progress, AuthTypeOK
  <2>2. ASSUME NEW form \in Forms, Register(c, form) \/ Login(c, form) PROVE FALSE
    BY <1>1, <2>2, NamesAssumption DEF Register, Login, Receive, AuthTypeOK
  <2>3. ASSUME NEW token \in Presented, Logout(c, token) PROVE FALSE
    BY <1>1, <2>3 DEF Logout, Complete, Answer, AuthTypeOK
  <2>4. ASSUME NEW token \in Presented, Me(c, token) PROVE Excused(c, t)'
    <3>1. token = t /\ req'[c].kind = "me" /\ users' = users /\ now' = now
      BY <1>1, <2>4 DEF Me, Receive, AuthTypeOK
    <3>2. ~Live("me", t)
      <4>1. TTL("me") = AccessTTL
        BY DEF TTL
      <4>2. ~Accepted(t) \/ ~Exists(user[t])
        BY <1>1, <2>1, <2>4, <3>1 DEF Me, MeStatus, Answer, AuthTypeOK
      <4> QED
        BY <4>1, <4>2, NamesAssumption DEF Live, Accepted
    <3>3. pc[t] = "done"
      BY <3>1, NamesAssumption, IssuersAnswered DEF Presented
    <3> QED
      BY <1>3, <3>1, <3>2, <3>3
  <2>5. ASSUME NEW token \in Presented, Refresh(c, token) PROVE Excused(c, t)'
    <3>1. token = t /\ req'[c].kind = "refresh"
      BY <1>1, <2>5 DEF Refresh, Receive, AuthTypeOK
    <3>2. {row \in tokens : row.id = t /\ Active(row)} = {}
      BY <1>1, <2>1, <2>5, <3>1 DEF Refresh, Answer, Goto, AuthTypeOK
    <3>3. t \in Issuers /\ pc[t] = "done"
      BY <3>1, NamesAssumption, IssuersAnswered DEF Presented
    <3>4. CASE ~Live("refresh", t)
      BY <1>3, <3>1, <3>3, <3>4
    <3>5. CASE Live("refresh", t)
      <4>1. TTL("refresh") = RefreshTTL
        BY DEF TTL
      <4>2. PICK row \in tokens : row.id = t /\ (row.revoked => PresentedBy(t) # {})
        BY <3>3, <3>5 DEF HandedOut, Live
      <4>3. row.revoked
        BY <3>2, <3>5, <4>1, <4>2 DEF Active, TokenRows, Live
      <4>4. Rival(c, t)
        BY <2>1, <4>2, <4>3 DEF PresentedBy, Progress
      <4> QED
        BY <1>2, <3>1, <4>4
    <3> QED
      BY <3>4, <3>5
  <2>6. ~Revoke(c) /\ ~Store(c) /\ ~QueryFails(c)
    BY <2>1 DEF Revoke, Store, QueryFails
  <2> QED
    BY <1>5, <2>2, <2>3, <2>4, <2>5, <2>6 DEF Handle
<1> QED
  BY <1>4, <1>5, OwnStep
-----------------------------------------------------------------------------
(***************************************************************************)
(* Theorems.                                                               *)
(***************************************************************************)

\* The invariant holds whatever the requests, the deletions and the clock do.
THEOREM AuthInvariant == AuthSpec => []AuthInv
<1>1. AuthInit => AuthInv
  <2> SUFFICES ASSUME AuthInit PROVE AuthInv
    OBVIOUS
  <2>1. AuthTypeOK
    BY FormsAssumption DEF AuthInit, AuthTypeOK, Request, TokenName
  <2>2. \A c \in Calls : /\ pc[c] = "idle" /\ user[c] = Blank /\ status[c] = 0
                        /\ req[c].kind = "none" /\ req[c].token = Blank
                        /\ before[c].done = {}
    BY DEF AuthInit
  <2>3. users = {} /\ tokens = {} /\ Issuers = {}
    BY <2>2 DEF AuthInit, Issuers
  <2>4. Progress /\ References
    BY <2>2, NamesAssumption DEF Progress, References
  <2>5. UserRows /\ OneAccountPerAddress /\ TokenRows
    BY <2>3 DEF UserRows, OneAccountPerAddress, TokenRows
  <2>6. Authenticated /\ LoginRefused /\ SpentIsDead /\ LateIsStopped
    BY <2>2, <2>3 DEF Authenticated, LoginRefused, SpentIsDead, LateIsStopped, Spends
  <2>7. HandedOut /\ RefusalExplained
    BY <2>2, <2>3 DEF HandedOut, RefusalExplained
  <2> QED
    BY <2>1, <2>4, <2>5, <2>6, <2>7 DEF AuthInv
<1>2. AuthInv /\ [AuthNext]_vars => AuthInv'
  BY AuthTypeStep, ProgressStep, ReferencesStep, UserRowsStep, TokenRowsStep,
     AuthenticatedStep, LoginRefusedStep, SpentIsDeadStep, LateIsStoppedStep,
     HandedOutStep, RefusalExplainedStep DEF AuthInv
<1> QED
  BY <1>1, <1>2, PTL DEF AuthSpec

\* The variables stay within their types: in particular every token row names a
\* user, and every call ends with a status its handler writes.
THEOREM AuthTypeCorrect == AuthSpec => []AuthTypeOK
<1>1. AuthInv => AuthTypeOK
  BY DEF AuthInv
<1> QED
  BY <1>1, AuthInvariant, PTL

\* Of the calls that registered one address, in whatever case or spacing it was
\* typed, at most one has an account.
THEOREM AddressesAreUnique == AuthSpec => []RegisteredOnce
<1>1. AuthInv => RegisteredOnce
  <2> SUFFICES ASSUME AuthInv, NEW c \in Calls, NEW d \in Calls,
                      Normal[req[c].form.email] = Normal[req[d].form.email],
                      Exists(c), Exists(d)
               PROVE  c = d
    BY DEF RegisteredOnce
  <2>1. PICK row \in users : row.id = c
    BY DEF Exists
  <2>2. PICK other \in users : other.id = d
    BY DEF Exists
  <2>3. row.email = other.email
    BY <2>1, <2>2 DEF AuthInv, UserRows
  <2> QED
    BY <2>1, <2>2, <2>3 DEF AuthInv, OneAccountPerAddress
<1> QED
  BY <1>1, AuthInvariant, PTL

\* A login opens the account of its address and password, and is refused only
\* when there is none.
THEOREM LoginsAreRight == AuthSpec => []LoginIsRight
<1>1. AuthInv => LoginIsRight
  BY DEF AuthInv, Authenticated, LoginRefused, LoginIsRight
<1> QED
  BY <1>1, AuthInvariant, PTL

\* A token that was exchanged or logged out buys nothing later.
THEOREM SpentTokensAreFinal == AuthSpec => []SpentIsFinal
<1>1. AuthInv => SpentIsFinal
  BY DEF AuthInv, LateIsStopped, Spends, SpentIsFinal
<1> QED
  BY <1>1, AuthInvariant, PTL

\* A token that is accepted was live, and the session stays with its user.
THEOREM AcceptedTokensAreLive == AuthSpec => []OnlyLiveTokens
<1>1. AuthInv => OnlyLiveTokens
  BY DEF AuthInv, Authenticated, OnlyLiveTokens
<1> QED
  BY <1>1, AuthInvariant, PTL

\* A token is refused for a reason.
THEOREM RefusalsAreExplained == AuthSpec => []RefusalExplained
<1>1. AuthInv => RefusalExplained
  BY DEF AuthInv
<1> QED
  BY <1>1, AuthInvariant, PTL

\* A session never has an active token together with an active successor.
THEOREM RotationHolds == AuthSpec => []RotationRevokesFirst
<1>1. AuthInv => RotationRevokesFirst
  <2> SUFFICES ASSUME AuthInv, NEW row \in tokens, NEW old \in tokens,
                      req[row.id].kind = "refresh", old.id = req[row.id].token
               PROVE  old.revoked
    BY DEF RotationRevokesFirst
  <2>1. row.id \in Calls
    BY DEF AuthInv, AuthTypeOK, RefreshToken
  <2> QED
    BY <2>1 DEF AuthInv, SpentIsDead, Spends, Dead
<1> QED
  BY <1>1, AuthInvariant, PTL

\* No token outlives its user, even if the user is deleted in the middle of a
\* login or a refresh.
TokensHaveUsers == \A row \in tokens : Exists(row.user)

THEOREM TokensKeepUsers == AuthSpec => []TokensHaveUsers
<1>1. AuthInv => TokensHaveUsers
  BY DEF AuthInv, TokenRows, TokensHaveUsers
<1> QED
  BY <1>1, AuthInvariant, PTL

-----------------------------------------------------------------------------
(***************************************************************************)
(* Auth implements Sessions.                                               *)
(***************************************************************************)
\* A step that writes no row of a token leaves the sessions as they are.
LEMMA SessionsStay ==
  ASSUME AuthInv, [AuthNext]_vars, UNCHANGED tokens
  PROVE  UNCHANGED <<ActiveTokens, SpentTokens>>
<1>1. \A row \in tokens : SessionToken(row)' = SessionToken(row)
  <2> TAKE row \in tokens
  <2>1. row.id \in Calls /\ pc[row.id] = "done"
    BY DEF AuthInv, AuthTypeOK, RefreshToken, TokenRows
  <2> QED
    BY <2>1, AnsweredStays DEF AuthInv, SameCall, SessionToken
<1> QED
  BY <1>1 DEF ActiveTokens, SpentTokens

\* The token a row stands for does not change.
LEMMA SessionTokenStays ==
  ASSUME AuthInv, [AuthNext]_vars, NEW row \in tokens
  PROVE  req'[row.id].token = req[row.id].token
<1>1. row.id \in Calls /\ pc[row.id] = "done"
  BY DEF AuthInv, AuthTypeOK, RefreshToken, TokenRows
<1> QED
  BY <1>1, AnsweredStays DEF AuthInv, SameCall

\* A call that is answered has used up its name.
LEMMA AnswerTakes ==
  ASSUME AuthTypeOK, NEW c \in Calls, pc[c] # "done", NEW s, Answer(c, s)
  PROVE  c \in Calls \ Done /\ (Calls \ Done)' = (Calls \ Done) \ {c}
  BY DEF AuthTypeOK, Answer, Done

LEMMA GotoTakesNone ==
  ASSUME AuthTypeOK, NEW c \in Calls, pc[c] # "done", NEW label, label # "done",
         Goto(c, label)
  PROVE  UNCHANGED (Calls \ Done)
  BY DEF AuthTypeOK, Goto, Done

\* A statement that neither joins nor gives nor spends.
LEMMA QuietCall ==
  ASSUME AuthInv, AuthNext, NEW c \in Calls, pc[c] # "done",
         UNCHANGED <<users, tokens>>,
         \/ \E s : Answer(c, s)
         \/ \E label : label # "done" /\ Goto(c, label)
  PROVE  Held!SessionsNext \/ UNCHANGED Held!sessions
<1>1. UNCHANGED <<Members, ActiveTokens, SpentTokens>>
  BY SessionsStay DEF Members
<1>2. CASE \E s : Answer(c, s)
  <2>1. Held!Waste(c)
    BY <1>1, <1>2, AnswerTakes DEF AuthInv, Held!Waste, Held!Take
  <2> QED
    BY <2>1 DEF Held!SessionsNext
<1>3. CASE \E label : label # "done" /\ Goto(c, label)
  BY <1>1, <1>3, GotoTakesNone DEF AuthInv, Held!sessions
<1> QED
  BY <1>2, <1>3

LEMMA RegisterIsSeen ==
  ASSUME AuthInv, AuthNext, NEW c \in Calls, NEW form \in Forms, Register(c, form)
  PROVE  Held!SessionsNext \/ UNCHANGED Held!sessions
<1>1. pc[c] # "done" /\ UNCHANGED tokens /\ \E s : Answer(c, s)
  BY DEF Register, Receive, Complete
<1>2. CASE UNCHANGED users
  BY <1>1, <1>2, QuietCall
<1>3. CASE ~ UNCHANGED users
  <2> DEFINE row == [id |-> c, email |-> Normalise(form.email),
                     hash |-> Hash(form.password, c)]
  <2>1. users' = users \cup {row} /\ row.id = c
    BY <1>3 DEF Register
  <2> HIDE DEF row
  <2>2. Members' = Members \cup {c}
    BY <2>1 DEF Members
  <2>3. Held!Join(c)
    BY <1>1, <2>2, SessionsStay, AnswerTakes DEF AuthInv, Held!Join, Held!Take
  <2> QED
    BY <2>3 DEF Held!SessionsNext
<1> QED
  BY <1>2, <1>3

\* A revocation spends the token of its row, if there is one and it is active.
LEMMA RevocationIsSeen ==
  ASSUME AuthInv, AuthNext, NEW c \in Calls, pc[c] # "done", NEW t,
         UNCHANGED users, tokens' = Revoked(t),
         \/ \E s : Answer(c, s)
         \/ \E label : label # "done" /\ Goto(c, label)
  PROVE  Held!SessionsNext \/ UNCHANGED Held!sessions
<1>1. CASE \A row \in tokens : row.id = t => row.revoked
  <2>1. \A row \in tokens : row.id = t => [row EXCEPT !.revoked = TRUE] = row
    BY <1>1 DEF AuthInv, AuthTypeOK, RefreshToken
  <2>2. UNCHANGED tokens
    BY <2>1 DEF Revoked
  <2> QED
    BY <2>2, QuietCall
<1>2. ASSUME NEW old \in tokens, old.id = t, ~old.revoked
      PROVE  Held!SessionsNext
  <2>1. \A row \in tokens : row \in RefreshToken
    BY DEF AuthInv, AuthTypeOK
  <2>2. \A row \in tokens : row.id = t => SessionToken(row) = SessionToken(old)
    BY <1>2 DEF AuthInv, TokenRows, SessionToken
  <2>3. \A row \in tokens : row.id # t => SessionToken(row) # SessionToken(old)
    BY <1>2 DEF SessionToken
  <2> DEFINE Gone(row) == [row EXCEPT !.revoked = TRUE]
             After(row) == SessionToken(row)'
  <2>4. /\ \A row \in tokens : /\ After(row) = SessionToken(row)
                               /\ After(Gone(row)) = SessionToken(row)
                               /\ Gone(row).revoked
        /\ tokens' = {IF row.id = t THEN Gone(row) ELSE row : row \in tokens}
        /\ ActiveTokens' = {After(row) : row \in {x \in tokens' : ~x.revoked}}
        /\ SpentTokens' = {After(row) : row \in {x \in tokens' : x.revoked}}
    BY <2>1, SessionTokenStays
    DEF SessionToken, RefreshToken, Revoked, ActiveTokens, SpentTokens
  <2> HIDE DEF Gone, After
  <2>6. ActiveTokens' = ActiveTokens \ {SessionToken(old)}
    <3>1. {x \in tokens' : ~x.revoked} = {x \in tokens : ~x.revoked /\ x.id # t}
      BY <2>4
    <3>2. ActiveTokens' = {SessionToken(x) : x \in {y \in tokens : ~y.revoked /\ y.id # t}}
      BY <2>4, <3>1
    <3> QED
      BY <2>2, <2>3, <3>2 DEF ActiveTokens
  <2>7. SpentTokens' = SpentTokens \cup {SessionToken(old)}
    <3>1. ASSUME NEW x \in tokens', x.revoked
          PROVE  After(x) \in SpentTokens \cup {SessionToken(old)}
      <4>1. PICK row \in tokens : x = IF row.id = t THEN Gone(row) ELSE row
        BY <2>4
      <4> QED
        BY <2>2, <2>4, <3>1, <4>1 DEF SpentTokens
    <3>2. ASSUME NEW row \in tokens, row.revoked \/ row = old
          PROVE  SessionToken(row) \in SpentTokens'
      <4> DEFINE x == IF row.id = t THEN Gone(row) ELSE row
      <4>1. x \in tokens' /\ x.revoked /\ After(x) = SessionToken(row)
        BY <1>2, <2>4, <3>2
      <4> HIDE DEF x
      <4> QED
        BY <2>4, <4>1
    <3>3. SpentTokens = {SessionToken(row) : row \in {x \in tokens : x.revoked}}
      BY DEF SpentTokens
    <3> QED
      BY <1>2, <2>4, <3>1, <3>2, <3>3
  <2>8. SessionToken(old) \in ActiveTokens
    BY <1>2 DEF ActiveTokens
  <2>9. (Calls \ Done)' \subseteq Calls \ Done
    BY AnswerTakes, GotoTakesNone DEF AuthInv
  <2>10. Held!Spend(SessionToken(old))
    BY <2>6, <2>7, <2>9 DEF Held!Spend, Members
  <2> QED
    BY <2>8, <2>10 DEF Held!SessionsNext
<1> QED
  BY <1>1, <1>2

\* A refresh stores its token after one of its user that has been revoked: the
\* user still exists, so the token that was presented is still in the table
\* (HandedOut), and it has been revoked by now (SpentIsDead).
LEMMA StoreContinues ==
  ASSUME AuthInv, NEW c \in Calls, Store(c), req[c].kind = "refresh"
  PROVE  \E old \in SpentTokens : old.id = req[c].token /\ old.user = user[c]
<1> DEFINE t == req[c].token
<1>1. t \in Issuers /\ user[c] = user[t] /\ Exists(user[t])
  BY DEF AuthInv, Authenticated, References, Store, OwnerExists
<1>2. PICK row \in tokens : row.id = t
  BY <1>1 DEF AuthInv, HandedOut
<1>3. row.revoked
  BY <1>2 DEF Store, AuthInv, SpentIsDead, Spends, Dead
<1>4. row.user = user[t]
  BY <1>2 DEF AuthInv, TokenRows
<1>5. SessionToken(row) \in SpentTokens
  BY <1>3 DEF SpentTokens
<1>6. SessionToken(row).id = t /\ SessionToken(row).user = user[c]
  BY <1>1, <1>2, <1>4 DEF SessionToken
<1> QED
  BY <1>5, <1>6

LEMMA StoreIsSeen ==
  ASSUME AuthInv, AuthNext, NEW c \in Calls, Store(c)
  PROVE  Held!SessionsNext
<1> DEFINE row == [id |-> c, user |-> user[c], revoked |-> FALSE,
                   expires |-> ExpiresAt(c)]
           new == [id |-> c, user |-> user[c], after |-> req[c].token]
<1>1. /\ pc[c] = "store" /\ Exists(user[c]) /\ tokens' = tokens \cup {row}
      /\ UNCHANGED <<users, req>> /\ \E s : Answer(c, s)
  BY DEF Store, OwnerExists, Complete
<1>2. user[c] \in Members /\ user[c] \in Calls
  BY <1>1 DEF Exists, Members, AuthInv, AuthTypeOK, User
<1>3. new \in Held!Token
  BY <1>1, <1>2, NamesAssumption
  DEF Held!Token, AuthInv, Progress, Authenticated
<1>4. ActiveTokens' = ActiveTokens \cup {new} /\ SpentTokens' = SpentTokens
  <2>1. /\ ~row.revoked /\ SessionToken(row) = new
        /\ \A x : SessionToken(x)' = SessionToken(x)
    BY <1>1 DEF SessionToken
  <2> HIDE DEF row, new
  <2>2. /\ {x \in tokens' : ~x.revoked} = {x \in tokens : ~x.revoked} \cup {row}
        /\ {x \in tokens' : x.revoked} = {x \in tokens : x.revoked}
    BY <1>1, <2>1
  <2> QED
    BY <2>1, <2>2 DEF ActiveTokens, SpentTokens
<1>5. Held!Give(new)
  BY <1>1, <1>2, <1>4, AnswerTakes DEF AuthInv, Held!Give, Held!Take, Members
<1>6. CASE req[c].kind = "login"
  BY <1>3, <1>5, <1>6 DEF AuthInv, Progress, Held!Open, Held!SessionsNext
<1>7. CASE req[c].kind = "refresh"
  <2>1. PICK old \in SpentTokens : old.id = req[c].token /\ old.user = user[c]
    BY <1>7, StoreContinues
  <2>2. Held!Continue(old, new)
    BY <1>5, <2>1 DEF Held!Continue
  <2> QED
    BY <1>3, <2>1, <2>2 DEF Held!SessionsNext
<1> QED
  BY <1>1, <1>6, <1>7 DEF AuthInv, Progress

LEMMA DeletionIsSeen ==
  ASSUME AuthInv, AuthNext, NEW u \in Calls, DeleteUser(u)
  PROVE  Held!SessionsNext
<1>1. /\ u \in Members
      /\ users' = {row \in users : row.id # u}
      /\ tokens' = {row \in tokens : row.user # u}
      /\ UNCHANGED <<pc, req>>
  BY DEF DeleteUser, Exists, Members
<1>2. Members' = Members \ {u}
  BY <1>1 DEF Members
<1>3. /\ ActiveTokens' = {t \in ActiveTokens : t.user # u}
      /\ SpentTokens' = {t \in SpentTokens : t.user # u}
  BY <1>1 DEF ActiveTokens, SpentTokens, SessionToken
<1>4. UNCHANGED (Calls \ Done)
  BY <1>1 DEF Done
<1>5. Held!Leave(u)
  BY <1>2, <1>3, <1>4 DEF Held!Leave
<1> QED
  BY <1>1, <1>5 DEF Held!SessionsNext

\* Every step is a step of Sessions or leaves the sessions as they are.
THEOREM AuthImplementsSessions == AuthSpec => ImplementsSessions
<1>1. AuthInit => Held!SessionsInit
  BY DEF AuthInit, Held!SessionsInit, Members, ActiveTokens, SpentTokens, Done
<1>2. AuthInv /\ [AuthNext]_vars => [Held!SessionsNext]_(Held!sessions)
  <2> SUFFICES ASSUME AuthInv, [AuthNext]_vars
               PROVE  Held!SessionsNext \/ UNCHANGED Held!sessions
    OBVIOUS
  <2>1. ASSUME NEW c \in Calls, NEW form \in Forms, Register(c, form), AuthNext
        PROVE  Held!SessionsNext \/ UNCHANGED Held!sessions
    BY <2>1, RegisterIsSeen
  <2>2. ASSUME NEW c \in Calls, NEW form \in Forms, Login(c, form), AuthNext
        PROVE  Held!SessionsNext \/ UNCHANGED Held!sessions
    <3>1. /\ pc[c] # "done" /\ UNCHANGED <<users, tokens>>
          /\ (\E s : Answer(c, s)) \/ Goto(c, "store")
      BY <2>2 DEF Login, Receive
    <3> QED
      BY <2>2, <3>1, QuietCall
  <2>3. ASSUME NEW c \in Calls, NEW token \in Presented, Refresh(c, token), AuthNext
        PROVE  Held!SessionsNext \/ UNCHANGED Held!sessions
    <3>1. /\ pc[c] # "done" /\ UNCHANGED <<users, tokens>>
          /\ (\E s : Answer(c, s)) \/ Goto(c, "revoke")
      BY <2>3 DEF Refresh, Receive
    <3> QED
      BY <2>3, <3>1, QuietCall
  <2>4. ASSUME NEW c \in Calls, NEW token \in Presented, Logout(c, token), AuthNext
        PROVE  Held!SessionsNext \/ UNCHANGED Held!sessions
    <3>1. /\ pc[c] # "done" /\ UNCHANGED users /\ \E s : Answer(c, s)
          /\ UNCHANGED tokens \/ tokens' = Revoked(token)
      BY <2>4 DEF Logout, Receive, Complete
    <3> QED
      BY <2>4, <3>1, QuietCall, RevocationIsSeen
  <2>5. ASSUME NEW c \in Calls, NEW token \in Presented, Me(c, token), AuthNext
        PROVE  Held!SessionsNext \/ UNCHANGED Held!sessions
    <3>1. pc[c] # "done" /\ UNCHANGED <<users, tokens>> /\ \E s : Answer(c, s)
      BY <2>5 DEF Me, Receive
    <3> QED
      BY <2>5, <3>1, QuietCall
  <2>6. ASSUME NEW c \in Calls, Revoke(c), AuthNext
        PROVE  Held!SessionsNext \/ UNCHANGED Held!sessions
    <3>1. /\ pc[c] # "done" /\ UNCHANGED users /\ tokens' = Revoked(req[c].token)
          /\ (\E s : Answer(c, s)) \/ Goto(c, "store")
      BY <2>6 DEF Revoke
    <3> QED
      BY <2>6, <3>1, RevocationIsSeen
  <2>7. ASSUME NEW c \in Calls, Store(c), AuthNext PROVE Held!SessionsNext
    BY <2>7, StoreIsSeen
  <2>8. ASSUME NEW c \in Calls, QueryFails(c), AuthNext
        PROVE  Held!SessionsNext \/ UNCHANGED Held!sessions
    <3>1. pc[c] # "done" /\ UNCHANGED <<users, tokens>> /\ \E s : Answer(c, s)
      BY <2>8 DEF QueryFails
    <3> QED
      BY <2>8, <3>1, QuietCall
  <2>9. ASSUME NEW u \in Calls, DeleteUser(u), AuthNext PROVE Held!SessionsNext
    BY <2>9, DeletionIsSeen
  <2>10. ASSUME UNCHANGED <<users, tokens, pc, req>> PROVE UNCHANGED Held!sessions
    BY <2>10, SessionsStay DEF Held!sessions, Members, Done
  <2> QED
    BY <2>1, <2>2, <2>3, <2>4, <2>5, <2>6, <2>7, <2>8, <2>9, <2>10
    DEF AuthNext, Handle, Tick, AllAnswered, vars
<1> QED
  BY <1>1, <1>2, AuthInvariant, PTL DEF AuthSpec, ImplementsSessions, Held!SessionsSpec
=============================================================================
