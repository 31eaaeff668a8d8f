-------------------------------- MODULE Auth --------------------------------
(***************************************************************************)
(* The auth service (internal/user, pkg/token, pkg/authmw): accounts,      *)
(* refresh tokens with rotation, and signed access tokens.                 *)
(*                                                                         *)
(* One action per statement sent to the database.  No handler opens a      *)
(* transaction: between any two statements of a call the others run.       *)
(* The clocks of the service and of the database are one.                  *)
(***************************************************************************)
EXTENDS Integers, FiniteSets

CONSTANTS
    Calls,          \* the requests; a row or a token is named after the call
                    \* that makes it (ids are UUIDs, tokens 32 random bytes)
    Emails, Passwords, Normal,      \* what is typed, and ToLower(TrimSpace(.))
    GoodEmails, GoodPasswords,      \* what validate accepts
    Blank,          \* an empty field, a missing header, a body that is not JSON
    Stray,          \* a token that the service has not issued
    Forms,          \* the e-mails and passwords clients send together
    AccessTTL, RefreshTTL,
    MaxTime         \* bound of the clock

Form      == [email : Emails, password : Passwords]
TokenName == Calls \cup {Stray, Blank}
Request   == [kind : {"none", "register", "login", "refresh", "logout", "me"},
              form : Form, token : TokenName]

NoForm == [email |-> Blank, password |-> Blank]

ASSUME NormalAssumption == Normal \in [Emails -> Emails] /\ Normal[Blank] = Blank
ASSUME GoodAssumption ==
    /\ GoodEmails \subseteq Emails \ {Blank}
    /\ GoodPasswords \subseteq Passwords \ {Blank}
ASSUME FormsAssumption == NoForm \in Form /\ Forms \subseteq Form
ASSUME NamesAssumption == Stray \notin Calls /\ Blank \notin Calls
ASSUME TimeAssumption ==
    {AccessTTL, RefreshTTL, MaxTime} \subseteq Nat

\* argon2id: no two passwords or salts give the same key.
IDKey(plain, salt) == <<plain, salt>>

Hash(plain, salt) == [salt |-> salt, key |-> IDKey(plain, salt)]

\* Mutant: the key is compared with itself.
VerifyAny(plain, hash) == IDKey(hash.key[1], hash.salt) = hash.key

Verify(plain, hash) == IDKey(plain, hash.salt) = hash.key

User         == [id : Calls, email : Emails,
                 hash : {Hash(p, c) : p \in Passwords, c \in Calls}]
RefreshToken == [id : Calls, user : Calls, expires : Nat, revoked : BOOLEAN]

VARIABLES
    users,      \* auth.users
    tokens,     \* auth.refresh_tokens
    now,
    pc,         \* the statement each call sends next
    req,        \* what it was sent
    user,       \* u.ID, stored.UserID or claims.Subject in its handler
    signed,     \* when it signed its access token
    status,     \* what it answered; 0: nothing yet
    before      \* ghost: the calls answered, and whether its token was live,
                \* as it arrived

vars == <<users, tokens, now, pc, req, user, signed, status, before>>

Done == {c \in Calls : pc[c] = "done"}

\* The calls that have handed out a pair of tokens.
Issuers == {c \in Calls : status[c] = 200 /\ req[c].kind \in {"login", "refresh"}}

Exists(u) == \E row \in users : row.id = u

\* A token of a user who exists, within its lifetime.
TTL(kind)         == IF kind = "me" THEN AccessTTL ELSE RefreshTTL
Live(kind, token) == /\ token \in Calls
                     /\ Exists(user[token])
                     /\ now < signed[token] + TTL(kind)
-----------------------------------------------------------------------------
Goto(c, label) == pc' = [pc EXCEPT ![c] = label] /\ UNCHANGED status
Answer(c, s)   == /\ pc' = [pc EXCEPT ![c] = "done"]
                  /\ status' = [status EXCEPT ![c] = s]

AuthInit ==
    /\ users = {} /\ tokens = {} /\ now = 0
    /\ pc     = [c \in Calls |-> "idle"]
    /\ req    = [c \in Calls |-> [kind |-> "none", form |-> NoForm, token |-> Blank]]
    /\ user   = [c \in Calls |-> Blank]
    /\ signed = [c \in Calls |-> 0]
    /\ status = [c \in Calls |-> 0]
    /\ before = [c \in Calls |-> [done |-> {}, live |-> FALSE]]

\* A request arrives: the handler runs up to its first statement, and through
\* it.  (500: the statement fails, or the request is cancelled.)
Receive(c, kind, form, token) ==
    /\ pc[c] = "idle"
    /\ req' = [req EXCEPT ![c] = [kind |-> kind, form |-> form, token |-> token]]
    /\ before' = [before EXCEPT ![c] =
          [done |-> IF kind \in {"login", "refresh"} THEN Done ELSE {},
           live |-> kind \in {"refresh", "me"} /\ Live(kind, token)]]
    /\ UNCHANGED now

\* A statement of c succeeds; or it does, and its answer is lost.
Complete(c, s) == Answer(c, s) \/ Answer(c, 500)

\* Mutant: addresses are used as they are typed.
NormaliseNot(email) == email

\* strings.ToLower(strings.TrimSpace(req.Email))
Normalise(email) == Normal[email]

Valid(form) == Normalise(form.email) \in GoodEmails /\ form.password \in GoodPasswords

EmailTaken(email) == \E row \in users : row.email = email

\* Repo.Create
Create(row) == ~EmailTaken(row.email) /\ users' = users \cup {row}

\* Validation, password.Hash, Create.
Register(c, form) ==
    LET email == Normalise(form.email)
        row   == [id |-> c, email |-> email, hash |-> Hash(form.password, c)]
    IN  /\ Receive(c, "register", form, Blank)
        /\ \/ ~Valid(form) /\ Answer(c, 400) /\ UNCHANGED users
           \/ Valid(form) /\ EmailTaken(email) /\ Answer(c, 409) /\ UNCHANGED users
           \/ Valid(form) /\ Answer(c, 500) /\ UNCHANGED users
           \/ Valid(form) /\ Create(row) /\ Complete(c, 201)
        /\ UNCHANGED <<tokens, user, signed>>

\* Signer.Sign
Sign(c) == signed' = [signed EXCEPT ![c] = now]

\* issueTokens, up to its statement.
Issue(c) == Sign(c) /\ Goto(c, "store")

\* Repo.FindByEmail
FindByEmail(email) == {row \in users : row.email = email}

\* FindByEmail, password.Verify, and the tokens of issueTokens.
Login(c, form) ==
    LET email == Normalise(form.email)
        blank == email = Blank \/ form.password = Blank
        match == {row \in FindByEmail(email) : Verify(form.password, row.hash)}
    IN  /\ Receive(c, "login", form, Blank)
        /\ \/ blank /\ Answer(c, 400) /\ UNCHANGED <<user, signed>>
           \/ ~blank /\ match = {} /\ Answer(c, 401) /\ UNCHANGED <<user, signed>>
           \/ ~blank /\ Answer(c, 500) /\ UNCHANGED <<user, signed>>
           \/ /\ ~blank
              /\ \E row \in match : user' = [user EXCEPT ![c] = row.id]
              /\ Issue(c)
        /\ UNCHANGED <<users, tokens>>

\* Mutant: a revoked token is found.
ActiveOrRevoked(row) == now < row.expires

\* Mutant: an expired token is found.
ActiveForEver(row) == ~row.revoked

Active(row) == ~row.revoked /\ now < row.expires

\* Repo.FindRefreshToken
FindRefreshToken(token) == {row \in tokens : row.id = token /\ Active(row)}

\* The first statement of Refresh.
Refresh(c, token) ==
    LET found == FindRefreshToken(token)
    IN  /\ Receive(c, "refresh", NoForm, token)
        /\ \/ token = Blank /\ Answer(c, 400) /\ UNCHANGED user
           \/ token # Blank /\ found = {} /\ Answer(c, 401) /\ UNCHANGED user
           \/ token # Blank /\ Answer(c, 500) /\ UNCHANGED user
           \/ /\ \E row \in found : user' = [user EXCEPT ![c] = row.user]
              /\ Goto(c, "revoke")
        /\ UNCHANGED <<users, tokens, signed>>

\* Mutant: no row matches.
RevokedNone(t) == tokens

\* Repo.RevokeRefreshToken
Revoked(t) == {IF row.id = t THEN [row EXCEPT !.revoked = TRUE] ELSE row :
                 row \in tokens}

\* The second statement of Refresh, and the tokens of issueTokens.
Revoke(c) ==
    /\ pc[c] = "revoke"
    /\ tokens' = Revoked(req[c].token)
    /\ \/ Issue(c)
       \/ Answer(c, 500) /\ UNCHANGED signed
    /\ UNCHANGED <<users, now, req, user, before>>

Logout(c, token) ==
    /\ Receive(c, "logout", NoForm, token)
    /\ \/ token = Blank /\ Answer(c, 400) /\ UNCHANGED tokens
       \/ token # Blank /\ tokens' = Revoked(token) /\ Complete(c, 204)
       \/ token # Blank /\ Answer(c, 500) /\ UNCHANGED tokens
    /\ UNCHANGED <<users, user, signed>>

\* Mutant: there is no foreign key.
OwnerExistsNever(u) == TRUE

\* REFERENCES auth.users(id)
OwnerExists(u) == Exists(u)

\* Mutant: NewHandler gets its two durations the wrong way round.
ExpiresAtSwapped(c) == signed[c] + AccessTTL

\* time.Now().Add(h.refreshTTL)
ExpiresAt(c) == signed[c] + RefreshTTL

\* Repo.StoreRefreshToken, the last statement of Login and Refresh.
Store(c) ==
    /\ pc[c] = "store"
    /\ OwnerExists(user[c])
    /\ tokens' = tokens \cup {[id |-> c, user |-> user[c], revoked |-> FALSE,
                               expires |-> ExpiresAt(c)]}
    /\ Complete(c, 200)
    /\ UNCHANGED <<users, now, req, user, signed, before>>

\* Revoke or Store fails; Store must if the user is gone.
QueryFails(c) ==
    /\ pc[c] \in {"revoke", "store"}
    /\ Answer(c, 500)
    /\ UNCHANGED <<users, tokens, now, req, user, signed, before>>

\* Verifier.Verify: a token that was signed and has not expired.
VerifyToken(token) == token \in Calls /\ now < signed[token] + AccessTTL

\* RequireAuth
Accepted(token) == token # Blank /\ VerifyToken(token)

\* Mutant: a user who is gone is not found.
MeStatusNotFound(u) == IF Exists(u) THEN 200 ELSE 404

\* Repo.FindByID
MeStatus(u) == IF Exists(u) THEN 200 ELSE 401

Me(c, token) ==
    /\ Receive(c, "me", NoForm, token)
    /\ \/ ~Accepted(token) /\ Answer(c, 401) /\ UNCHANGED user
       \/ /\ Accepted(token)
          /\ user' = [user EXCEPT ![c] = user[token]]
          /\ Answer(c, MeStatus(user[token])) \/ Answer(c, 500)
    /\ UNCHANGED <<users, tokens, signed>>

\* "deleted account" (handler.go:305): its tokens go with it.
DeleteUser(u) ==
    /\ Exists(u)
    /\ users' = {row \in users : row.id # u}
    /\ tokens' = {row \in tokens : row.user # u}
    /\ UNCHANGED <<now, pc, req, user, signed, status, before>>

Tick ==
    /\ now < MaxTime
    /\ now' = now + 1
    /\ UNCHANGED <<users, tokens, pc, req, user, signed, status, before>>

AllAnswered == Done = Calls /\ UNCHANGED vars

\* Clients present tokens they have been given, or others.
Presented == Issuers \cup {Stray, Blank}

Handle(c) ==
    \/ \E form \in Forms : Register(c, form) \/ Login(c, form)
    \/ \E token \in Presented : Refresh(c, token) \/ Logout(c, token) \/ Me(c, token)
    \/ Revoke(c) \/ Store(c) \/ QueryFails(c)

AuthNext ==
    \/ \E c \in Calls : Handle(c)
    \/ \E u \in Calls : DeleteUser(u)
    \/ Tick
    \/ AllAnswered

AuthSpec == AuthInit /\ [][AuthNext]_vars
-----------------------------------------------------------------------------
(***************************************************************************)
(* Properties.                                                             *)
(***************************************************************************)

AuthTypeOK ==
    /\ users \subseteq User
    /\ tokens \subseteq RefreshToken
    /\ now \in Nat
    /\ pc \in [Calls -> {"idle", "revoke", "store", "done"}]
    /\ req \in [Calls -> Request]
    /\ user \in [Calls -> Calls \cup {Blank}]
    /\ signed \in [Calls -> Nat]
    /\ status \in [Calls -> {0, 200, 201, 204, 400, 401, 409, 500}]
    /\ before \in [Calls -> [done : SUBSET Calls, live : BOOLEAN]]

\* The two forms name the same account and the same password.
SameCredentials(f, g) == Normal[f.email] = Normal[g.email] /\ f.password = g.password

\* An address belongs to one person, in whatever case or spacing it is typed and
\* whoever registers at the same time: of the calls that were told 201, one
\* account is left.
RegisteredOnce ==
    \A c, d \in Calls :
        /\ status[c] = 201 /\ status[d] = 201
        /\ Normal[req[c].form.email] = Normal[req[d].form.email]
        /\ Exists(c) /\ Exists(d)
        => c = d

\* A login opens the account that was registered with its address and password,
\* and no other; and a registration that has been answered 201 is good for every
\* later login, as long as the account exists.
LoginIsRight ==
    \A c \in Calls : req[c].kind = "login" =>
        /\ status[c] = 200 =>
              /\ req[user[c]].kind = "register"
              /\ SameCredentials(req[user[c]].form, req[c].form)
        /\ status[c] = 401 => \A d \in before[c].done :
              status[d] = 201 /\ SameCredentials(req[d].form, req[c].form)
                  => ~Exists(d)

\* A token that was exchanged or logged out is good for nothing that comes
\* later.  (Calls that overlap may both succeed: handler.go:202 and :214 are two
\* statements.)
SpentIsFinal ==
    \A c, d \in Calls :
        /\ req[c].token \in Calls /\ req[d].token = req[c].token
        /\ \/ req[c].kind = "refresh" /\ status[c] = 200
           \/ req[c].kind = "logout" /\ status[c] = 204
        /\ req[d].kind = "refresh" /\ c \in before[d].done
        => status[d] # 200

\* A token, access or refresh, that is accepted had not expired and its user
\* existed when the call arrived; and the session stays with that user.
OnlyLiveTokens ==
    \A c \in Calls : status[c] = 200 /\ req[c].kind \in {"refresh", "me"} =>
        user[c] = user[req[c].token] /\ before[c].live

\* A token is refused only for a reason: it expired, its user is gone, or another
\* call was made with it (which may have failed after the revocation, or whose
\* answer may have been lost).
RefusalExplained ==
    \A c \in Calls :
        LET t == req[c].token
        IN  t \in Calls /\ status[c] = 401 =>
            \/ ~Live(req[c].kind, t)
            \/ /\ req[c].kind = "refresh"
               /\ \E d \in Calls \ {c} : req[d].token = t
                                      /\ req[d].kind \in {"refresh", "logout"}

\* handler.go:213: "Rotation: revoke the old token before issuing a new one."
\* A session never has an active token and an active successor of it.
RotationRevokesFirst ==
    \A row, old \in tokens :
        req[row.id].kind = "refresh" /\ old.id = req[row.id].token => old.revoked

-----------------------------------------------------------------------------
(***************************************************************************)
(* Auth implements Sessions.                                               *)
(***************************************************************************)
SessionToken(row) == [id |-> row.id, user |-> row.user, after |-> req[row.id].token]

Members == {row.id : row \in users}
ActiveTokens == {SessionToken(row) : row \in {r \in tokens : ~r.revoked}}
SpentTokens  == {SessionToken(row) : row \in {r \in tokens : r.revoked}}

Held == INSTANCE Sessions WITH
            Names <- Calls, NoName <- Blank, members <- Members,
            active <- ActiveTokens, spent <- SpentTokens, unused <- Calls \ Done

\* Whatever calls do between the statements of a login or a refresh, a token is
\* stored for a user who exists, in a session of that user, after the token it
\* replaces has been revoked; a revoked token stays so; and the tokens of a user
\* who is deleted go with the user, for ever.
ImplementsSessions == Held!SessionsSpec
=============================================================================
