------------------------------ MODULE Sessions ------------------------------
(***************************************************************************)
(* What the auth service promises of users and refresh tokens, without its *)
(* calls, its clock and its failures: a token is given to a member, is     *)
(* active until it is spent, and goes with its member; a session continues *)
(* only from a token of the same member that has been spent before; and    *)
(* nothing that was spent or is gone comes back, because a name is given   *)
(* once.                                                                   *)
(*                                                                         *)
(* A spent token may be followed by several: that is what calls that       *)
(* present one token at the same time add to a session that would else be  *)
(* a chain (handler.go:202 and :214 are two statements).                   *)
(***************************************************************************)
CONSTANTS Names, NoName     \* of members and tokens; no name

VARIABLES
    members,
    active, spent,      \* the tokens of the members
    unused              \* the names that may still be given

sessions == <<members, active, spent, unused>>

\* after: the token this one continues, or NoName if it opens a session.
Token == [id : Names, user : Names, after : Names \cup {NoName}]

SessionsInit == members = {} /\ active = {} /\ spent = {} /\ unused = Names

Take(n) == n \in unused /\ unused' = unused \ {n}

Join(u) ==
    /\ Take(u)
    /\ members' = members \cup {u}
    /\ UNCHANGED <<active, spent>>

Give(t) ==
    /\ t.user \in members
    /\ Take(t.id)
    /\ active' = active \cup {t}
    /\ UNCHANGED <<members, spent>>

\* A login.
Open(t) == t.after = NoName /\ Give(t)

\* A refresh.
Continue(old, t) == t.after = old.id /\ t.user = old.user /\ Give(t)

\* A refresh or a logout; its own name may be wasted.
Spend(t) ==
    /\ active' = active \ {t}
    /\ spent' = spent \cup {t}
    /\ unused' \subseteq unused
    /\ UNCHANGED members

\* A call that fails, or that needs no name.
Waste(n) == Take(n) /\ UNCHANGED <<members, active, spent>>

Leave(u) ==
    /\ members' = members \ {u}
    /\ active' = {t \in active : t.user # u}
    /\ spent' = {t \in spent : t.user # u}
    /\ UNCHANGED unused

SessionsNext ==
    \/ \E n \in Names : Join(n) \/ Waste(n)
    \/ \E t \in Token : Open(t) \/ \E old \in spent : Continue(old, t)
    \/ \E t \in active : Spend(t)
    \/ \E u \in members : Leave(u)

SessionsSpec == SessionsInit /\ [][SessionsNext]_sessions
=============================================================================
