----------------------------- MODULE MCTransfer -----------------------------
(***************************************************************************)
(* Small instances of Transfer for TLC.  The ids of the accounts are       *)
(* ordered with a system account between the two users, so that a user's   *)
(* account is locked first in some calls and second in others.             *)
(***************************************************************************)
EXTENDS TransferAudit, TLC

CONSTANTS u1, u2, ext, house, k1, k2

MCRank == [a \in Account |-> CASE a = u1 -> 1 [] a = ext -> 2
                                [] a = u2 -> 3 [] a = house -> 4]

Move(f, t, n, k) == [from |-> f, to |-> t, amount |-> n, key |-> k]

\* Deposits with and without a key (two of them overflow the column), a
\* withdrawal that competes with a transfer to the other user and back, and
\* calls that the first checks refuse.
MixedParams == {Move(ext, u1, 2, k1), Move(ext, u1, 2, NoKey),
                Move(u1, ext, 2, k2), Move(u1, u2, 1, NoKey),
                Move(u2, u1, 1, NoKey), Move(u1, u2, 0, k1),
                Move(u1, u1, 1, k1)}

\* One key used for three disjoint and overlapping pairs of accounts, so that
\* its uniqueness and not the row locks decides who posts it, and a withdrawal
\* and a transfer that compete for the money.
RaceParams == {Move(ext, u1, 1, k1), Move(house, u2, 1, k1),
               Move(u1, ext, 1, k2), Move(u1, u2, 1, NoKey)}

\* As RaceParams, without the transfer between users.
WaitParams == {Move(ext, u1, 1, k1), Move(house, u2, 1, k1),
               Move(u1, ext, 1, k2)}

\* A deposit and its withdrawal, under two keys.
WithdrawalParams == {Move(ext, u1, 2, k1), Move(u1, ext, 2, k2)}

Callers == Permutations(Requests)
=============================================================================
