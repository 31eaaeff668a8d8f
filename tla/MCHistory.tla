----------------------------- MODULE MCHistory -----------------------------
(***************************************************************************)
(* A small instance of History for TLC: transfers to the reader and to     *)
(* another user, pages of one to three entries.                            *)
(***************************************************************************)
EXTENDS History

CONSTANTS u1, u2, ext

Deposits == {[from |-> ext, to |-> u, amount |-> 1] : u \in Users}

Limits == {NoLimit, 0, 1, 9}
=============================================================================
