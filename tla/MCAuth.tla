------------------------------- MODULE MCAuth -------------------------------
(***************************************************************************)
(* A small instance of Auth for TLC.                                       *)
(***************************************************************************)
EXTENDS Auth, TLC

CONSTANTS lower, upper, right, wrong

\* One address in two spellings.
MCNormal == [e \in {lower, upper, Blank} |-> IF e = upper THEN lower ELSE e]

MCForms == {[email |-> lower, password |-> right], [email |-> upper, password |-> right],
            [email |-> lower, password |-> wrong], [email |-> Blank, password |-> right]}

\* At most one of the calls is malformed, strange, or fails.
Odd(c)  == status[c] \in {400, 500} \/ req[c].token = Stray
OneOdd == Cardinality({c \in Calls : Odd(c)}) <= 1

Callers == Permutations(Calls)
=============================================================================
