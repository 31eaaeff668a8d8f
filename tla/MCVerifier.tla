----------------------------- MODULE MCVerifier -----------------------------
(***************************************************************************)
(* A small instance of Verifier for TLC.                                   *)
(***************************************************************************)
EXTENDS Verifier, TLC

Transfers == Permutations(Requests)
=============================================================================
