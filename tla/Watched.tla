------------------------------ MODULE Watched ------------------------------
(***************************************************************************)
(* The verifier beside the callers of Transfer (main.go:55-57): its loop   *)
(* reads the tables they write, between any two of their statements, and   *)
(* nothing else writes them.                                               *)
(*                                                                         *)
(* An account without a row counts as a row that holds nothing and has no  *)
(* entries, which no query of the verifier tells from none.                *)
(***************************************************************************)
EXTENDS TransferAudit

CONSTANTS MaxFailures, MayTruncate      \* as in Verifier

VARIABLES tick, cancelled, phase, report, log, soundAtStart, failures

Beside == INSTANCE VerifierProofs WITH MaxAmount <- BigintMax, corrupted <- FALSE

LoopSpec == Beside!LoopInit /\ [][Beside!LoopNext]_(Beside!loop)

WatchedSpec == Spec /\ LoopSpec
=============================================================================
