--------------------------- MODULE TransferAudit ---------------------------
(***************************************************************************)
(* The tables Transfer writes, under the queries of the verifier.          *)
(***************************************************************************)
EXTENDS TransferInv, Audit

\* The verifier's three checks find nothing, in whatever state they look at
\* the committed tables (verifier.go:45-105).
AuditClean ==
    /\ Unbalanced(entries) = {}
    /\ Drifted(accounts, balance, entries) = {}
    /\ Total(accounts, balance) = 0

\* The inductive invariant behind AuditClean, with IInv.  An account that has
\* no row yet counts as one that holds nothing and has no entries, so that
\* opening it adds nothing to the total.
AuditInv ==
    /\ IsFiniteSet(entries)
    /\ IsFiniteSet(accounts)
    /\ \A a \in Account : balance[a] = LedgerSum(OfAccount(entries, a))
    /\ \A a \in Account \ accounts : balance[a] = 0
    /\ Total(accounts, balance) = 0
=============================================================================
