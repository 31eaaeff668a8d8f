---------------------------- MODULE WalletSchema ----------------------------
(***************************************************************************)
(* The schema "wallet" of the database: what a row of each table is, and   *)
(* the constraints Postgres enforces on it.                                *)
(*                                                                         *)
(* An account is identified with its owner (accounts_unique_owner, and the *)
(* only currency is USD), a transaction with the call that inserts it (its *)
(* id is a fresh random UUID, so two calls never share one).               *)
(***************************************************************************)
EXTENDS Integers, FiniteSets

CONSTANTS
    Users,      \* owners of accounts with owner_type = 'user'
    Systems,    \* owners of accounts with owner_type = 'system'
    Requests,   \* calls of Transfer; also the ids of transactions
    Keys,       \* idempotency keys
    NoKey,      \* idempotency_key IS NULL
    BigintMax   \* greatest value of the column type BIGINT

ASSUME OwnersAssumption  == Users \cap Systems = {}
ASSUME KeysAssumption    == NoKey \notin Keys
ASSUME SystemsAssumption == IsFiniteSet(Systems)
ASSUME BigintAssumption  == BigintMax \in Nat \ {0}

Account == Users \cup Systems

\* Mutant: no account is the user's.
OwnerTypeSystem(a) == "system"

OwnerType(a) == IF a \in Users THEN "user" ELSE "system"

Bigint == -(BigintMax + 1) .. BigintMax

\* Mutant: sums are not confined to the column.
BalanceAllowedAnyWidth(a, b) == OwnerType(a) = "system" \/ b >= 0

\* What an UPDATE may leave in accounts.balance: the width of the column and
\* the constraint user_balance_non_negative.
BalanceAllowed(a, b) ==
    /\ b \in Bigint
    /\ OwnerType(a) = "system" \/ b >= 0

Transaction == [id : Requests, key : Keys \cup {NoKey}]

\* ledger_amount_nonzero
LedgerEntry == [tx : Requests, account : Account, amount : Bigint \ {0}]

\* What the migration leaves: the rows seeded for the system accounts.
SeededAccounts == Systems
=============================================================================
