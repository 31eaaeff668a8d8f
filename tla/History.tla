------------------------------ MODULE History ------------------------------
(***************************************************************************)
(* The history of an account: Handler.Transactions (handler.go) and        *)
(* Repo.ListEntries (repo.go), read page by page by a client that follows  *)
(* the cursor, while transfers keep being committed.                       *)
(*                                                                         *)
(* Entries are listed by created_at, which is the time their transaction   *)
(* began, but become visible when it commits: entries also appear in the   *)
(* middle of the history.  The server keeps nothing between two pages, so  *)
(* one client is all there is to look at.                                  *)
(*                                                                         *)
(* A page is the set of its entries: their order in it is that of Before.  *)
(* Entries of one account belong to different transactions, so the number  *)
(* of the transaction stands for the random id of the entry.               *)
(***************************************************************************)
EXTENDS WalletSchema, Sequences

CONSTANTS
    Owner,          \* the user who reads
    Moves,          \* the accounts and amounts of the transfers
    MaxTime,        \* bound of the clock of the database, in microseconds
    DefaultLimit,   \* 20 in Transactions
    MaxLimit,       \* 100 in Transactions
    RawLimits,      \* the values of the query parameter "limit"
    NoLimit,        \* it is missing, or no number
    NoCursor,       \* there is no cursor
    Garbled         \* a cursor that does not decode

Move == [from : Account, to : Account, amount : Bigint]

ASSUME HistoryAssumption ==
    /\ Requests \subseteq Nat
    /\ Owner \in Users
    /\ \A m \in Moves : m \in Move /\ m.from # m.to /\ m.amount > 0
    /\ MaxTime \in Nat
    /\ DefaultLimit \in Nat \ {0}
    /\ MaxLimit \in Nat /\ MaxLimit >= DefaultLimit
    /\ RawLimits \subseteq Int \cup {NoLimit}

VARIABLES
    now,        \* the clock of the database
    began,      \* when each transaction began, 0 before
    entries,    \* the committed rows of ledger_entries
    opened,     \* does the account exist
    stage,      \* the statement the handler sends next
    cursor,     \* the cursor the client has
    pages,      \* the pages of this listing
    atStart,    \* the history of the account when its first page was taken
    ended       \* the last page had no next_cursor

database == <<now, began, entries, opened>>
client   == <<cursor, pages, atStart, ended>>
historyVars == <<database, stage, client>>

Times == 1 .. MaxTime + 1

\* The two cursors that are none are not the cursor of an entry.
ASSUME CursorAssumption ==
    \A c \in {NoCursor, Garbled} : /\ c \notin [nanos : Nat, id : Requests]
                                  /\ c \notin [createdAt : Times, tx : Requests]

ListedEntry == [tx : Requests, account : Account, amount : Bigint \ {0},
                createdAt : Times]

\* ORDER BY created_at DESC, id DESC
Before(e, f) == \/ e.createdAt > f.createdAt
                \/ e.createdAt = f.createdAt /\ e.tx > f.tx

OwnEntries == {e \in entries : e.account = Owner}
-----------------------------------------------------------------------------
HistoryInit ==
    /\ now = 1
    /\ began = [t \in Requests |-> 0]
    /\ entries = {}
    /\ opened = FALSE
    /\ stage = "getAccount"
    /\ cursor = NoCursor
    /\ pages = <<>>
    /\ atStart = {}
    /\ ended = FALSE

TimePasses ==
    /\ now \in Times \ {MaxTime + 1}
    /\ now' = now + 1
    /\ UNCHANGED <<began, entries, opened, stage, client>>

\* The INSERT of GetOrCreateUserAccount.
OpenAccount ==
    /\ ~opened
    /\ opened' = TRUE
    /\ UNCHANGED <<now, began, entries, stage, client>>

\* A Transfer begins: NOW() is this time until it ends.
BeginTransfer(t) ==
    /\ began[t] = 0
    /\ began' = [began EXCEPT ![t] = now]
    /\ UNCHANGED <<now, entries, opened, stage, client>>

\* It commits its two entries.
CommitTransfer(t, m) ==
    /\ began[t] # 0
    /\ \A e \in entries : e.tx # t
    /\ Owner \in {m.from, m.to} => opened
    /\ entries' = entries \cup
          {[tx |-> t, account |-> m.from, amount |-> -m.amount, createdAt |-> began[t]],
           [tx |-> t, account |-> m.to, amount |-> m.amount, createdAt |-> began[t]]}
    /\ UNCHANGED <<now, began, opened, stage, client>>
-----------------------------------------------------------------------------
\* Mutant: no upper limit.
ParseLimitUncapped(raw) ==
    IF raw = NoLimit THEN DefaultLimit ELSE IF raw <= 0 THEN DefaultLimit ELSE raw

ParseLimit(raw) ==
    IF raw = NoLimit THEN DefaultLimit
    ELSE IF raw <= 0 THEN DefaultLimit
    ELSE IF raw > MaxLimit THEN MaxLimit
    ELSE raw

\* Mutant: the cursor counts in units of two microseconds.
EncodeCursorCoarse(e) == [nanos |-> 1000 * (e.createdAt - (e.createdAt % 2)), id |-> e.tx]

\* ts.UnixNano(), of a column that counts in microseconds.
EncodeCursor(e) == [nanos |-> 1000 * e.createdAt, id |-> e.tx]

\* time.Unix(0, nanos), which the driver sends in microseconds.
DecodeCursor(c) ==
    IF c \in {NoCursor, Garbled} THEN NoCursor
    ELSE [createdAt |-> c.nanos \div 1000, tx |-> c.id]

\* Mutant: entries with the time of the cursor are taken to be on the last page.
OlderTimeOnly(from) ==
    {e \in OwnEntries : from # NoCursor => e.createdAt < from.createdAt}

\* (le.created_at, le.id) < (cursorTS, cursorID)
Older(from) == {e \in OwnEntries : from # NoCursor => Before(from, e)}

\* LIMIT n
First(n, rows) == {e \in rows : Cardinality({f \in rows : Before(f, e)}) < n}

ListEntries(from, n) == First(n, Older(from))

\* Mutant: the cursor is that of the first entry of the page.
LastNewest(items) == CHOOSE e \in items : \A f \in items : f = e \/ Before(e, f)

\* entries[len(entries)-1], of the limit entries that are kept
Last(items) == CHOOSE e \in items : \A f \in items : f = e \/ Before(f, e)

\* Mutant: a full page is taken to have a successor.
HasMoreFull(rows, limit) == Cardinality(rows) >= limit

\* len(entries) > limit
HasMore(rows, limit) == Cardinality(rows) > limit

\* GetUserAccount: no account yet is an empty history.
GetAccount ==
    /\ stage = "getAccount"
    /\ ~ended
    /\ \/ /\ opened
          /\ stage' = "list"
          /\ UNCHANGED client
       \/ /\ ~opened
          /\ pages' = <<{}>>
          /\ atStart' = OwnEntries
          /\ ended' = TRUE
          /\ UNCHANGED <<stage, cursor>>
    /\ UNCHANGED database

\* ListEntries, and the response.  A cursor that does not decode is no cursor: the
\* listing begins again.
List(raw, c) ==
    LET limit == ParseLimit(raw)
        from  == DecodeCursor(c)
        rows  == ListEntries(from, limit + 1)
        items == First(limit, rows)
    IN  /\ stage = "list"
        /\ stage' = "getAccount"
        /\ pages' = IF from = NoCursor THEN <<items>> ELSE Append(pages, items)
        /\ atStart' = IF from = NoCursor THEN OwnEntries ELSE atStart
        /\ \/ /\ HasMore(rows, limit)
              /\ cursor' = EncodeCursor(Last(items))
              /\ ended' = FALSE
           \/ /\ ~HasMore(rows, limit)
              /\ cursor' = NoCursor
              /\ ended' = TRUE
        /\ UNCHANGED database

\* The statement fails: 500, and the client asks again.
ListFails ==
    /\ stage = "list"
    /\ stage' = "getAccount"
    /\ UNCHANGED <<database, client>>

\* The client reads the history again.
StartOver ==
    /\ ended
    /\ ended' = FALSE
    /\ pages' = <<>>
    /\ atStart' = {}
    /\ UNCHANGED <<database, stage, cursor>>

HistoryNext ==
    \/ TimePasses \/ OpenAccount
    \/ \E t \in Requests : BeginTransfer(t)
    \/ \E t \in Requests, m \in Moves : CommitTransfer(t, m)
    \/ GetAccount
    \/ \E raw \in RawLimits, c \in {cursor, Garbled} : List(raw, c)
    \/ ListFails \/ StartOver

HistorySpec == HistoryInit /\ [][HistoryNext]_historyVars
-----------------------------------------------------------------------------
(***************************************************************************)
(* Properties.                                                             *)
(***************************************************************************)

\* No page is longer than the greatest limit (handler.go:287).
HistoryTypeOK ==
    /\ now \in Times
    /\ began \in [Requests -> Times \cup {0}]
    /\ entries \subseteq ListedEntry
    /\ opened \in BOOLEAN
    /\ stage \in {"getAccount", "list"}
    /\ cursor \in [nanos : Nat, id : Requests] \cup {NoCursor}
    /\ ended \in BOOLEAN
    /\ \A i \in 1 .. Len(pages) : /\ pages[i] \subseteq OwnEntries
                                  /\ Cardinality(pages[i]) <= MaxLimit

\* "newest first", across pages too: whatever is committed between two pages,
\* every entry of an earlier page comes before every entry of a later one.  So no
\* entry is listed twice.
NewestFirst ==
    \A i, j \in 1 .. Len(pages) : i < j =>
        \A e \in pages[i], f \in pages[j] : Before(e, f)

\* A client that follows the cursor to the end has seen every entry that was
\* there when it took the first page, and none of another account.
NothingSkipped ==
    ended => /\ atStart \subseteq UNION {pages[i] : i \in 1 .. Len(pages)}
             /\ \A i \in 1 .. Len(pages) : pages[i] \subseteq OwnEntries

\* next_cursor is given only if there is a next page: it is not empty.
NextPageHasItems == \A i \in 2 .. Len(pages) : pages[i] # {}
=============================================================================
