--------------------------- MODULE HistoryProofs ----------------------------
(***************************************************************************)
(* Theorems about History, for every number of transfers, every clock and  *)
(* every limit of a page.                                                  *)
(*                                                                         *)
(* The first part is about ORDER BY and LIMIT: what First and Last are of  *)
(* a finite set of entries that Before orders.  A page is then described   *)
(* by one lemma (PageOf), and the invariant says where the cursor stands.  *)
(***************************************************************************)
EXTENDS History, FiniteSetTheorems, TLAPS

\* What a listing is made of.
Chain(S) == /\ IsFiniteSet(S)
            /\ S \subseteq ListedEntry
            /\ \A e, f \in S : e.tx = f.tx => e = f

Ahead(e, S)  == {f \in S : Before(f, e)}
Behind(e, S) == {f \in S : Before(e, f)}

LEMMA SubChain ==
  ASSUME NEW S, Chain(S), NEW T \in SUBSET S
  PROVE  Chain(T)
BY FS_Subset DEF Chain

LEMMA Ordered ==
  ASSUME NEW S, Chain(S)
  PROVE  /\ \A e, f \in S : e = f \/ Before(e, f) \/ Before(f, e)
         /\ \A e \in S : ~Before(e, e)
         /\ \A e, f \in S : ~(Before(e, f) /\ Before(f, e))
         /\ \A e, f, g \in S : Before(e, f) /\ Before(f, g) => Before(e, g)
<1>1. ASSUME NEW e \in S PROVE e.tx \in Nat /\ e.createdAt \in Nat
  <2>1. e.tx \in Requests /\ e.createdAt \in Times
    BY DEF Chain, ListedEntry
  <2>2. Requests \subseteq Nat /\ Times \subseteq Nat
    BY HistoryAssumption DEF Times
  <2> QED
    BY <2>1, <2>2
<1> QED
  BY <1>1 DEF Chain, Before

LEMMA Count ==
  ASSUME NEW S, Chain(S), NEW T \in SUBSET S
  PROVE  IsFiniteSet(T) /\ Cardinality(T) \in Nat
BY FS_Subset, FS_CardinalityType DEF Chain

\* A function to the naturals is smallest somewhere.
LEMMA Smallest ==
  ASSUME NEW S, S # {}, NEW size \in [S -> Nat]
  PROVE  \E m \in S : \A e \in S : size[m] <= size[e]
<1> DEFINE U == {size[e] : e \in S}
           R == {s \in Nat \X Nat : s[1] < s[2]}
<1>1. U \subseteq Nat /\ U # {}
  OBVIOUS
<1>2. IsWellFoundedOn(R, Nat)
  BY NatLessThanWellFounded DEF OpToRel
<1>3. \E x \in U : \A y \in U : <<y, x>> \notin R
  <2> HIDE DEF U, R
  <2> QED
    BY <1>1, <1>2, WFMin
<1>4. PICK x \in U : \A y \in U : ~(y < x)
  BY <1>1, <1>3
<1>5. PICK m \in S : x = size[m]
  BY <1>4
<1>6. ASSUME NEW e \in S PROVE size[m] <= size[e]
  <2>1. ~(size[e] < size[m])
    BY <1>4, <1>5
  <2> QED
    BY <2>1
<1> QED
  BY <1>6

\* A listing that is not empty has a first and a last entry.
LEMMA FirstOf ==
  ASSUME NEW S, Chain(S), S # {}
  PROVE  \E m \in S : \A e \in S : e = m \/ Before(m, e)
<1> DEFINE size == [e \in S |-> Cardinality(Ahead(e, S))]
<1>1. \A e \in S : Ahead(e, S) \in SUBSET S
  BY DEF Ahead
<1>2. size \in [S -> Nat]
  BY <1>1, Count
<1>3. PICK m \in S : \A e \in S : size[m] <= size[e]
  <2> HIDE DEF size
  <2> QED
    BY <1>2, Smallest
<1>4. ASSUME NEW e \in S, Before(e, m) PROVE FALSE
  <2>1. Ahead(e, S) \in SUBSET Ahead(m, S)
    BY <1>4, Ordered DEF Ahead
  <2>2. e \in Ahead(m, S) /\ e \notin Ahead(e, S)
    BY <1>4, Ordered DEF Ahead
  <2>3. IsFiniteSet(Ahead(m, S)) /\ Cardinality(Ahead(m, S)) \in Nat
        /\ Cardinality(Ahead(e, S)) \in Nat
    BY <1>1, Count
  <2>4. Cardinality(Ahead(e, S)) < Cardinality(Ahead(m, S))
    BY <2>1, <2>2, <2>3, FS_Subset
  <2> QED
    BY <1>3, <2>3, <2>4
<1> QED
  BY <1>4, Ordered

LEMMA LastOf ==
  ASSUME NEW S, Chain(S), S # {}
  PROVE  Last(S) \in S /\ \A e \in S : e = Last(S) \/ Before(e, Last(S))
<1> DEFINE size == [e \in S |-> Cardinality(Behind(e, S))]
<1>1. \A e \in S : Behind(e, S) \in SUBSET S
  BY DEF Behind
<1>2. size \in [S -> Nat]
  BY <1>1, Count
<1>3. PICK m \in S : \A e \in S : size[m] <= size[e]
  <2> HIDE DEF size
  <2> QED
    BY <1>2, Smallest
<1>4. ASSUME NEW e \in S, Before(m, e) PROVE FALSE
  <2>1. Behind(e, S) \in SUBSET Behind(m, S)
    BY <1>4, Ordered DEF Behind
  <2>2. e \in Behind(m, S) /\ e \notin Behind(e, S)
    BY <1>4, Ordered DEF Behind
  <2>3. IsFiniteSet(Behind(m, S)) /\ Cardinality(Behind(m, S)) \in Nat
        /\ Cardinality(Behind(e, S)) \in Nat
    BY <1>1, Count
  <2>4. Cardinality(Behind(e, S)) < Cardinality(Behind(m, S))
    BY <2>1, <2>2, <2>3, FS_Subset
  <2> QED
    BY <1>3, <2>3, <2>4
<1>5. \E l \in S : \A e \in S : e = l \/ Before(e, l)
  BY <1>4, Ordered
<1> QED
  BY <1>5 DEF Last

-----------------------------------------------------------------------------
(***************************************************************************)
(* LIMIT.                                                                  *)
(***************************************************************************)

\* The entries that LIMIT keeps come before those it drops.
LEMMA FirstBefore ==
  ASSUME NEW S, Chain(S), NEW n \in Nat
  PROVE  /\ First(n, S) \in SUBSET S
         /\ \A e \in First(n, S), f \in S \ First(n, S) : Before(e, f)
<1>1. First(n, S) \in SUBSET S
  BY DEF First
<1>2. ASSUME NEW e \in First(n, S), NEW f \in S, Before(f, e)
      PROVE  f \in First(n, S)
  <2>1. Ahead(f, S) \in SUBSET Ahead(e, S) /\ Ahead(e, S) \in SUBSET S
    BY <1>1, <1>2, Ordered DEF Ahead
  <2>2. Cardinality(Ahead(f, S)) <= Cardinality(Ahead(e, S))
    BY <2>1, Count, FS_Subset
  <2>3. Cardinality(Ahead(e, S)) \in Nat /\ Cardinality(Ahead(f, S)) \in Nat
    BY <2>1, Count
  <2>4. Cardinality(Ahead(e, S)) < n
    BY DEF First, Ahead
  <2>5. Cardinality(Ahead(f, S)) < n
    BY <2>2, <2>3, <2>4
  <2> QED
    BY <2>5 DEF First, Ahead
<1> QED
  BY <1>1, <1>2, Ordered

\* It keeps no more than n.
LEMMA FirstAtMost ==
  ASSUME NEW S, Chain(S), NEW n \in Nat
  PROVE  Cardinality(First(n, S)) <= n
<1> DEFINE F == First(n, S)
           l == Last(F)
<1>1. F \in SUBSET S /\ Chain(F)
  BY FirstBefore, SubChain
<1>2. CASE F = {}
  BY <1>2, FS_EmptySet
<1>3. CASE F # {}
  <2>1. l \in F /\ \A e \in F : e = l \/ Before(e, l)
    <3> HIDE DEF F
    <3> QED
      BY <1>1, <1>3, LastOf
  <2>2. F \ {l} \in SUBSET Ahead(l, S) /\ Ahead(l, S) \in SUBSET S
    BY <1>1, <2>1 DEF Ahead
  <2>3. Cardinality(F \ {l}) <= Cardinality(Ahead(l, S))
    BY <2>2, Count, FS_Subset
  <2>4. IsFiniteSet(F) /\ Cardinality(F) \in Nat /\ Cardinality(Ahead(l, S)) \in Nat
    BY <1>1, <2>2, Count
  <2>5. Cardinality(F \ {l}) = Cardinality(F) - 1
    <3> HIDE DEF F, l
    <3> QED
      BY <2>1, <2>4, FS_RemoveElement
  <2>6. Cardinality(Ahead(l, S)) < n
    BY <2>1 DEF First, Ahead
  <2> QED
    BY <2>3, <2>4, <2>5, <2>6
<1> QED
  BY <1>2, <1>3

\* It drops only what is more than n.
LEMMA FirstAtLeast ==
  ASSUME NEW S, Chain(S), NEW n \in Nat, First(n, S) # S
  PROVE  Cardinality(First(n, S)) >= n
<1> DEFINE F == First(n, S)
<1>1. F \in SUBSET S /\ S \ F \in SUBSET S /\ S \ F # {}
  BY FirstBefore
<1>2. PICK m \in S \ F : \A e \in S \ F : e = m \/ Before(m, e)
  <2>1. Chain(S \ F)
    BY <1>1, SubChain
  <2> HIDE DEF F
  <2> QED
    BY <1>1, <2>1, FirstOf
<1>3. Ahead(m, S) \in SUBSET F
  BY <1>2, Ordered DEF Ahead
<1>4. IsFiniteSet(F) /\ Cardinality(F) \in Nat /\ Cardinality(Ahead(m, S)) \in Nat
  BY <1>1, <1>3, Count
<1>5. Cardinality(Ahead(m, S)) <= Cardinality(F)
  BY <1>3, <1>4, FS_Subset
<1>6. ~(Cardinality(Ahead(m, S)) < n)
  BY <1>2 DEF First, Ahead
<1> QED
  BY <1>4, <1>5, <1>6

\* What a page is of the entries that are still to be listed: the limit is one
\* more than the page, to know whether there are others.
LEMMA PageOf ==
  ASSUME NEW S, Chain(S), NEW limit \in Nat \ {0}, NEW rows, NEW items,
         rows = First(limit + 1, S), items = First(limit, rows)
  PROVE  /\ items \in SUBSET S
         /\ Cardinality(items) <= limit
         /\ S # {} => items # {}
         /\ \A e \in items, f \in S \ items : Before(e, f)
         /\ HasMore(rows, limit) => items # {} /\ S \ items # {}
         /\ ~HasMore(rows, limit) => items = S
<1>1. limit \in Nat /\ limit + 1 \in Nat
  OBVIOUS
<1>2. /\ rows \in SUBSET S
      /\ \A e \in rows, f \in S \ rows : Before(e, f)
  BY <1>1, FirstBefore
<1>3. Chain(rows)
  BY <1>2, SubChain
<1>4. /\ items \in SUBSET rows
      /\ \A e \in items, f \in rows \ items : Before(e, f)
      /\ Cardinality(items) <= limit
  BY <1>1, <1>3, FirstBefore, FirstAtMost
<1>5. /\ IsFiniteSet(rows) /\ Cardinality(rows) \in Nat
      /\ IsFiniteSet(items) /\ Cardinality(items) \in Nat
  BY <1>3, <1>4, Count DEF Chain
<1>6. rows # S => Cardinality(rows) >= limit + 1
  BY <1>1, FirstAtLeast
<1>7. items # rows => Cardinality(items) >= limit
  BY <1>1, <1>3, FirstAtLeast
<1>8. rows # {} => items # {}
  BY <1>5, <1>7, FS_EmptySet
<1>9. S # {} => rows # {}
  BY <1>5, <1>6, FS_EmptySet
<1>10. ASSUME HasMore(rows, limit) PROVE items # {} /\ S \ items # {}
  <2>1. Cardinality(rows) > limit
    BY <1>10 DEF HasMore
  <2>2. items # rows
    BY <1>4, <1>5, <2>1
  <2>3. rows # {}
    BY <1>4, <2>2
  <2> QED
    BY <1>2, <1>4, <1>8, <2>2, <2>3
<1>11. ASSUME ~HasMore(rows, limit) PROVE items = S
  <2>1. Cardinality(rows) <= limit
    BY <1>5, <1>11 DEF HasMore
  <2>2. rows = S
    BY <1>5, <1>6, <2>1
  <2>3. items = rows
    BY <1>4, <1>5, <1>7, <2>1, FS_Subset
  <2> QED
    BY <2>2, <2>3
<1> QED
  BY <1>2, <1>4, <1>8, <1>9, <1>10, <1>11

-----------------------------------------------------------------------------
(***************************************************************************)
(* The invariant.                                                          *)
(***************************************************************************)

Listed(e) == \E i \in 1 .. Len(pages) : e \in pages[i]

\* An account has one entry of a transaction.
OneEntryEach ==
    /\ IsFiniteSet(entries)
    /\ \A e, f \in entries : e.tx = f.tx /\ e.account = f.account => e = f

\* The handler lists only accounts that exist, and only these have entries.
OpenedFirst ==
    /\ ~opened => OwnEntries = {}
    /\ stage = "list" => opened
    /\ ended => cursor = NoCursor

\* The cursor is that of an entry l: what is listed is not behind l, there is
\* an entry behind it, and whatever has to be listed has been or is behind l.
At(l) == /\ cursor = EncodeCursor(l)
         /\ \A e \in OwnEntries : Listed(e) => e = l \/ Before(e, l)
         /\ \E e \in OwnEntries : Before(l, e)
         /\ \A e \in atStart : Listed(e) \/ Before(l, e)

CursorStands ==
    /\ cursor # NoCursor => \E l \in OwnEntries : At(l)
    /\ cursor = NoCursor => \A e \in atStart : Listed(e)
    /\ atStart \subseteq OwnEntries

HistoryInv ==
    /\ HistoryTypeOK /\ pages \in Seq(SUBSET entries)
    /\ OneEntryEach /\ OpenedFirst /\ CursorStands
    /\ NewestFirst /\ NextPageHasItems

LEMMA OwnChain ==
  ASSUME HistoryTypeOK, OneEntryEach
  PROVE  Chain(OwnEntries)
<1>1. OwnEntries \subseteq entries
  BY DEF OwnEntries
<1>2. IsFiniteSet(OwnEntries)
  BY <1>1, FS_Subset DEF OneEntryEach
<1> QED
  BY <1>1, <1>2 DEF Chain, OwnEntries, OneEntryEach, HistoryTypeOK

LEMMA LimitRange ==
  ASSUME NEW raw \in RawLimits
  PROVE  ParseLimit(raw) \in Nat \ {0} /\ ParseLimit(raw) <= MaxLimit
<1>1. /\ raw \in Int \cup {NoLimit}
      /\ DefaultLimit \in Nat \ {0} /\ MaxLimit \in Nat /\ MaxLimit >= DefaultLimit
  BY HistoryAssumption
<1> QED
  BY <1>1 DEF ParseLimit

\* The cursor of an entry is decoded to the position of the entry.
LEMMA RoundTrip ==
  ASSUME NEW e \in ListedEntry
  PROVE  LET c == EncodeCursor(e)
             d == DecodeCursor(c)
         IN  /\ c \in [nanos : Nat, id : Requests] /\ c # NoCursor
             /\ d # NoCursor
             /\ d.createdAt = e.createdAt /\ d.tx = e.tx
<1> DEFINE c == EncodeCursor(e)
           d == DecodeCursor(c)
<1>1. e.tx \in Requests /\ e.createdAt \in Times
  BY DEF ListedEntry
<1>2. Times \subseteq Nat
  BY HistoryAssumption DEF Times
<1>3. 1000 * e.createdAt \in Nat /\ (1000 * e.createdAt) \div 1000 = e.createdAt
  <2>1. \A x \in Nat : 1000 * x \in Nat /\ (1000 * x) \div 1000 = x
    OBVIOUS
  <2>2. e.createdAt \in Nat
    BY <1>1, <1>2
  <2> DEFINE x == e.createdAt
  <2> HIDE DEF x
  <2>3. x \in Nat
    BY <2>2 DEF x
  <2>4. 1000 * x \in Nat /\ (1000 * x) \div 1000 = x
    BY <2>1, <2>3
  <2> QED
    BY <2>4 DEF x
<1>4. c \in [nanos : Nat, id : Requests]
  BY <1>1, <1>3 DEF EncodeCursor
<1>5. c \notin {NoCursor, Garbled}
  BY <1>4, CursorAssumption
<1>6. d = [createdAt |-> e.createdAt, tx |-> e.tx]
  BY <1>3, <1>5 DEF DecodeCursor, EncodeCursor
<1>7. d # NoCursor
  BY <1>1, <1>6, CursorAssumption
<1> QED
  BY <1>4, <1>5, <1>6, <1>7

-----------------------------------------------------------------------------
(***************************************************************************)
(* The steps of the database: entries are added, pages stay.               *)
(***************************************************************************)

LEMMA MoreEntries ==
  ASSUME HistoryInv, entries \subseteq entries', UNCHANGED <<pages, cursor, atStart>>
  PROVE  /\ OwnEntries \subseteq OwnEntries'
         /\ pages' \in Seq(SUBSET entries')
         /\ CursorStands' /\ NewestFirst' /\ NextPageHasItems'
         /\ \A i \in 1 .. Len(pages) : /\ pages'[i] \subseteq OwnEntries'
                                       /\ Cardinality(pages'[i]) <= MaxLimit
<1>1. OwnEntries \subseteq OwnEntries'
  BY DEF OwnEntries
<1>2. pages' \in Seq(SUBSET entries')
  BY DEF HistoryInv
<1>3. \A e : Listed(e)' <=> Listed(e)
  BY DEF Listed
<1>4. \A e : Listed(e) => e \in OwnEntries
  BY DEF Listed, HistoryInv, HistoryTypeOK
<1>5. CursorStands'
  <2>1. ASSUME NEW l \in OwnEntries, At(l) PROVE At(l)'
    BY <1>1, <1>3, <1>4, <2>1 DEF At
  <2> QED
    BY <1>1, <1>3, <2>1 DEF HistoryInv, CursorStands
<1>6. NewestFirst' /\ NextPageHasItems'
  BY DEF HistoryInv, NewestFirst, NextPageHasItems
<1> QED
  BY <1>1, <1>2, <1>5, <1>6 DEF HistoryInv, HistoryTypeOK

LEMMA CommitStep ==
  ASSUME HistoryInv, NEW t \in Requests, NEW m \in Moves, CommitTransfer(t, m)
  PROVE  HistoryInv'
<1> DEFINE debit  == [tx |-> t, account |-> m.from, amount |-> -m.amount, createdAt |-> began[t]]
           credit == [tx |-> t, account |-> m.to, amount |-> m.amount, createdAt |-> began[t]]
<1>1. m \in Move /\ m.from # m.to /\ m.amount > 0
  BY HistoryAssumption
<1>2. began[t] \in Times
  BY DEF HistoryInv, HistoryTypeOK, CommitTransfer
<1>3. m.amount \in Bigint \ {0} /\ -m.amount \in Bigint \ {0}
  BY <1>1, BigintAssumption DEF Move, Bigint
<1>4. debit \in ListedEntry /\ credit \in ListedEntry
  BY <1>1, <1>2, <1>3 DEF ListedEntry, Move
<1>5. entries' = entries \cup {debit, credit}
  BY DEF CommitTransfer
<1>6. /\ CursorStands' /\ NewestFirst' /\ NextPageHasItems'
      /\ pages' \in Seq(SUBSET entries')
      /\ \A i \in 1 .. Len(pages) : /\ pages'[i] \subseteq OwnEntries'
                                    /\ Cardinality(pages'[i]) <= MaxLimit
  <2>1. entries \subseteq entries' /\ UNCHANGED <<pages, cursor, atStart>>
    BY <1>5 DEF CommitTransfer, client
  <2> QED
    BY <2>1, MoreEntries
<1>7. HistoryTypeOK'
  <2>1. entries' \subseteq ListedEntry
    BY <1>4, <1>5 DEF HistoryInv, HistoryTypeOK
  <2> QED
    BY <1>6, <2>1 DEF HistoryInv, HistoryTypeOK, CommitTransfer, client
<1>8. OneEntryEach'
  <2>1. IsFiniteSet(entries')
    <3>1. entries' = (entries \cup {debit}) \cup {credit}
      BY <1>5
    <3> HIDE DEF debit, credit
    <3> QED
      BY <3>1, FS_AddElement DEF HistoryInv, OneEntryEach
  <2>2. \A e \in entries : e.tx # t
    BY DEF CommitTransfer
  <2> QED
    BY <1>1, <1>5, <2>1, <2>2 DEF HistoryInv, OneEntryEach
<1>9. OpenedFirst'
  <2>1. ~opened => OwnEntries' = {}
    BY <1>5 DEF HistoryInv, OpenedFirst, OwnEntries, CommitTransfer
  <2> QED
    BY <2>1 DEF HistoryInv, OpenedFirst, CommitTransfer, client
<1> QED
  BY <1>6, <1>7, <1>8, <1>9 DEF HistoryInv

\* Steps that touch neither the entries nor what the client has.
LEMMA QuietStep ==
  ASSUME HistoryInv, UNCHANGED <<entries, client>>,
         \/ TimePasses \/ OpenAccount \/ ListFails
         \/ \E t \in Requests : BeginTransfer(t)
         \/ UNCHANGED historyVars
  PROVE  HistoryInv'
<1>1. UNCHANGED <<entries, pages, cursor, atStart, ended>>
  BY DEF client
<1>2. /\ CursorStands' /\ NewestFirst' /\ NextPageHasItems'
      /\ pages' \in Seq(SUBSET entries')
      /\ \A i \in 1 .. Len(pages) : /\ pages'[i] \subseteq OwnEntries'
                                    /\ Cardinality(pages'[i]) <= MaxLimit
  BY <1>1, MoreEntries
<1>3. /\ now' \in Times /\ began' \in [Requests -> Times \cup {0}]
      /\ opened' \in BOOLEAN /\ stage' \in {"getAccount", "list"}
  <2>1. now + 1 \in Times \/ now = MaxTime + 1
    BY HistoryAssumption DEF HistoryInv, HistoryTypeOK, Times
  <2> QED
    BY <2>1 DEF HistoryInv, HistoryTypeOK, TimePasses, OpenAccount, ListFails,
       BeginTransfer, historyVars, database
<1>4. HistoryTypeOK'
  BY <1>1, <1>2, <1>3 DEF HistoryInv, HistoryTypeOK
<1>5. OneEntryEach'
  BY <1>1 DEF HistoryInv, OneEntryEach
<1>6. OpenedFirst'
  <2>1. OwnEntries' = OwnEntries
    BY <1>1 DEF OwnEntries
  <2> QED
    BY <1>1, <2>1 DEF HistoryInv, OpenedFirst, TimePasses, OpenAccount, ListFails,
       BeginTransfer, historyVars, database
<1> QED
  BY <1>2, <1>4, <1>5, <1>6 DEF HistoryInv

-----------------------------------------------------------------------------
(***************************************************************************)
(* The steps of the handler.                                               *)
(***************************************************************************)

LEMMA GetAccountStep ==
  ASSUME HistoryInv, GetAccount
  PROVE  HistoryInv'
<1>1. UNCHANGED <<now, began, entries, opened>> /\ OwnEntries' = OwnEntries
  BY DEF GetAccount, database, OwnEntries
<1>2. CASE opened /\ stage' = "list" /\ UNCHANGED client
  <2>1. UNCHANGED <<pages, cursor, atStart, ended>>
    BY <1>2 DEF client
  <2>2. /\ CursorStands' /\ NewestFirst' /\ NextPageHasItems'
        /\ pages' \in Seq(SUBSET entries')
        /\ \A i \in 1 .. Len(pages) : /\ pages'[i] \subseteq OwnEntries'
                                      /\ Cardinality(pages'[i]) <= MaxLimit
    BY <1>1, <2>1, MoreEntries
  <2>3. HistoryTypeOK' /\ OneEntryEach' /\ OpenedFirst'
    BY <1>1, <1>2, <2>1, <2>2
    DEF HistoryInv, HistoryTypeOK, OneEntryEach, OpenedFirst
  <2> QED
    BY <2>2, <2>3 DEF HistoryInv
<1>3. CASE /\ ~opened /\ pages' = <<{}>> /\ atStart' = OwnEntries /\ ended'
           /\ UNCHANGED <<stage, cursor>>
  <2>1. OwnEntries = {} /\ cursor = NoCursor
    BY <1>3 DEF HistoryInv, OpenedFirst, CursorStands
  <2>2. Len(pages') = 1 /\ pages'[1] = {} /\ pages' \in Seq(SUBSET entries')
    BY <1>3
  <2>3. HistoryTypeOK'
    <3>1. Cardinality({}) = 0 /\ 0 <= MaxLimit
      BY FS_EmptySet, HistoryAssumption
    <3>2. ended' \in BOOLEAN
      BY DEF GetAccount, HistoryInv, HistoryTypeOK, client
    <3>3. \A i \in 1 .. Len(pages') : /\ pages'[i] \subseteq OwnEntries'
                                      /\ Cardinality(pages'[i]) <= MaxLimit
      <4>1. \A i \in 1 .. Len(pages') : pages'[i] = {}
        BY <2>2
      <4> QED
        BY <3>1, <4>1
    <3> QED
      BY <1>1, <1>3, <3>2, <3>3 DEF HistoryInv, HistoryTypeOK
  <2>4. OneEntryEach' /\ OpenedFirst'
    BY <1>1, <1>3, <2>1 DEF HistoryInv, OneEntryEach, OpenedFirst
  <2>5. CursorStands'
    BY <1>1, <1>3, <2>1 DEF CursorStands
  <2>6. NewestFirst' /\ NextPageHasItems'
    BY <2>2 DEF NewestFirst, NextPageHasItems
  <2> QED
    BY <2>2, <2>3, <2>4, <2>5, <2>6 DEF HistoryInv
<1> QED
  BY <1>2, <1>3 DEF GetAccount

LEMMA StartOverStep ==
  ASSUME HistoryInv, StartOver
  PROVE  HistoryInv'
<1>1. /\ UNCHANGED <<now, began, entries, opened, stage, cursor>>
      /\ OwnEntries' = OwnEntries
      /\ pages' = <<>> /\ atStart' = {} /\ ended' = FALSE
  BY DEF StartOver, database, OwnEntries
<1>2. Len(pages') = 0 /\ pages' \in Seq(SUBSET entries')
  BY <1>1
<1>3. cursor = NoCursor
  BY DEF StartOver, HistoryInv, OpenedFirst
<1>4. HistoryTypeOK'
  <2>1. \A i \in 1 .. Len(pages') : /\ pages'[i] \subseteq OwnEntries'
                                    /\ Cardinality(pages'[i]) <= MaxLimit
    BY <1>2
  <2> QED
    BY <1>1, <2>1 DEF HistoryInv, HistoryTypeOK
<1>5. OneEntryEach' /\ OpenedFirst' /\ CursorStands'
  BY <1>1, <1>3 DEF HistoryInv, OneEntryEach, OpenedFirst, CursorStands
<1>6. NewestFirst' /\ NextPageHasItems'
  BY <1>2 DEF NewestFirst, NextPageHasItems
<1> QED
  BY <1>2, <1>4, <1>5, <1>6 DEF HistoryInv

\* A page, wherever it begins.
LEMMA ListStep ==
  ASSUME HistoryInv, NEW raw \in RawLimits, NEW c \in {cursor, Garbled}, List(raw, c)
  PROVE  HistoryInv'
<1> DEFINE limit == ParseLimit(raw)
           from  == DecodeCursor(c)
           old   == Older(from)
           rows  == First(limit + 1, old)
           items == First(limit, rows)
           last  == Last(items)
<1>1. /\ UNCHANGED <<now, began, entries, opened>> /\ OwnEntries' = OwnEntries
      /\ stage' = "getAccount"
      /\ pages' = IF from = NoCursor THEN <<items>> ELSE Append(pages, items)
      /\ atStart' = IF from = NoCursor THEN OwnEntries ELSE atStart
      /\ \/ HasMore(rows, limit) /\ cursor' = EncodeCursor(last) /\ ended' = FALSE
         \/ ~HasMore(rows, limit) /\ cursor' = NoCursor /\ ended' = TRUE
  BY DEF List, ListEntries, database, OwnEntries
<1>2. limit \in Nat \ {0} /\ limit <= MaxLimit /\ MaxLimit \in Nat
  BY LimitRange, HistoryAssumption
<1>3. Chain(OwnEntries) /\ old \in SUBSET OwnEntries /\ Chain(old)
  <2>1. Chain(OwnEntries)
    BY OwnChain DEF HistoryInv
  <2> QED
    BY <2>1, SubChain DEF Older
<1>4. /\ items \in SUBSET old
      /\ Cardinality(items) <= limit
      /\ old # {} => items # {}
      /\ \A e \in items, f \in old \ items : Before(e, f)
      /\ HasMore(rows, limit) => items # {} /\ old \ items # {}
      /\ ~HasMore(rows, limit) => items = old
  <2> HIDE DEF limit, old
  <2> QED
    BY <1>2, <1>3, PageOf
<1>5. Cardinality(items) \in Nat /\ Cardinality(items) <= MaxLimit
  BY <1>2, <1>3, <1>4, Count
<1>6. OwnEntries \subseteq entries /\ OwnEntries \subseteq ListedEntry
  BY <1>3 DEF OwnEntries, Chain
<1>7. \A e, f, g \in OwnEntries : Before(e, f) /\ Before(f, g) => Before(e, g)
  BY <1>3, Ordered
\* The last entry of a page with a successor.
<1>8. ASSUME HasMore(rows, limit)
      PROVE  /\ last \in items /\ last \in OwnEntries
             /\ \A e \in items : e = last \/ Before(e, last)
             /\ \E e \in OwnEntries : Before(last, e)
             /\ \A e \in old : e \in items \/ Before(last, e)
             /\ cursor' = EncodeCursor(last) /\ cursor' # NoCursor
             /\ cursor' \in [nanos : Nat, id : Requests]
  <2>1. items # {} /\ old \ items # {}
    BY <1>4, <1>8
  <2>2. last \in items /\ \A e \in items : e = last \/ Before(e, last)
    <3>1. Chain(items)
      BY <1>3, <1>4, SubChain
    <3> HIDE DEF items
    <3> QED
      BY <2>1, <3>1, LastOf
  <2>3. last \in OwnEntries
    BY <1>3, <1>4, <2>2
  <2>4. \A e \in old : e \in items \/ Before(last, e)
    BY <1>4, <2>2
  <2>5. \E e \in OwnEntries : Before(last, e)
    BY <1>3, <2>1, <2>4
  <2>6. cursor' = EncodeCursor(last)
    BY <1>1, <1>8
  <2>7. cursor' # NoCursor /\ cursor' \in [nanos : Nat, id : Requests]
    <3> HIDE DEF last
    <3> QED
      BY <1>6, <2>3, <2>6, RoundTrip
  <2> QED
    BY <2>2, <2>3, <2>4, <2>5, <2>6, <2>7
<1> HIDE DEF limit, from, old, rows, items, last
<1>9. /\ cursor' \in [nanos : Nat, id : Requests] \cup {NoCursor}
      /\ ended' \in BOOLEAN /\ ended' => cursor' = NoCursor
  BY <1>1, <1>8
<1>10. opened
  BY DEF List, HistoryInv, OpenedFirst
<1>11. OneEntryEach' /\ OpenedFirst'
  BY <1>1, <1>9, <1>10 DEF HistoryInv, OneEntryEach, OpenedFirst
\* The first page.
<1>12. CASE from = NoCursor
  <2>1. pages' = <<items>> /\ atStart' = OwnEntries /\ old = OwnEntries
    BY <1>1, <1>12 DEF old, Older
  <2>2. Len(pages') = 1 /\ pages'[1] = items /\ pages' \in Seq(SUBSET entries')
    <3>1. items \in SUBSET entries /\ entries' = entries
      BY <1>1, <1>3, <1>4, <1>6
    <3> QED
      BY <2>1, <3>1
  <2>3. HistoryTypeOK'
    <3>1. \A i \in 1 .. Len(pages') : /\ pages'[i] \subseteq OwnEntries'
                                      /\ Cardinality(pages'[i]) <= MaxLimit
      BY <1>1, <1>3, <1>4, <1>5, <2>2
    <3> QED
      BY <1>1, <1>9, <3>1 DEF HistoryInv, HistoryTypeOK
  <2>4. NewestFirst' /\ NextPageHasItems'
    BY <2>2 DEF NewestFirst, NextPageHasItems
  <2>5. \A e : Listed(e)' <=> e \in items
    BY <2>2 DEF Listed
  <2>6. atStart' \subseteq OwnEntries'
    BY <1>1, <2>1
  <2>7. CursorStands'
    <3>1. CASE HasMore(rows, limit)
      <4>1. PICK k : k = last
        OBVIOUS
      <4>2. \A e \in OwnEntries' : Listed(e)' => e = k \/ Before(e, k)
        BY <1>8, <2>5, <3>1, <4>1
      <4>3. \A e \in atStart' : Listed(e)' \/ Before(k, e)
        BY <1>8, <2>1, <2>5, <3>1, <4>1
      <4>4. k \in OwnEntries' /\ At(k)'
        BY <1>1, <1>8, <3>1, <4>1, <4>2, <4>3 DEF At
      <4> QED
        BY <1>8, <2>6, <3>1, <4>4 DEF CursorStands
    <3>2. CASE ~HasMore(rows, limit)
      <4>1. items = OwnEntries /\ cursor' = NoCursor
        BY <1>1, <1>4, <2>1, <3>2
      <4>2. \A e \in atStart' : Listed(e)'
        BY <2>1, <2>5, <4>1
      <4> QED
        BY <2>6, <4>1, <4>2 DEF CursorStands
    <3> QED
      BY <3>1, <3>2
  <2> QED
    BY <1>11, <2>2, <2>3, <2>4, <2>7 DEF HistoryInv
\* A page behind the cursor, which is that of an entry l.
<1>13. CASE from # NoCursor
  <2>1. c = cursor /\ cursor # NoCursor
    BY <1>13 DEF from, DecodeCursor
  <2>2. PICK l \in OwnEntries : At(l)
    BY <2>1 DEF HistoryInv, CursorStands
  <2>3. from.createdAt = l.createdAt /\ from.tx = l.tx
    <3>1. c = EncodeCursor(l)
      BY <2>1, <2>2 DEF At
    <3> QED
      BY <1>6, <3>1, RoundTrip DEF from
  <2>4. old = {e \in OwnEntries : Before(l, e)}
    BY <1>13, <2>3 DEF old, Older, Before
  <2>5. pages' = Append(pages, items) /\ atStart' = atStart
    BY <1>1, <1>13
  <2> DEFINE n == Len(pages)
  <2>6. /\ n \in Nat /\ Len(pages') = n + 1 /\ pages'[n + 1] = items
        /\ \A i \in 1 .. n : pages'[i] = pages[i]
        /\ pages' \in Seq(SUBSET entries')
    <3>1. pages \in Seq(SUBSET entries) /\ items \in SUBSET entries
      BY <1>3, <1>4, <1>6 DEF HistoryInv
    <3> QED
      BY <1>1, <2>5, <3>1
  <2>7. \A i \in 1 .. n : pages[i] \subseteq OwnEntries /\ Cardinality(pages[i]) <= MaxLimit
    BY DEF HistoryInv, HistoryTypeOK
  <2>8. \A i \in 1 .. n + 1 : i \in 1 .. n \/ i = n + 1
    BY <2>6
  <2>9. HistoryTypeOK'
    <3>1. \A i \in 1 .. Len(pages') : /\ pages'[i] \subseteq OwnEntries'
                                      /\ Cardinality(pages'[i]) <= MaxLimit
      <4> HIDE DEF n
      <4> QED
        BY <1>1, <1>3, <1>4, <1>5, <2>6, <2>7, <2>8
    <3> QED
      BY <1>1, <1>9, <3>1 DEF HistoryInv, HistoryTypeOK
  <2>10. \A e : Listed(e)' <=> Listed(e) \/ e \in items
    <3>1. ASSUME NEW e, Listed(e)' PROVE Listed(e) \/ e \in items
      BY <2>6, <2>8, <3>1 DEF Listed
    <3>2. ASSUME NEW e, Listed(e) PROVE Listed(e)'
      <4>1. PICK i \in 1 .. n : e \in pages[i]
        BY <3>2 DEF Listed
      <4>2. i \in 1 .. n + 1 /\ e \in pages'[i]
        BY <2>6, <4>1
      <4> QED
        BY <2>6, <4>2 DEF Listed
    <3>3. ASSUME NEW e, e \in items PROVE Listed(e)'
      <4>1. n + 1 \in 1 .. n + 1
        BY <2>6
      <4> QED
        BY <2>6, <3>3, <4>1 DEF Listed
    <3> QED
      BY <3>1, <3>2, <3>3
  \* What was listed is not behind l, and the page is.
  <2>11. \A e \in OwnEntries, f \in items : Listed(e) => Before(e, f)
    BY <1>3, <1>4, <1>7, <2>2, <2>4 DEF At
  <2>12. \A i \in 1 .. n : \A e \in pages[i], f \in items : Before(e, f)
    BY <2>7, <2>11 DEF Listed
  <2>13. NewestFirst'
    <3> SUFFICES ASSUME NEW i \in 1 .. n + 1, NEW j \in 1 .. n + 1, i < j,
                        NEW e \in pages'[i], NEW f \in pages'[j]
                 PROVE  Before(e, f)
      BY <2>6 DEF NewestFirst
    <3>1. i \in 1 .. n
      BY <2>6
    <3>2. CASE j = n + 1
      BY <2>6, <2>12, <3>1, <3>2
    <3>3. CASE j \in 1 .. n
      BY <2>6, <3>1, <3>3 DEF HistoryInv, NewestFirst
    <3> QED
      BY <2>8, <3>2, <3>3
  <2>14. NextPageHasItems'
    <3>1. items # {}
      BY <1>4, <2>2, <2>4 DEF At
    <3> SUFFICES ASSUME NEW i \in 2 .. n + 1 PROVE pages'[i] # {}
      BY <2>6 DEF NextPageHasItems
    <3>2. i = n + 1 \/ (i \in 2 .. n /\ i \in 1 .. n)
      BY <2>6
    <3> QED
      BY <2>6, <3>1, <3>2 DEF HistoryInv, NextPageHasItems
  <2>15. \A e \in atStart : Listed(e) \/ e \in old
    BY <2>2, <2>4 DEF At, HistoryInv, CursorStands
  <2>16. CursorStands'
    <3>1. CASE HasMore(rows, limit)
      <4>1. PICK k : k = last
        OBVIOUS
      <4>2. k \in OwnEntries' /\ At(k)'
        <5>1. \A e \in OwnEntries : Listed(e) => Before(e, k)
          BY <1>8, <2>11, <3>1, <4>1
        <5>2. \A e \in OwnEntries' : Listed(e)' => e = k \/ Before(e, k)
          BY <1>1, <1>8, <2>10, <3>1, <4>1, <5>1
        <5>3. \A e \in atStart' : Listed(e)' \/ Before(k, e)
          BY <1>8, <2>5, <2>10, <2>15, <3>1, <4>1
        <5> QED
          BY <1>1, <1>8, <3>1, <4>1, <5>2, <5>3 DEF At
      <4> QED
        BY <1>1, <1>8, <2>5, <3>1, <4>2 DEF HistoryInv, CursorStands
    <3>2. CASE ~HasMore(rows, limit)
      <4>1. items = old /\ cursor' = NoCursor
        BY <1>1, <1>4, <3>2
      <4> QED
        BY <1>1, <2>5, <2>10, <2>15, <4>1 DEF HistoryInv, CursorStands
    <3> QED
      BY <3>1, <3>2
  <2> QED
    BY <1>11, <2>6, <2>9, <2>13, <2>14, <2>16 DEF HistoryInv
<1> QED
  BY <1>12, <1>13

-----------------------------------------------------------------------------
(***************************************************************************)
(* Theorems.                                                               *)
(***************************************************************************)

\* The cursor stands where the listing stopped, whatever is committed meanwhile.
THEOREM HistoryInvariant == HistorySpec => []HistoryInv
<1>1. HistoryInit => HistoryInv
  <2> SUFFICES ASSUME HistoryInit PROVE HistoryInv
    OBVIOUS
  <2>1. /\ now = 1 /\ began = [t \in Requests |-> 0] /\ entries = {} /\ opened = FALSE
        /\ stage = "getAccount" /\ cursor = NoCursor /\ pages = <<>> /\ atStart = {}
        /\ ended = FALSE
    BY DEF HistoryInit
  <2>2. OwnEntries = {} /\ Len(pages) = 0 /\ pages \in Seq(SUBSET entries)
    BY <2>1 DEF OwnEntries
  <2>3. HistoryTypeOK
    <3>1. now \in Times
      BY <2>1, HistoryAssumption DEF Times
    <3>2. \A i \in 1 .. Len(pages) : /\ pages[i] \subseteq OwnEntries
                                     /\ Cardinality(pages[i]) <= MaxLimit
      BY <2>2
    <3> QED
      BY <2>1, <3>1, <3>2 DEF HistoryTypeOK
  <2>4. OneEntryEach /\ OpenedFirst /\ CursorStands
    BY <2>1, <2>2, FS_EmptySet DEF OneEntryEach, OpenedFirst, CursorStands
  <2>5. NewestFirst /\ NextPageHasItems
    BY <2>2 DEF NewestFirst, NextPageHasItems
  <2> QED
    BY <2>2, <2>3, <2>4, <2>5 DEF HistoryInv
<1>2. HistoryInv /\ [HistoryNext]_historyVars => HistoryInv'
  <2> SUFFICES ASSUME HistoryInv, [HistoryNext]_historyVars PROVE HistoryInv'
    OBVIOUS
  <2>1. CASE \/ TimePasses \/ OpenAccount \/ ListFails
             \/ \E t \in Requests : BeginTransfer(t)
             \/ UNCHANGED historyVars
    <3>1. UNCHANGED <<entries, client>>
      BY <2>1 DEF TimePasses, OpenAccount, ListFails, BeginTransfer, historyVars, database
    <3> QED
      BY <2>1, <3>1, QuietStep
  <2>2. CASE \E t \in Requests, m \in Moves : CommitTransfer(t, m)
    BY <2>2, CommitStep
  <2>3. CASE GetAccount
    BY <2>3, GetAccountStep
  <2>4. CASE \E raw \in RawLimits, c \in {cursor, Garbled} : List(raw, c)
    BY <2>4, ListStep
  <2>5. CASE StartOver
    BY <2>5, StartOverStep
  <2> QED
    BY <2>1, <2>2, <2>3, <2>4, <2>5 DEF HistoryNext
<1> QED
  BY <1>1, <1>2, PTL DEF HistorySpec

\* Every row and every page is well formed, and no page exceeds the limit.
THEOREM HistoryTypeCorrect == HistorySpec => []HistoryTypeOK
<1>1. HistoryInv => HistoryTypeOK
  BY DEF HistoryInv
<1> QED
  BY <1>1, HistoryInvariant, PTL

\* Whatever is committed between two pages, no page repeats an entry or goes back.
THEOREM PagesDescend == HistorySpec => []NewestFirst
<1>1. HistoryInv => NewestFirst
  BY DEF HistoryInv
<1> QED
  BY <1>1, HistoryInvariant, PTL

\* A client that follows the cursor to its end has seen all there was.
THEOREM ListingsAreComplete == HistorySpec => []NothingSkipped
<1>1. HistoryInv => NothingSkipped
  BY DEF HistoryInv, HistoryTypeOK, OpenedFirst, CursorStands, Listed, NothingSkipped
<1> QED
  BY <1>1, HistoryInvariant, PTL

\* A cursor leads to a page that is not empty.
THEOREM CursorsLeadOn == HistorySpec => []NextPageHasItems
<1>1. HistoryInv => NextPageHasItems
  BY DEF HistoryInv
<1> QED
  BY <1>1, HistoryInvariant, PTL
=============================================================================
