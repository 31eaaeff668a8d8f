---------------------------- MODULE AuditLemmas ----------------------------
(***************************************************************************)
(* Lemmas about the queries of Audit: SUM(column) over a finite set of     *)
(* rows (SumFunctionOnSet of module Functions), and what one more pair of  *)
(* entries, or one entry less, does to the sums.                           *)
(*                                                                         *)
(* The sum is a recursive function on the subsets of the set.  Induction   *)
(* is stated with a set where a textbook has a predicate, so that a leaf   *)
(* can instantiate it.                                                     *)
(***************************************************************************)
EXTENDS Audit, FiniteSetTheorems, WellFoundedInduction, TLAPS

\* A set of naturals that contains 0 and the successor of each member is Nat.
LEMMA Induction ==
  ASSUME NEW P \in SUBSET Nat, 0 \in P, \A n \in P : n + 1 \in P
  PROVE  P = Nat
<1> DEFINE R == OpToRel(<, Nat)
           C == Nat \ P
<1> SUFFICES ASSUME C # {} PROVE FALSE
  OBVIOUS
<1>1. \E m \in C : \A k \in C : <<k, m>> \notin R
  <2>1. C \subseteq Nat
    OBVIOUS
  <2> HIDE DEF C, R
  <2> QED
    BY <2>1, NatLessThanWellFounded, WFMin DEF R
<1>2. PICK m \in C : \A k \in C : ~(k < m)
  BY <1>1 DEF OpToRel
<1>3. m # 0 /\ m \in Nat
  OBVIOUS
<1>4. m - 1 \in Nat /\ m - 1 < m
  BY <1>3
<1>5. m - 1 \in P
  BY <1>2, <1>4
<1> QED
  BY <1>3, <1>5

\* The subset of a finite set without one of its members is smaller by one.
LEMMA Smaller ==
  ASSUME NEW S, IsFiniteSet(S), NEW x \in S
  PROVE  /\ IsFiniteSet(S \ {x})
         /\ Cardinality(S) \in Nat
         /\ Cardinality(S \ {x}) \in Nat
         /\ Cardinality(S) = Cardinality(S \ {x}) + 1
  BY FS_RemoveElement, FS_CardinalityType

\* A set of subsets of a finite set that contains {}, and a subset whenever it
\* contains it without any one of its members, contains the whole set.
LEMMA SetInduction ==
  ASSUME NEW S, IsFiniteSet(S), NEW P \in SUBSET SUBSET S, {} \in P,
         \A T \in SUBSET S : T # {} /\ (\A x \in T : T \ {x} \in P) => T \in P
  PROVE  S \in P
<1> DEFINE N == {n \in Nat : \A T \in SUBSET S : Cardinality(T) = n => T \in P}
<1>1. \A T \in SUBSET S : IsFiniteSet(T) /\ Cardinality(T) \in Nat
  BY FS_Subset, FS_CardinalityType
<1>2. 0 \in N
  <2>1. \A T \in SUBSET S : Cardinality(T) = 0 => T = {}
    BY <1>1, FS_EmptySet
  <2> QED
    BY <2>1
<1>3. ASSUME NEW n \in N PROVE n + 1 \in N
  <2> SUFFICES ASSUME NEW T \in SUBSET S, Cardinality(T) = n + 1
               PROVE  T \in P
    OBVIOUS
  <2>1. \A x \in T : /\ Cardinality(T) = Cardinality(T \ {x}) + 1
                     /\ Cardinality(T \ {x}) \in Nat
    BY <1>1, Smaller
  <2>2. \A x \in T : T \ {x} \in P
    BY <2>1
  <2> QED
    BY <2>2
<1>4. N = Nat
  <2>1. N \in SUBSET Nat
    OBVIOUS
  <2> HIDE DEF N
  <2> QED
    BY <1>2, <1>3, <2>1, Induction
<1>5. Cardinality(S) \in N
  BY <1>1, <1>4
<1> QED
  BY <1>5

-----------------------------------------------------------------------------
Pick(s) == CHOOSE y \in s : TRUE

\* The right-hand side of the recursion for the sum of f over s.
Rhs(f, h, s) == IF s = {} THEN 0 ELSE f[Pick(s)] + h[s \ {Pick(s)}]

Recursion(f, S, h) == h = [s \in SUBSET S |-> Rhs(f, h, s)]

\* The recursion has a solution.
LEMMA Solvable ==
  ASSUME NEW f, NEW S, IsFiniteSet(S)
  PROVE  \E h : Recursion(f, S, h)
<1> DEFINE Small(n) == {s \in SUBSET S : Cardinality(s) <= n}
           P == {n \in Nat : \E h : /\ h = [s \in SUBSET S |-> h[s]]
                                    /\ \A s \in Small(n) : h[s] = Rhs(f, h, s)}
<1>1. 0 \in P
  <2> DEFINE h == [s \in SUBSET S |-> 0]
  <2>1. \A s \in Small(0) : s = {}
    <3> SUFFICES ASSUME NEW s \in Small(0) PROVE s = {}
      OBVIOUS
    <3>1. IsFiniteSet(s) /\ Cardinality(s) \in Nat
      BY FS_Subset, FS_CardinalityType
    <3>2. Cardinality(s) = 0
      BY <3>1
    <3> QED
      BY <3>1, <3>2, FS_EmptySet
  <2>2. h = [s \in SUBSET S |-> h[s]] /\ \A s \in Small(0) : h[s] = Rhs(f, h, s)
    BY <2>1 DEF Rhs
  <2> QED
    BY <2>2
<1>2. ASSUME NEW n \in P PROVE n + 1 \in P
  <2>1. PICK h : \A s \in Small(n) : h[s] = Rhs(f, h, s)
    BY <1>2
  <2> DEFINE g == [s \in SUBSET S |-> Rhs(f, h, s)]
  <2>2. ASSUME NEW s \in Small(n + 1), s # {}
        PROVE  g[s \ {Pick(s)}] = h[s \ {Pick(s)}]
    <3>1. Pick(s) \in s
      BY <2>2 DEF Pick
    <3>2. IsFiniteSet(s)
      BY FS_Subset
    <3>3. Cardinality(s \ {Pick(s)}) <= n
      <4>1. Cardinality(s) <= n + 1 /\ n \in Nat
        OBVIOUS
      <4> HIDE DEF Small, P
      <4> QED
        BY <3>1, <3>2, <4>1, Smaller
    <3> QED
      BY <2>1, <3>3
  <2>3. \A s \in Small(n + 1) : g[s] = Rhs(f, g, s)
    <3> SUFFICES ASSUME NEW s \in Small(n + 1) PROVE g[s] = Rhs(f, g, s)
      OBVIOUS
    <3>1. g[s] = Rhs(f, h, s)
      OBVIOUS
    <3> QED
      BY <3>1, <2>2 DEF Rhs
  <2>4. g = [s \in SUBSET S |-> g[s]] /\ n + 1 \in Nat
    OBVIOUS
  <2> HIDE DEF g, Small
  <2> QED
    BY <2>3, <2>4
<1>3. P = Nat
  <2>1. P \in SUBSET Nat
    OBVIOUS
  <2> HIDE DEF P
  <2> QED
    BY <1>1, <1>2, <2>1, Induction
<1>4. Cardinality(S) \in P
  BY <1>3, FS_CardinalityType
<1>5. PICK h : /\ h = [s \in SUBSET S |-> h[s]]
               /\ \A s \in Small(Cardinality(S)) : h[s] = Rhs(f, h, s)
  BY <1>4
<1>6. \A s \in SUBSET S : s \in Small(Cardinality(S))
  BY FS_Subset
<1>7. h = [s \in SUBSET S |-> Rhs(f, h, s)]
  BY <1>5, <1>6
<1> QED
  BY <1>7 DEF Recursion

\* Solutions for a set and for a subset of it agree on the subset.
LEMMA Agree ==
  ASSUME NEW f, NEW S, IsFiniteSet(S), NEW T \in SUBSET S,
         NEW h, Recursion(f, S, h), NEW g, Recursion(f, T, g)
  PROVE  h[T] = g[T]
<1> DEFINE P == {s \in SUBSET T : h[s] = g[s]}
<1>1. \A s \in SUBSET T : h[s] = Rhs(f, h, s) /\ g[s] = Rhs(f, g, s)
  <2>1. \A s \in SUBSET T : s \in SUBSET S
    OBVIOUS
  <2> QED
    BY <2>1 DEF Recursion
<1>2. {} \in P
  BY <1>1 DEF Rhs
<1>3. ASSUME NEW s \in SUBSET T, s # {}, \A x \in s : s \ {x} \in P
      PROVE  s \in P
  <2>1. Pick(s) \in s
    BY <1>3 DEF Pick
  <2>2. h[s \ {Pick(s)}] = g[s \ {Pick(s)}]
    BY <1>3, <2>1
  <2> QED
    BY <1>1, <2>2 DEF Rhs
<1>4. T \in P
  <2>1. P \in SUBSET SUBSET T /\ IsFiniteSet(T)
    BY FS_Subset
  <2> HIDE DEF P
  <2> QED
    BY <1>2, <1>3, <2>1, SetInduction
<1> QED
  BY <1>4

-----------------------------------------------------------------------------
\* The sum is a solution's value at the whole set.
LEMMA SumSolution ==
  ASSUME NEW f, NEW S, IsFiniteSet(S)
  PROVE  \E h : Recursion(f, S, h) /\ SumFunctionOnSet(f, S) = h[S]
<1> DEFINE h == CHOOSE g : g = [s \in SUBSET S |-> IF s = {} THEN 0
                    ELSE LET x == CHOOSE y \in s : TRUE IN f[x] + g[s \ {x}]]
<1>1. SumFunctionOnSet(f, S) = h[S]
  BY DEF SumFunctionOnSet, FoldFunctionOnSet, MapThenFoldSet
<1>2. h = CHOOSE g : Recursion(f, S, g)
  BY DEF Recursion, Rhs, Pick
<1> HIDE DEF h
<1>3. Recursion(f, S, h)
  BY <1>2, Solvable
<1> QED
  BY <1>1, <1>3

\* SUM over no rows (COALESCE(SUM(...), 0)).
LEMMA SumEmpty ==
  ASSUME NEW f
  PROVE  SumFunctionOnSet(f, {}) = 0
<1>1. IsFiniteSet({})
  BY FS_EmptySet
<1>2. PICK h : Recursion(f, {}, h) /\ SumFunctionOnSet(f, {}) = h[{}]
  BY <1>1, SumSolution
<1>3. h[{}] = Rhs(f, h, {})
  BY <1>2 DEF Recursion
<1> QED
  BY <1>2, <1>3 DEF Rhs

\* The recursion, for the element that CHOOSE picks.
LEMMA SumPicked ==
  ASSUME NEW f, NEW S, IsFiniteSet(S), S # {}
  PROVE  SumFunctionOnSet(f, S)
            = f[Pick(S)] + SumFunctionOnSet(f, S \ {Pick(S)})
<1> DEFINE T == S \ {Pick(S)}
<1>1. PICK h : Recursion(f, S, h) /\ SumFunctionOnSet(f, S) = h[S]
  BY SumSolution
<1>2. IsFiniteSet(T)
  BY FS_Subset
<1>3. PICK g : Recursion(f, T, g) /\ SumFunctionOnSet(f, T) = g[T]
  BY <1>2, SumSolution
<1>4. h[T] = g[T]
  <2>1. T \in SUBSET S
    OBVIOUS
  <2> HIDE DEF T
  <2> QED
    BY <1>1, <1>3, <2>1, Agree
<1>5. h[S] = f[Pick(S)] + h[T]
  BY <1>1 DEF Recursion, Rhs
<1> QED
  BY <1>1, <1>3, <1>4, <1>5

\* A sum of integers is an integer.
LEMMA SumType ==
  ASSUME NEW f, NEW S, IsFiniteSet(S), \A x \in S : f[x] \in Int
  PROVE  SumFunctionOnSet(f, S) \in Int
<1> DEFINE P == {T \in SUBSET S : SumFunctionOnSet(f, T) \in Int}
<1>1. {} \in P
  BY SumEmpty
<1>2. ASSUME NEW T \in SUBSET S, T # {}, \A x \in T : T \ {x} \in P
      PROVE  T \in P
  <2>1. IsFiniteSet(T) /\ Pick(T) \in T
    BY <1>2, FS_Subset DEF Pick
  <2>2. SumFunctionOnSet(f, T \ {Pick(T)}) \in Int /\ f[Pick(T)] \in Int
    BY <1>2, <2>1
  <2> QED
    BY <1>2, <2>1, <2>2, SumPicked
<1>3. S \in P
  <2>1. P \in SUBSET SUBSET S
    OBVIOUS
  <2> HIDE DEF P
  <2> QED
    BY <1>1, <1>2, <2>1, SetInduction
<1> QED
  BY <1>3

\* The sum does not depend on the order of the rows: any one can come first.
LEMMA SumRemove ==
  ASSUME NEW f, NEW S, IsFiniteSet(S), \A x \in S : f[x] \in Int, NEW a \in S
  PROVE  SumFunctionOnSet(f, S) = f[a] + SumFunctionOnSet(f, S \ {a})
<1> DEFINE Sum(T) == SumFunctionOnSet(f, T)
           P == {T \in SUBSET S : \A x \in T : Sum(T) = f[x] + Sum(T \ {x})}
<1>1. {} \in P
  OBVIOUS
<1>2. ASSUME NEW T \in SUBSET S, T # {}, \A x \in T : T \ {x} \in P
      PROVE  T \in P
  <2> SUFFICES ASSUME NEW x \in T PROVE Sum(T) = f[x] + Sum(T \ {x})
    OBVIOUS
  <2>1. PICK p \in T : Sum(T) = f[p] + Sum(T \ {p})
    <3>1. IsFiniteSet(T) /\ Pick(T) \in T
      BY <1>2, FS_Subset DEF Pick
    <3> QED
      BY <1>2, <3>1, SumPicked
  <2>2. CASE x = p
    BY <2>1, <2>2
  <2>3. CASE x # p
    <3>1. Sum(T \ {p}) = f[x] + Sum((T \ {p}) \ {x})
      BY <1>2, <2>3
    <3>2. Sum(T \ {x}) = f[p] + Sum((T \ {x}) \ {p})
      BY <1>2, <2>3
    <3>3. (T \ {p}) \ {x} = (T \ {x}) \ {p}
      OBVIOUS
    <3>4. f[p] \in Int /\ f[x] \in Int
      OBVIOUS
    <3>5. Sum((T \ {x}) \ {p}) \in Int
      <4>1. IsFiniteSet((T \ {x}) \ {p}) /\ \A y \in (T \ {x}) \ {p} : f[y] \in Int
        BY FS_Subset
      <4> QED
        BY <4>1, SumType
    <3>6. Sum(T) = f[p] + (f[x] + Sum((T \ {x}) \ {p}))
      BY <2>1, <3>1, <3>3
    <3> HIDE DEF P, Sum
    <3> QED
      BY <3>2, <3>4, <3>5, <3>6
  <2> QED
    BY <2>2, <2>3
<1>3. S \in P
  <2>1. P \in SUBSET SUBSET S
    OBVIOUS
  <2> HIDE DEF P
  <2> QED
    BY <1>1, <1>2, <2>1, SetInduction
<1> QED
  BY <1>3

\* One more row.
LEMMA SumAdd ==
  ASSUME NEW f, NEW S, IsFiniteSet(S), NEW a, a \notin S,
         \A x \in S \cup {a} : f[x] \in Int
  PROVE  SumFunctionOnSet(f, S \cup {a}) = f[a] + SumFunctionOnSet(f, S)
<1>1. IsFiniteSet(S \cup {a}) /\ (S \cup {a}) \ {a} = S
  BY FS_AddElement
<1> QED
  BY <1>1, SumRemove

\* The sum looks at nothing but the rows.
LEMMA SumSame ==
  ASSUME NEW f, NEW g, NEW S, IsFiniteSet(S),
         \A x \in S : f[x] = g[x]
  PROVE  SumFunctionOnSet(f, S) = SumFunctionOnSet(g, S)
<1> DEFINE P == {T \in SUBSET S : SumFunctionOnSet(f, T) = SumFunctionOnSet(g, T)}
<1>1. {} \in P
  BY SumEmpty
<1>2. ASSUME NEW T \in SUBSET S, T # {}, \A x \in T : T \ {x} \in P
      PROVE  T \in P
  <2>1. IsFiniteSet(T) /\ Pick(T) \in T
    BY <1>2, FS_Subset DEF Pick
  <2>2. /\ SumFunctionOnSet(f, T \ {Pick(T)}) = SumFunctionOnSet(g, T \ {Pick(T)})
        /\ f[Pick(T)] = g[Pick(T)]
    BY <1>2, <2>1
  <2>3. SumFunctionOnSet(f, T) = f[Pick(T)] + SumFunctionOnSet(f, T \ {Pick(T)})
    BY <1>2, <2>1, SumPicked
  <2>4. SumFunctionOnSet(g, T) = g[Pick(T)] + SumFunctionOnSet(g, T \ {Pick(T)})
    BY <1>2, <2>1, SumPicked
  <2> QED
    BY <2>2, <2>3, <2>4
<1>3. S \in P
  <2>1. P \in SUBSET SUBSET S
    OBVIOUS
  <2> HIDE DEF P
  <2> QED
    BY <1>1, <1>2, <2>1, SetInduction
<1> QED
  BY <1>3

\* One row changed.
LEMMA SumUpdate ==
  ASSUME NEW f, NEW S, IsFiniteSet(S), \A x \in S : f[x] \in Int,
         NEW g, NEW a \in S, g[a] \in Int, \A x \in S \ {a} : g[x] = f[x]
  PROVE  SumFunctionOnSet(g, S) = SumFunctionOnSet(f, S) - f[a] + g[a]
<1> DEFINE T == S \ {a}
<1>1. IsFiniteSet(T)
  BY FS_Subset
<1>2. SumFunctionOnSet(f, S) = f[a] + SumFunctionOnSet(f, T)
  BY SumRemove
<1>3. SumFunctionOnSet(g, S) = g[a] + SumFunctionOnSet(g, T)
  <2>1. \A x \in S : g[x] \in Int
    OBVIOUS
  <2> QED
    BY <2>1, SumRemove
<1>4. SumFunctionOnSet(f, T) = SumFunctionOnSet(g, T)
  BY <1>1, SumSame
<1>5. SumFunctionOnSet(f, T) \in Int /\ f[a] \in Int
  BY <1>1, SumType
<1> QED
  BY <1>2, <1>3, <1>4, <1>5

\* A sum of zeros.
LEMMA SumZero ==
  ASSUME NEW f, NEW S, IsFiniteSet(S), \A x \in S : f[x] = 0
  PROVE  SumFunctionOnSet(f, S) = 0
<1> DEFINE P == {T \in SUBSET S : SumFunctionOnSet(f, T) = 0}
<1>1. {} \in P
  BY SumEmpty
<1>2. ASSUME NEW T \in SUBSET S, T # {}, \A x \in T : T \ {x} \in P
      PROVE  T \in P
  <2>1. IsFiniteSet(T) /\ Pick(T) \in T
    BY <1>2, FS_Subset DEF Pick
  <2>2. SumFunctionOnSet(f, T \ {Pick(T)}) = 0 /\ f[Pick(T)] = 0
    BY <1>2, <2>1
  <2> QED
    BY <1>2, <2>1, <2>2, SumPicked
<1>3. S \in P
  <2>1. P \in SUBSET SUBSET S
    OBVIOUS
  <2> HIDE DEF P
  <2> QED
    BY <1>1, <1>2, <2>1, SetInduction
<1> QED
  BY <1>3

-----------------------------------------------------------------------------
(***************************************************************************)
(* Sums of entries.                                                        *)
(***************************************************************************)
\* Finitely many rows with integer amounts.
Summable(rows) == IsFiniteSet(rows) /\ \A e \in rows : e.amount \in Int

LEMMA LedgerSumEmpty == LedgerSum({}) = 0
  BY SumEmpty DEF LedgerSum

LEMMA LedgerSumType ==
  ASSUME NEW rows, Summable(rows)
  PROVE  LedgerSum(rows) \in Int
<1> DEFINE f == [e \in rows |-> e.amount]
<1>1. IsFiniteSet(rows) /\ \A e \in rows : f[e] \in Int
  BY DEF Summable
<1> HIDE DEF f
<1>2. SumFunctionOnSet(f, rows) \in Int
  BY <1>1, SumType
<1> QED
  BY <1>2 DEF f, LedgerSum

LEMMA LedgerSumAdd ==
  ASSUME NEW rows, Summable(rows), NEW d, d \notin rows, d.amount \in Int
  PROVE  /\ Summable(rows \cup {d})
         /\ LedgerSum(rows \cup {d}) = LedgerSum(rows) + d.amount
<1> DEFINE f == [e \in rows |-> e.amount]
           g == [e \in rows \cup {d} |-> e.amount]
<1>1. Summable(rows \cup {d})
  BY FS_AddElement DEF Summable
<1>2. /\ \A e \in rows : f[e] = g[e] /\ f[e] \in Int
      /\ \A e \in rows \cup {d} : g[e] \in Int
      /\ g[d] = d.amount
      /\ IsFiniteSet(rows)
  BY DEF Summable
<1> HIDE DEF f, g
<1>3. SumFunctionOnSet(g, rows \cup {d}) = d.amount + SumFunctionOnSet(g, rows)
  BY <1>2, SumAdd
<1>4. SumFunctionOnSet(g, rows) = SumFunctionOnSet(f, rows)
  BY <1>2, SumSame
<1>5. SumFunctionOnSet(f, rows) \in Int
  BY <1>2, SumType
<1>6. LedgerSum(rows \cup {d}) = d.amount + LedgerSum(rows)
  BY <1>3, <1>4 DEF f, g, LedgerSum
<1>7. LedgerSum(rows) \in Int
  BY LedgerSumType
<1> QED
  BY <1>1, <1>6, <1>7

LEMMA LedgerSumRemove ==
  ASSUME NEW rows, Summable(rows), NEW d \in rows
  PROVE  /\ Summable(rows \ {d})
         /\ LedgerSum(rows \ {d}) = LedgerSum(rows) - d.amount
<1>1. Summable(rows \ {d}) /\ d.amount \in Int
  BY FS_RemoveElement DEF Summable
<1>2. d \notin rows \ {d} /\ (rows \ {d}) \cup {d} = rows
  OBVIOUS
<1>3. LedgerSum(rows) = LedgerSum(rows \ {d}) + d.amount
  <2> DEFINE R == rows \ {d}
  <2>1. LedgerSum(R \cup {d}) = LedgerSum(R) + d.amount
    <3> HIDE DEF R
    <3> QED
      BY <1>1, <1>2, LedgerSumAdd DEF R
  <2> QED
    BY <1>2, <2>1
<1>4. LedgerSum(rows \ {d}) \in Int
  BY <1>1, LedgerSumType
<1> QED
  BY <1>1, <1>3, <1>4

\* Rows of a subset can be summed when those of the set can.
LEMMA SummableSubset ==
  ASSUME NEW rows, Summable(rows), NEW part \in SUBSET rows
  PROVE  Summable(part)
  BY FS_Subset DEF Summable

\* A posting's debit and credit sum to zero.
LEMMA LedgerSumPair ==
  ASSUME NEW d, NEW c, d # c, d.amount \in Int, c.amount = -d.amount
  PROVE  LedgerSum({d, c}) = 0
<1>1. Summable({})
  BY FS_EmptySet DEF Summable
<1>2. Summable({d}) /\ LedgerSum({d}) = d.amount
  <2>1. Summable({} \cup {d}) /\ LedgerSum({} \cup {d}) = 0 + d.amount
    BY <1>1, LedgerSumAdd, LedgerSumEmpty
  <2>2. {} \cup {d} = {d}
    OBVIOUS
  <2> QED
    BY <2>1, <2>2
<1>3. LedgerSum({d} \cup {c}) = d.amount + c.amount
  BY <1>2, LedgerSumAdd
<1>4. {d} \cup {c} = {d, c}
  OBVIOUS
<1>5. d.amount + c.amount = 0
  OBVIOUS
<1> QED
  BY <1>3, <1>4, <1>5

-----------------------------------------------------------------------------
(***************************************************************************)
(* One posting: entries d and c of a new transaction, n moved from the     *)
(* balance of f to that of g.                                              *)
(***************************************************************************)
IsPosting(entries, d, c, f, g, n) ==
    /\ n \in Int /\ n # 0
    /\ f # g
    /\ d.account = f /\ d.amount = -n
    /\ c.account = g /\ c.amount = n
    /\ d.tx = c.tx
    /\ \A e \in entries : e.tx # d.tx

\* The sum of the entries of an account moves as its balance does.
LEMMA AccountSumPost ==
  ASSUME NEW entries, Summable(entries), NEW d, NEW c, NEW f, NEW g, NEW n,
         IsPosting(entries, d, c, f, g, n), NEW a
  PROVE  LedgerSum(OfAccount(entries \cup {d, c}, a))
            = LedgerSum(OfAccount(entries, a))
                + (IF a = f THEN -n ELSE IF a = g THEN n ELSE 0)
<1>1. Summable(OfAccount(entries, a))
  BY SummableSubset DEF OfAccount
<1>2. /\ d \notin entries /\ c \notin entries
      /\ d.amount = -n /\ c.amount = n /\ n \in Int /\ f # g
      /\ d.account = f /\ c.account = g
  BY DEF IsPosting
<1>3. CASE a = f
  <2>1. /\ OfAccount(entries \cup {d, c}, a) = OfAccount(entries, a) \cup {d}
        /\ d \notin OfAccount(entries, a)
    BY <1>2, <1>3 DEF OfAccount
  <2>2. LedgerSum(OfAccount(entries, a) \cup {d})
           = LedgerSum(OfAccount(entries, a)) + d.amount
    BY <1>1, <1>2, <2>1, LedgerSumAdd
  <2> QED
    BY <1>2, <1>3, <2>1, <2>2
<1>4. CASE a = g
  <2>1. /\ OfAccount(entries \cup {d, c}, a) = OfAccount(entries, a) \cup {c}
        /\ c \notin OfAccount(entries, a)
    BY <1>2, <1>4 DEF OfAccount
  <2>2. LedgerSum(OfAccount(entries, a) \cup {c})
           = LedgerSum(OfAccount(entries, a)) + c.amount
    BY <1>1, <1>2, <2>1, LedgerSumAdd
  <2> QED
    BY <1>2, <1>4, <2>1, <2>2
<1>5. CASE a # f /\ a # g
  <2>1. OfAccount(entries \cup {d, c}, a) = OfAccount(entries, a)
    BY <1>2, <1>5 DEF OfAccount
  <2>2. LedgerSum(OfAccount(entries, a)) \in Int
    BY <1>1, LedgerSumType
  <2> QED
    BY <1>5, <2>1, <2>2
<1> QED
  BY <1>3, <1>4, <1>5

\* A posting unbalances no transaction.
LEMMA UnbalancedPost ==
  ASSUME NEW entries, Summable(entries), NEW d, NEW c, NEW f, NEW g, NEW n,
         IsPosting(entries, d, c, f, g, n)
  PROVE  Unbalanced(entries \cup {d, c}) = Unbalanced(entries)
<1> DEFINE all == entries \cup {d, c}
<1>1. OfTransaction(all, d.tx) = {d, c} /\ LedgerSum(OfTransaction(all, d.tx)) = 0
  <2>1. /\ d # c /\ d.amount \in Int /\ c.amount = -d.amount
        /\ OfTransaction(all, d.tx) = {d, c}
    BY DEF IsPosting, OfTransaction
  <2>2. LedgerSum({d, c}) = 0
    BY <2>1, LedgerSumPair
  <2> QED
    BY <2>1, <2>2
<1>2. \A t : t # d.tx => OfTransaction(all, t) = OfTransaction(entries, t)
  BY DEF IsPosting, OfTransaction
<1>3. d.tx \notin {e.tx : e \in entries} /\ c.tx = d.tx
  BY DEF IsPosting
<1>4. {e.tx : e \in all} = {e.tx : e \in entries} \cup {d.tx}
  BY <1>3
<1>5. /\ Unbalanced(all) =
            {t \in {e.tx : e \in all} : LedgerSum(OfTransaction(all, t)) # 0}
      /\ Unbalanced(entries)
            = {t \in {e.tx : e \in entries} : LedgerSum(OfTransaction(entries, t)) # 0}
  BY DEF Unbalanced
<1> HIDE DEF all
<1>6. Unbalanced(all) = Unbalanced(entries)
  BY <1>1, <1>2, <1>3, <1>4, <1>5
<1> QED
  BY <1>6 DEF all

\* Money moved from one account to another leaves the total as it was.
LEMMA TotalMove ==
  ASSUME NEW S, IsFiniteSet(S), NEW b, \A a \in S : b[a] \in Int,
         NEW f \in S, NEW g \in S, f # g, NEW n \in Int,
         NEW c, c[f] = b[f] - n, c[g] = b[g] + n,
         \A a \in S \ {f, g} : c[a] = b[a]
  PROVE  Total(S, c) = Total(S, b)
<1> DEFINE m == [a \in S |-> IF a = f THEN b[a] - n ELSE b[a]]
<1>1. SumFunctionOnSet(m, S) = SumFunctionOnSet(b, S) - b[f] + (b[f] - n)
  <2>1. m[f] = b[f] - n /\ m[f] \in Int /\ \A a \in S \ {f} : m[a] = b[a]
    OBVIOUS
  <2> HIDE DEF m
  <2> QED
    BY <2>1, SumUpdate
<1>2. SumFunctionOnSet(c, S) = SumFunctionOnSet(m, S) - b[g] + (b[g] + n)
  <2>1. /\ \A a \in S : m[a] \in Int
        /\ m[g] = b[g] /\ c[g] \in Int
        /\ \A a \in S \ {g} : c[a] = m[a]
    OBVIOUS
  <2> HIDE DEF m
  <2>2. SumFunctionOnSet(c, S) = SumFunctionOnSet(m, S) - m[g] + c[g]
    BY <2>1, SumUpdate
  <2> QED
    BY <2>1, <2>2
<1>3. /\ SumFunctionOnSet(b, S) \in Int /\ b[f] \in Int /\ b[g] \in Int
  BY SumType
<1> QED
  BY <1>1, <1>2, <1>3 DEF Total
=============================================================================
