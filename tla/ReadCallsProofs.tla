--------------------------- MODULE ReadCallsProofs ---------------------------
(***************************************************************************)
(* The reads that take several calls: a range read in pages returns every  *)
(* row once, for any number of keys, any bounds and limits, any cut into   *)
(* pages and any writes in between; what is proved of it holds beside the  *)
(* other reads; and wait_for_any/2 loses no message, for any futures and   *)
(* lists.                                                                  *)
(***************************************************************************)
EXTENDS ReadCalls, FiniteSetTheorems, WellFoundedInduction, SequenceTheorems, TLAPS

USE PagingAssumption, RangeFoldAssumption

-----------------------------------------------------------------------------
(* Finite sets of keys *)

\* Sets of keys are finite.
LEMMA KeysFinite ==
  ASSUME NEW S \in SUBSET Keys
  PROVE  IsFiniteSet(S) /\ Cardinality(S) \in Nat
<1>1. IsFiniteSet(Keys)
  BY FS_Interval DEF Keys
<1>2. IsFiniteSet(S)
  BY <1>1, FS_Subset
<1> QED
  BY <1>2, FS_CardinalityType

\* A part of a set of keys is not larger, and one that is as large is the set.
LEMMA PartSmaller ==
  ASSUME NEW S \in SUBSET Keys, NEW T \in SUBSET S
  PROVE  /\ Cardinality(T) <= Cardinality(S)
         /\ Cardinality(T) = Cardinality(S) => T = S
BY KeysFinite, FS_Subset

\* A part that lacks an element is smaller.
LEMMA PartWithout ==
  ASSUME NEW S \in SUBSET Keys, NEW T \in SUBSET S, NEW k \in S, k \notin T
  PROVE  Cardinality(T) < Cardinality(S)
BY KeysFinite, PartSmaller

\* Two disjoint sets of keys together.
LEMMA DisjointSum ==
  ASSUME NEW S \in SUBSET Keys, NEW T \in SUBSET Keys, S \cap T = {}
  PROVE  Cardinality(S \cup T) = Cardinality(S) + Cardinality(T)
<1>1. Cardinality(S \cup T) = Cardinality(S) + Cardinality(T) - Cardinality({})
  BY KeysFinite, FS_Union
<1>2. Cardinality({}) = 0
  BY FS_EmptySet
<1> QED
  BY <1>1, <1>2, KeysFinite

\* A set of natural numbers has a least element.
LEMMA Least ==
  ASSUME NEW S \in SUBSET Nat, S # {}
  PROVE  \E k \in S : \A j \in S : k <= j
<1>1. PICK k \in S : \A j \in S : ~ (<<j, k>> \in OpToRel(<, Nat))
  BY NatLessThanWellFounded, WFMin
<1>2. ASSUME NEW j \in S
      PROVE  ~(j < k)
  BY <1>1 DEF OpToRel
<1> QED
  BY <1>2

\* A set of keys has a greatest element.
LEMMA Greatest ==
  ASSUME NEW S \in SUBSET Keys, S # {}
  PROVE  \E k \in S : \A j \in S : j <= k
<1> DEFINE T == {MaxKey - j : j \in S}
<1>1. T \in SUBSET Nat /\ T # {}
  <2>1. \A j \in S : MaxKey - j \in Nat
    BY DEF Keys
  <2> QED
    BY <2>1
<1>2. PICK t \in T : \A u \in T : t <= u
  BY <1>1, Least
<1>3. PICK k \in S : t = MaxKey - k
  BY <1>2
<1>4. ASSUME NEW j \in S
      PROVE  j <= k
  <2>1. MaxKey - k <= MaxKey - j
    BY <1>2, <1>3
  <2> QED
    BY <2>1 DEF Keys
<1> QED
  BY <1>4

-----------------------------------------------------------------------------
(* The order of a read *)

\* It is a total order.
LEMMA BeforeOrder ==
  ASSUME NEW rev \in BOOLEAN
  PROVE  /\ \A i, j, k \in Keys :
               Before(rev, i, j) /\ Before(rev, j, k) => Before(rev, i, k)
         /\ \A j \in Keys : ~Before(rev, j, j)
         /\ \A j, k \in Keys : j = k \/ Before(rev, j, k) \/ Before(rev, k, j)
BY DEF Before, Keys

\* Some row comes first.
LEMMA FirstRow ==
  ASSUME NEW rev \in BOOLEAN, NEW S \in SUBSET Keys, S # {}
  PROVE  \E k \in S : \A j \in S : ~Before(rev, j, k)
<1>1. CASE rev
  BY <1>1, Greatest DEF Before, Keys
<1>2. CASE ~rev
  BY <1>2, Least DEF Before, Keys
<1> QED
  BY <1>1, <1>2

\* get_last_key is the last row.
LEMMA LastRow ==
  ASSUME NEW rev \in BOOLEAN, NEW S \in SUBSET Keys, S # {}
  PROVE  /\ get_last_key(rev, S) \in S
         /\ \A j \in S : j = get_last_key(rev, S) \/ Before(rev, j, get_last_key(rev, S))
<1>1. \E k \in S : \A j \in S : j = k \/ Before(rev, j, k)
  <2>1. CASE rev
    BY <2>1, Least DEF Before, Keys
  <2>2. CASE ~rev
    BY <2>2, Greatest DEF Before, Keys
  <2> QED
    BY <2>1, <2>2
<1> QED
  BY <1>1 DEF get_last_key

-----------------------------------------------------------------------------
(* The first n rows *)

\* The rows of S before k.
Ahead(rev, S, k) == {j \in S : Before(rev, j, k)}

\* How many rows are before k: fewer before a row that comes earlier.
LEMMA AheadOrder ==
  ASSUME NEW rev \in BOOLEAN, NEW S \in SUBSET Keys
  PROVE  /\ \A k \in Keys : Cardinality(Ahead(rev, S, k)) \in Nat
         /\ \A j \in S, k \in Keys :
               Before(rev, j, k) =>
                  Cardinality(Ahead(rev, S, j)) < Cardinality(Ahead(rev, S, k))
<1>1. \A k \in Keys : Ahead(rev, S, k) \in SUBSET Keys
  BY DEF Ahead
<1>2. \A k \in Keys : Cardinality(Ahead(rev, S, k)) \in Nat
  BY <1>1, KeysFinite
<1>3. ASSUME NEW j \in S, NEW k \in Keys, Before(rev, j, k)
      PROVE  Cardinality(Ahead(rev, S, j)) < Cardinality(Ahead(rev, S, k))
  <2>1. Ahead(rev, S, j) \in SUBSET Ahead(rev, S, k)
    BY <1>3, BeforeOrder DEF Ahead
  <2>2. j \in Ahead(rev, S, k) /\ j \notin Ahead(rev, S, j)
    BY <1>3, BeforeOrder DEF Ahead
  <2> QED
    BY <1>1, <2>1, <2>2, PartWithout
<1> QED
  BY <1>2, <1>3

\* The first n rows are the first ones, and not more than n.
LEMMA FirstBound ==
  ASSUME NEW rev \in BOOLEAN, NEW S \in SUBSET Keys, NEW n \in Nat
  PROVE  /\ FirstOf(rev, First(n, rev, S), S)
         /\ Cardinality(First(n, rev, S)) <= n
<1> DEFINE F == First(n, rev, S)
<1>1. \A k : k \in F <=> k \in S /\ Cardinality(Ahead(rev, S, k)) < n
  BY DEF First, Ahead
<1> HIDE DEF F
<1>2. FirstOf(rev, F, S)
  <2>1. ASSUME NEW k \in F, NEW j \in S, Before(rev, j, k)
        PROVE  j \in F
    <3>1. Cardinality(Ahead(rev, S, j)) < Cardinality(Ahead(rev, S, k))
      BY <1>1, <2>1, AheadOrder
    <3>2. /\ Cardinality(Ahead(rev, S, j)) \in Nat
          /\ Cardinality(Ahead(rev, S, k)) \in Nat
      BY <1>1, <2>1, AheadOrder
    <3> QED
      BY <1>1, <3>1, <3>2
  <2> QED
    BY <1>1, <2>1 DEF FirstOf
<1>3. Cardinality(F) <= n
  <2> DEFINE pos == [k \in F |-> Cardinality(Ahead(rev, S, k))]
  <2>1. pos \in [F -> 0..(n - 1)]
    BY <1>1, AheadOrder
  <2>2. ASSUME NEW j \in F, NEW k \in F, pos[j] = pos[k]
        PROVE  j = k
    <3>1. j \in Keys /\ k \in Keys /\ j \in S /\ k \in S
      BY <1>1
    <3>2. /\ Cardinality(Ahead(rev, S, j)) \in Nat
          /\ Cardinality(Ahead(rev, S, j)) = Cardinality(Ahead(rev, S, k))
      BY <2>2, <3>1, AheadOrder
    <3>3. ~Before(rev, j, k) /\ ~Before(rev, k, j)
      BY <3>1, <3>2, AheadOrder
    <3> QED
      BY <3>1, <3>3, BeforeOrder
  <2>3. pos \in Injection(F, 0..(n - 1))
    BY <2>1, <2>2 DEF Injection, IsInjective
  <2>4. IsFiniteSet(0..(n - 1)) /\ Cardinality(0..(n - 1)) = n
    <3>1. /\ IsFiniteSet(0..(n - 1))
          /\ Cardinality(0..(n - 1)) = IF 0 > n - 1 THEN 0 ELSE n - 1 - 0 + 1
      BY FS_Interval
    <3> QED
      BY <3>1
  <2>5. Cardinality(F) <= Cardinality(0..(n - 1))
    BY <2>3, <2>4, FS_Injection
  <2> QED
    BY <2>4, <2>5
<1> QED
  BY <1>2, <1>3 DEF F

\* A prefix with all rows, or with n of them, is what First returns.
LEMMA FirstExact ==
  ASSUME NEW rev \in BOOLEAN, NEW S \in SUBSET Keys, NEW n \in Nat,
         NEW P \in SUBSET S, FirstOf(rev, P, S), Cardinality(P) <= n,
         P = S \/ Cardinality(P) = n
  PROVE  P = First(n, rev, S)
<1>1. \A k : k \in First(n, rev, S) <=> k \in S /\ Cardinality(Ahead(rev, S, k)) < n
  BY DEF First, Ahead
<1>2. ASSUME NEW k \in P
      PROVE  k \in First(n, rev, S)
  <2>1. Ahead(rev, S, k) \in SUBSET P /\ k \notin Ahead(rev, S, k)
    BY <1>2, BeforeOrder DEF FirstOf, Ahead
  <2>2. Cardinality(Ahead(rev, S, k)) < Cardinality(P)
    BY <1>2, <2>1, PartWithout
  <2>3. Cardinality(Ahead(rev, S, k)) \in Nat /\ Cardinality(P) \in Nat
    BY <2>1, KeysFinite
  <2> QED
    BY <1>1, <1>2, <2>2, <2>3
<1>3. ASSUME NEW k \in S, k \notin P
      PROVE  k \notin First(n, rev, S)
  <2>1. Cardinality(P) = n
    BY <1>3
  <2>2. P \in SUBSET Ahead(rev, S, k)
    BY <1>3, BeforeOrder DEF FirstOf, Ahead
  <2>3. Ahead(rev, S, k) \in SUBSET Keys
    BY DEF Ahead
  <2>4. n <= Cardinality(Ahead(rev, S, k)) /\ Cardinality(Ahead(rev, S, k)) \in Nat
    BY <2>1, <2>2, <2>3, PartSmaller, KeysFinite
  <2> QED
    BY <1>1, <2>4
<1> QED
  BY <1>1, <1>2, <1>3

\* At least one row is returned if there is any.
LEMMA FirstSome ==
  ASSUME NEW rev \in BOOLEAN, NEW S \in SUBSET Keys, NEW n \in Nat \ {0}, S # {}
  PROVE  First(n, rev, S) # {}
<1>1. PICK k \in S : \A j \in S : ~Before(rev, j, k)
  BY FirstRow
<1>2. Ahead(rev, S, k) = {}
  BY <1>1 DEF Ahead
<1>3. Cardinality(Ahead(rev, S, k)) = 0
  BY <1>2, FS_EmptySet
<1> QED
  BY <1>3 DEF First, Ahead

-----------------------------------------------------------------------------
(* Key selectors *)

\* A selector finds all keys from some point on.
LEMMA FromUp ==
  ASSUME NEW sel \in Selectors, NEW D \in SUBSET Keys,
         NEW j \in From(sel, D), NEW k \in D, j <= k
  PROVE  k \in From(sel, D)
<1>1. {i \in D : i <= j} \in SUBSET {i \in D : i <= k}
  <2>1. j \in Nat /\ k \in Nat /\ \A i \in D : i \in Nat
    BY DEF From, Keys
  <2>2. \A i \in D : i <= j => i <= k
    BY <2>1
  <2> QED
    BY <2>2
<1>2. {i \in D : i <= k} \in SUBSET Keys
  OBVIOUS
<1>3. /\ Cardinality({i \in D : i <= j}) <= Cardinality({i \in D : i <= k})
      /\ Cardinality({i \in D : i <= j}) \in Nat
      /\ Cardinality({i \in D : i <= k}) \in Nat
  BY <1>1, <1>2, PartSmaller, KeysFinite
<1>4. Cardinality(Below(sel, D)) \in Nat
  BY KeysFinite DEF Below
<1>5. offset(sel) \in Nat
  BY DEF offset, Selectors
<1> QED
  BY <1>3, <1>4, <1>5 DEF From

\* One that does not count keys finds those at or after its bound.
LEMMA FromPlain ==
  ASSUME NEW sel \in Selectors, NEW D \in SUBSET Keys, Plain(sel)
  PROVE  From(sel, D) = {k \in D : AtOrAfter(sel, k)}
<1>0. sel.key \in Nat /\ \A k \in D : k \in Nat
  BY DEF Keys, Selectors
<1>1. Below(sel, D) = {k \in D : ~AtOrAfter(sel, k)}
  BY <1>0 DEF Below, AtOrAfter, or_equal
<1> DEFINE B == Below(sel, D)
           upto(k) == {j \in D : j <= k}
<1>2. B \in SUBSET Keys /\ Cardinality(B) \in Nat
  BY <1>1, KeysFinite
<1>3. \A k \in D : upto(k) \in SUBSET Keys /\ Cardinality(upto(k)) \in Nat
  BY KeysFinite
<1>4. From(sel, D) = {k \in D : Cardinality(upto(k)) >= Cardinality(B) + 1}
  BY DEF From, Plain
<1>5. ASSUME NEW k \in D, AtOrAfter(sel, k)
      PROVE  Cardinality(upto(k)) >= Cardinality(B) + 1
  <2>1. B \in SUBSET upto(k)
    BY <1>0, <1>1, <1>5 DEF AtOrAfter, or_equal
  <2>2. k \in upto(k) /\ k \notin B
    BY <1>1, <1>5 DEF Keys
  <2>3. Cardinality(B) < Cardinality(upto(k))
    BY <1>3, <2>1, <2>2, PartWithout
  <2> QED
    BY <1>2, <1>3, <2>3
<1>6. ASSUME NEW k \in D, ~AtOrAfter(sel, k)
      PROVE  ~(Cardinality(upto(k)) >= Cardinality(B) + 1)
  <2>1. upto(k) \in SUBSET B
    BY <1>0, <1>1, <1>6 DEF AtOrAfter, or_equal
  <2>2. Cardinality(upto(k)) <= Cardinality(B)
    BY <1>2, <2>1, PartSmaller
  <2> QED
    BY <1>2, <1>3, <2>2
<1> HIDE DEF upto, B
<1> QED
  BY <1>4, <1>5, <1>6

\* The bounds that the next page starts or ends with.
LEMMA NextBounds ==
  ASSUME NEW l \in Keys
  PROVE  /\ first_greater_than(l) \in Selectors /\ Plain(first_greater_than(l))
         /\ first_greater_or_equal(l) \in Selectors /\ Plain(first_greater_or_equal(l))
         /\ \A k \in Keys : AtOrAfter(first_greater_than(l), k) <=> k > l
         /\ \A k \in Keys : AtOrAfter(first_greater_or_equal(l), k) <=> k >= l
<1> USE DEF first_greater_than, first_greater_or_equal
<1>1. l \in Nat /\ \A k \in Keys : k \in Nat
  BY DEF Keys
<1>2. first_greater_than(l) \in Selectors /\ first_greater_or_equal(l) \in Selectors
  BY <1>1 DEF Selectors
<1>3. Plain(first_greater_than(l)) /\ Plain(first_greater_or_equal(l))
  BY DEF Plain, offset
<1>4. \A k \in Keys : AtOrAfter(first_greater_than(l), k) <=> k > l
  BY <1>1 DEF AtOrAfter, or_equal
<1>5. \A k \in Keys : AtOrAfter(first_greater_or_equal(l), k) <=> k >= l
  BY <1>1 DEF AtOrAfter, or_equal
<1> QED
  BY <1>2, <1>3, <1>4, <1>5

-----------------------------------------------------------------------------
(* Pages *)

\* What a read finds is a set of keys.
LEMMA RowsType ==
  ASSUME NEW s \in Sts, NEW D \in SUBSET Keys
  PROVE  RowsOf(s.start_key, s.end_key, D) \in SUBSET D
BY DEF RowsOf, From

\* A page has the first rows, one at least if there are any, keeps to the limit,
\* and says that there are more if there are.
LEMMA PageFacts ==
  ASSUME NEW s \in Sts, NEW rev \in BOOLEAN, NEW D \in SUBSET Keys,
         NEW page \in Pages(s, rev, D)
  PROVE  LET rows == RowsOf(s.start_key, s.end_key, D)
         IN /\ FirstOf(rev, page.rows, rows)
            /\ s.limit # 0 => Cardinality(page.rows) <= s.limit
            /\ page.rows = {} => rows = {}
            /\ page.more \in BOOLEAN
            /\ ~page.more => page.rows = rows
<1> DEFINE rows == RowsOf(s.start_key, s.end_key, D)
<1>1. rows \in SUBSET Keys
  BY RowsType
<1>2. PICK n \in 1..MaxKey : (s.limit = 0 \/ n <= s.limit) /\ page.rows = First(n, rev, rows)
  BY DEF Pages
<1>3. page.more \in BOOLEAN /\ (page.rows # rows => page.more)
  BY DEF Pages
<1> HIDE DEF rows
<1>4. FirstOf(rev, page.rows, rows) /\ Cardinality(page.rows) <= n
  BY <1>1, <1>2, FirstBound
<1>5. page.rows \in SUBSET Keys /\ Cardinality(page.rows) \in Nat
  BY <1>1, <1>4, KeysFinite DEF FirstOf
<1>6. s.limit # 0 => Cardinality(page.rows) <= s.limit
  BY <1>2, <1>4, <1>5 DEF Sts
<1>7. page.rows = {} => rows = {}
  <2>1. n \in Nat \ {0}
    OBVIOUS
  <2> QED
    BY <1>1, <1>2, <2>1, FirstSome
<1> QED
  BY <1>3, <1>4, <1>6, <1>7 DEF rows

\* The truncation to the limit has no effect on a page that keeps to it.
LEMMA RowsWhole ==
  ASSUME NEW s \in Sts, NEW rev \in BOOLEAN, NEW page, page.rows \in SUBSET Keys,
         s.limit # 0 => Cardinality(page.rows) <= s.limit
  PROVE  Rows(s, rev, page) = page.rows
<1>1. CASE s.limit = 0 \/ s.limit > Cardinality(page.rows)
  BY <1>1 DEF Rows
<1>2. CASE s.limit # 0 /\ ~(s.limit > Cardinality(page.rows))
  <2>1. FirstOf(rev, page.rows, page.rows)
    BY DEF FirstOf
  <2>2. page.rows = First(s.limit, rev, page.rows)
    BY <1>2, <2>1, FirstExact DEF Sts
  <2> QED
    BY <1>2, <2>2 DEF Rows
<1> QED
  BY <1>1, <1>2

\* The next page begins, or ends, where the range has just the rows that are left.
LEMMA AdvanceRows ==
  ASSUME NEW s \in Sts, NEW rev \in BOOLEAN, NEW D \in SUBSET Keys,
         NEW page, page.rows # {},
         FirstOf(rev, page.rows, RowsOf(s.start_key, s.end_key, D))
  PROVE  RowsOf(NextSt(s, rev, page).start_key, NextSt(s, rev, page).end_key, D)
            = RowsOf(s.start_key, s.end_key, D) \ page.rows
<1> DEFINE rows == page.rows
           left == RowsOf(s.start_key, s.end_key, D)
           n    == NextSt(s, rev, page)
<1>1. left = From(s.start_key, D) \ From(s.end_key, D)
  BY DEF RowsOf
<1>2. RowsOf(n.start_key, n.end_key, D) = From(n.start_key, D) \ From(n.end_key, D)
  BY DEF RowsOf
<1>3. left \in SUBSET D /\ left \in SUBSET Keys /\ rows \in SUBSET Keys
  BY RowsType DEF FirstOf
<1>4. PICK last : last = get_last_key(rev, rows)
  OBVIOUS
<1>5. /\ last \in rows /\ last \in Keys
      /\ \A j \in rows : j = last \/ Before(rev, j, last)
  BY <1>3, <1>4, LastRow
<1>6. /\ n.start_key = IF rev THEN s.start_key ELSE first_greater_than(last)
      /\ n.end_key = IF rev THEN first_greater_or_equal(last) ELSE s.end_key
  BY <1>4 DEF NextSt, St
<1>7. s.start_key \in Selectors /\ s.end_key \in Selectors
  BY DEF Sts
<1>8. /\ first_greater_than(last) \in Selectors /\ Plain(first_greater_than(last))
      /\ first_greater_or_equal(last) \in Selectors /\ Plain(first_greater_or_equal(last))
      /\ \A k \in Keys : AtOrAfter(first_greater_than(last), k) <=> k > last
      /\ \A k \in Keys : AtOrAfter(first_greater_or_equal(last), k) <=> k >= last
  BY <1>5, NextBounds
<1>9. \A k \in Keys : k \in Nat
  BY DEF Keys
<1> HIDE DEF rows, left, n
<1>10. FirstOf(rev, rows, left)
  BY DEF rows, left
<1>11. \A k \in left : k \notin rows <=> Before(rev, last, k)
  <2>1. ASSUME NEW k \in left, k \notin rows
        PROVE  Before(rev, last, k)
    BY <1>3, <1>5, <1>10, <2>1, BeforeOrder DEF FirstOf
  <2>2. ASSUME NEW k \in rows
        PROVE  ~Before(rev, last, k)
    BY <1>3, <1>5, BeforeOrder
  <2> QED
    BY <2>1, <2>2
<1>12. last \in From(s.start_key, D) /\ last \notin From(s.end_key, D) /\ last \in D
  BY <1>1, <1>3, <1>5, <1>10 DEF FirstOf
<1>13. CASE rev
  <2>1. From(n.end_key, D) = {k \in D : k >= last}
    BY <1>6, <1>8, <1>13, FromPlain
  <2>2. \A k \in From(s.end_key, D) : k \in D /\ ~(k < last)
    <3>1. ASSUME NEW k \in From(s.end_key, D), k <= last
          PROVE  FALSE
      BY <1>7, <1>12, <3>1, FromUp
    <3> QED
      BY <1>5, <1>9, <3>1 DEF From
  <2>3. \A k \in D : Before(rev, last, k) <=> ~(k >= last)
    BY <1>5, <1>9, <1>13 DEF Before
  <2>4. \A k \in From(s.start_key, D) : k \in D
    BY DEF From
  <2>5. \A k \in D : ~(k >= last) => k < last
    BY <1>5, <1>9
  <2>6. n.start_key = s.start_key
    BY <1>6, <1>13
  <2>7. RowsOf(n.start_key, n.end_key, D) = left \ rows
    BY <1>1, <1>2, <1>10, <1>11, <2>1, <2>2, <2>3, <2>4, <2>5, <2>6 DEF FirstOf
  <2> QED
    BY <2>7 DEF n, left, rows
<1>14. CASE ~rev
  <2>1. From(n.start_key, D) = {k \in D : k > last}
    BY <1>6, <1>8, <1>14, FromPlain
  <2>2. \A k \in D : k > last => k \in From(s.start_key, D)
    <3>1. ASSUME NEW k \in D, last <= k
          PROVE  k \in From(s.start_key, D)
      BY <1>7, <1>12, <3>1, FromUp
    <3> QED
      BY <1>5, <1>9, <3>1
  <2>3. \A k \in D : Before(rev, last, k) <=> k > last
    BY <1>5, <1>9, <1>14 DEF Before
  <2>4. \A k \in From(s.start_key, D) : k \in D
    BY DEF From
  <2>5. n.end_key = s.end_key
    BY <1>6, <1>14
  <2>6. RowsOf(n.start_key, n.end_key, D) = left \ rows
    BY <1>1, <1>2, <1>10, <1>11, <2>1, <2>2, <2>3, <2>4, <2>5 DEF FirstOf
  <2> QED
    BY <2>6 DEF n, left, rows
<1> QED
  BY <1>13, <1>14

-----------------------------------------------------------------------------
(* Going on *)

\* The invariant of a read that has returned the rows o, g of them, and is about
\* to ask for a page with the state s.
LeftOf(s, k) == AtOrAfter(s.start_key, k) /\ ~AtOrAfter(s.end_key, k)

ReadyLimit(s, o, g) ==
  /\ s \in [start_key : Selectors, end_key : Selectors, limit : 0..MaxLimit]
  /\ o \in SUBSET Keys /\ g \in Nat /\ g = Cardinality(o)
  /\ s.limit = 0 <=> limit = 0
  /\ limit # 0 => g <= limit /\ g + s.limit = limit

ReadyOrder(s, o) ==
  o # {} =>
    \E l \in Keys :
       IF reverse THEN s.end_key = first_greater_or_equal(l) /\ \A k \in o : l <= k
                  ELSE s.start_key = first_greater_than(l) /\ \A k \in o : k <= l

ReadyLeft(s, o) ==
  Plain(start) /\ Plain(end) =>
    /\ Plain(s.start_key) /\ Plain(s.end_key)
    /\ \A k \in db \ written : Within(k) => k \in o \/ LeftOf(s, k)

ReadyExact(s, o) ==
  written = {} =>
    /\ FirstOf(reverse, o, RowsOf(start, end, db))
    /\ RowsOf(s.start_key, s.end_key, db) = RowsOf(start, end, db) \ o

Ready(s, o, g) ==
  ReadyLimit(s, o, g) /\ ReadyOrder(s, o) /\ ReadyLeft(s, o) /\ ReadyExact(s, o)

\* So it is before the first page, and when the user's function has returned.
LEMMA ReadyBetween ==
  ASSUME IInv, pc \in {"idle", "fun"}
  PROVE  Ready(st, out, given)
<1>1. ReadyLimit(st, out, given)
  BY DEF IInv, TypeOK, LimitInv, Going, ReadyLimit
<1>2. ReadyOrder(st, out)
  BY DEF IInv, OrderInv, Going, ReadyOrder
<1>3. ReadyLeft(st, out)
  BY DEF IInv, LeftInv, Going, ReadyLeft, Left, LeftOf
<1>4. ReadyExact(st, out)
  BY DEF IInv, ExactInv, Going, ReadyExact
<1> QED
  BY <1>1, <1>2, <1>3, <1>4 DEF Ready

\* The rows that the read returns for a page are all its rows, and new ones.
LEMMA Returned ==
  ASSUME IInv, pc = "wait"
  PROVE  /\ Rows(st, reverse, fut) = fut.rows
         /\ fut.rows \in SUBSET Keys /\ Cardinality(fut.rows) \in Nat
         /\ out \in SUBSET Keys /\ given \in Nat /\ given = Cardinality(out)
         /\ out \cup fut.rows \in SUBSET Keys
         /\ given + Cardinality(fut.rows) = Cardinality(out \cup fut.rows)
         /\ limit # 0 => given + Cardinality(fut.rows) <= limit
<1>1. fut.rows \in SUBSET Keys /\ out \in SUBSET Keys /\ given \in Nat
  BY DEF IInv, TypeOK
<1>2. Cardinality(fut.rows) \in Nat
  BY <1>1, KeysFinite
<1>3. st \in Sts /\ st.limit \in Nat /\ limit \in Nat /\ reverse \in BOOLEAN
  BY DEF IInv, TypeOK, Sts
<1>4. /\ given = Cardinality(out) /\ (st.limit = 0 <=> limit = 0)
      /\ limit # 0 => given + st.limit = limit
      /\ st.limit # 0 => Cardinality(fut.rows) <= st.limit
  BY DEF IInv, LimitInv, Going
<1>5. Rows(st, reverse, fut) = fut.rows
  BY <1>1, <1>3, <1>4, RowsWhole
<1>6. out \cap fut.rows = {}
  <2>1. \A j \in out, k \in fut.rows : Before(reverse, j, k)
    BY DEF IInv, OrderInv, Going
  <2> QED
    BY <1>1, <1>3, <2>1, BeforeOrder
<1>7. Cardinality(out \cup fut.rows) = Cardinality(out) + Cardinality(fut.rows)
  BY <1>1, <1>6, DisjointSum
<1>8. limit # 0 => given + Cardinality(fut.rows) <= limit
  BY <1>1, <1>2, <1>3, <1>4
<1> QED
  BY <1>1, <1>2, <1>4, <1>5, <1>7, <1>8

\* After a page with more to come the state goes on behind its last row.
LEMMA ReadyAdvanced ==
  ASSUME IInv, pc = "wait", Recurse(st, fut)
  PROVE  Ready(NextSt(st, reverse, fut), out \cup fut.rows, given + Cardinality(fut.rows))
<1> DEFINE rows  == fut.rows
           count == Cardinality(rows)
           o     == out \cup rows
           s     == NextSt(st, reverse, fut)
<1>1. /\ rows # {} /\ fut.more
      /\ st.limit = 0 \/ st.limit > count
  BY DEF Recurse
<1>2. PICK last : last = get_last_key(reverse, rows)
  OBVIOUS
<1>3. /\ reverse \in BOOLEAN /\ db \in SUBSET Keys
      /\ st.start_key \in Selectors /\ st.end_key \in Selectors /\ st.limit \in 0..MaxLimit
      /\ st \in Sts /\ limit \in Nat
  BY DEF IInv, TypeOK, Sts
<1>4. /\ rows \in SUBSET Keys /\ count \in Nat
      /\ o \in SUBSET Keys /\ given \in Nat
      /\ given + count = Cardinality(o)
      /\ limit # 0 => given + count <= limit
  BY Returned
<1>5. /\ last \in rows /\ last \in Keys
      /\ \A j \in rows : j = last \/ Before(reverse, j, last)
  BY <1>1, <1>2, <1>3, <1>4, LastRow
<1>6. \A j \in o : j = last \/ Before(reverse, j, last)
  <2>1. \A j \in out, k \in rows : Before(reverse, j, k)
    BY DEF IInv, OrderInv, Going
  <2> QED
    BY <1>5, <2>1
<1>7. /\ s.start_key = IF reverse THEN st.start_key ELSE first_greater_than(last)
      /\ s.end_key = IF reverse THEN first_greater_or_equal(last) ELSE st.end_key
      /\ s.limit = IF st.limit = 0 THEN 0 ELSE st.limit - count
      /\ s = [start_key |-> s.start_key, end_key |-> s.end_key, limit |-> s.limit]
  BY <1>2 DEF NextSt, St
<1>8. /\ first_greater_than(last) \in Selectors /\ Plain(first_greater_than(last))
      /\ first_greater_or_equal(last) \in Selectors /\ Plain(first_greater_or_equal(last))
      /\ \A k \in Keys : AtOrAfter(first_greater_than(last), k) <=> k > last
      /\ \A k \in Keys : AtOrAfter(first_greater_or_equal(last), k) <=> k >= last
  BY <1>5, NextBounds
<1>9. \A k \in Keys : k \in Nat
  BY DEF Keys
<1> HIDE DEF s, o, count, rows
<1>10. ReadyLimit(s, o, given + count)
  <2>1. /\ s.start_key \in Selectors /\ s.end_key \in Selectors
        /\ s.limit \in 0..MaxLimit
    BY <1>1, <1>3, <1>4, <1>7, <1>8
  <2>2. s \in [start_key : Selectors, end_key : Selectors, limit : 0..MaxLimit]
    BY <1>7, <2>1
  <2>3. /\ st.limit = 0 <=> limit = 0
        /\ limit # 0 => given + st.limit = limit
    BY DEF IInv, LimitInv, Going
  <2>4. /\ s.limit = 0 <=> limit = 0
        /\ limit # 0 => given + count + s.limit = limit
    BY <1>1, <1>3, <1>4, <1>7, <2>3
  <2> QED
    BY <1>4, <2>2, <2>4 DEF ReadyLimit
<1>11. ReadyOrder(s, o)
  <2>1. CASE reverse
    <3>1. s.end_key = first_greater_or_equal(last) /\ \A k \in o : last <= k
      BY <1>4, <1>5, <1>6, <1>7, <1>9, <2>1 DEF Before
    <3> QED
      BY <1>5, <2>1, <3>1 DEF ReadyOrder
  <2>2. CASE ~reverse
    <3>1. s.start_key = first_greater_than(last) /\ \A k \in o : k <= last
      BY <1>4, <1>5, <1>6, <1>7, <1>9, <2>2 DEF Before
    <3> QED
      BY <1>5, <2>2, <3>1 DEF ReadyOrder
  <2> QED
    BY <2>1, <2>2
<1>12. ReadyLeft(s, o)
  <2> SUFFICES ASSUME Plain(start), Plain(end)
               PROVE  /\ Plain(s.start_key) /\ Plain(s.end_key)
                      /\ \A k \in db \ written : Within(k) => k \in o \/ LeftOf(s, k)
    BY DEF ReadyLeft
  <2>1. Plain(s.start_key) /\ Plain(s.end_key)
    BY <1>3, <1>7, <1>8 DEF IInv, LeftInv, Going
  <2>2. ASSUME NEW k \in db \ written, Within(k), k \notin o
        PROVE  LeftOf(s, k)
    <3>1. /\ Left(k)
          /\ k \in fut.rows \/ \A j \in fut.rows : Before(reverse, j, k)
      BY <2>2 DEF IInv, LeftInv, Going, o
    <3>2. Before(reverse, last, k)
      BY <1>5, <2>2, <3>1 DEF o, rows
    <3>3. k \in Keys
      BY <1>3, <2>2
    <3>4. CASE reverse
      <4>1. ~AtOrAfter(s.end_key, k)
        BY <1>5, <1>7, <1>8, <1>9, <3>2, <3>3, <3>4 DEF Before
      <4> QED
        BY <1>7, <3>1, <3>4, <4>1 DEF Left, LeftOf
    <3>5. CASE ~reverse
      <4>1. AtOrAfter(s.start_key, k)
        BY <1>5, <1>7, <1>8, <1>9, <3>2, <3>3, <3>5 DEF Before
      <4> QED
        BY <1>7, <3>1, <3>5, <4>1 DEF Left, LeftOf
    <3> QED
      BY <3>4, <3>5
  <2> QED
    BY <2>1, <2>2
<1>13. ReadyExact(s, o)
  <2> SUFFICES ASSUME written = {}
               PROVE  /\ FirstOf(reverse, o, RowsOf(start, end, db))
                      /\ RowsOf(s.start_key, s.end_key, db) = RowsOf(start, end, db) \ o
    BY DEF ReadyExact
  <2> DEFINE all  == RowsOf(start, end, db)
             left == RowsOf(st.start_key, st.end_key, db)
  <2>1. /\ FirstOf(reverse, out, all) /\ left = all \ out
        /\ FirstOf(reverse, rows, left)
    BY DEF IInv, ExactInv, Going, rows
  <2>2. RowsOf(s.start_key, s.end_key, db) = left \ rows
    <3>1. FirstOf(reverse, fut.rows, RowsOf(st.start_key, st.end_key, db)) /\ fut.rows # {}
      BY <1>1, <2>1 DEF rows
    <3>2. RowsOf(NextSt(st, reverse, fut).start_key, NextSt(st, reverse, fut).end_key, db)
             = RowsOf(st.start_key, st.end_key, db) \ fut.rows
      BY <1>3, <3>1, AdvanceRows
    <3> QED
      BY <3>2 DEF s, rows
  <2> HIDE DEF all, left
  <2>3. FirstOf(reverse, o, all) /\ all \ o = left \ rows
    BY <2>1 DEF FirstOf, o
  <2> QED
    BY <2>2, <2>3 DEF all
<1> QED
  BY <1>10, <1>11, <1>12, <1>13 DEF Ready, s, o, count, rows

-----------------------------------------------------------------------------
(* Steps *)

\* The type of what does not depend on the step.
LEMMA ArgTypes ==
  ASSUME IInv
  PROVE  /\ mode \in {"fold", "iterator"} /\ reverse \in BOOLEAN
         /\ start \in Bounds /\ end \in Bounds /\ limit \in 0..MaxLimit
         /\ db \in SUBSET Keys /\ written \in SUBSET Keys
BY DEF IInv, TypeOK

\* A page is asked for.
LEMMA Sent ==
  ASSUME IInv, NEW s, NEW o, NEW g, Ready(s, o, g),
         NEW page \in Pages(s, reverse, db),
         st' = s, out' = o, given' = g, fut' = Asked(page), pc' = "wait",
         UNCHANGED <<argVars, db, written>>
  PROVE  IInv'
<1>1. ReadyLimit(s, o, g) /\ ReadyOrder(s, o) /\ ReadyLeft(s, o) /\ ReadyExact(s, o)
  BY DEF Ready
<1>2. /\ mode' = mode /\ reverse' = reverse /\ start' = start /\ end' = end
      /\ limit' = limit /\ db' = db /\ written' = written
  BY DEF argVars
<1>3. s \in Sts /\ o \in SUBSET Keys
  BY <1>1 DEF ReadyLimit, Sts
<1> DEFINE rows == RowsOf(s.start_key, s.end_key, db)
<1>4. /\ FirstOf(reverse, page.rows, rows)
      /\ s.limit # 0 => Cardinality(page.rows) <= s.limit
      /\ page.rows = {} => rows = {}
      /\ page.more \in BOOLEAN
      /\ ~page.more => page.rows = rows
  BY <1>3, ArgTypes, PageFacts
<1>5. rows \in SUBSET db
  BY <1>3, ArgTypes, RowsType
<1>6. fut'.rows = page.rows /\ fut'.more = page.more /\ fut'.none = FALSE
  BY DEF Asked
<1>7. page.rows \in SUBSET rows /\ page.rows \in SUBSET Keys
  BY <1>4, <1>5, ArgTypes DEF FirstOf
<1>8. TypeOK'
  <2>1. fut' \in [rows : SUBSET Keys, more : BOOLEAN, none : BOOLEAN]
    BY <1>4, <1>7 DEF Asked
  <2> QED
    BY <1>1, <1>2, <2>1, ArgTypes DEF TypeOK, ReadyLimit
<1>9. LimitInv'
  BY <1>1, <1>2, <1>4, <1>6 DEF LimitInv, Going, ReadyLimit
<1> HIDE DEF rows
<1>10. OrderInv'
  <2>1. ASSUME NEW j \in o, NEW k \in page.rows
        PROVE  Before(reverse, j, k)
    <3>1. PICK l \in Keys :
             IF reverse THEN s.end_key = first_greater_or_equal(l) /\ \A i \in o : l <= i
                        ELSE s.start_key = first_greater_than(l) /\ \A i \in o : i <= l
      BY <1>1 DEF ReadyOrder
    <3>2. /\ first_greater_than(l) \in Selectors /\ Plain(first_greater_than(l))
          /\ first_greater_or_equal(l) \in Selectors /\ Plain(first_greater_or_equal(l))
          /\ \A i \in Keys : AtOrAfter(first_greater_than(l), i) <=> i > l
          /\ \A i \in Keys : AtOrAfter(first_greater_or_equal(l), i) <=> i >= l
      BY NextBounds
    <3>3. k \in db /\ k \in Keys /\ k \in From(s.start_key, db) /\ k \notin From(s.end_key, db)
      BY <1>5, <1>7, ArgTypes DEF rows, RowsOf
    <3>4. j \in Nat /\ k \in Nat /\ l \in Nat
      BY <1>3, <3>3 DEF Keys
    <3>5. CASE reverse
      <4>1. From(s.end_key, db) = {i \in db : AtOrAfter(s.end_key, i)}
        BY <1>3, <3>1, <3>2, <3>5, ArgTypes, FromPlain
      <4>2. ~(k >= l) /\ l <= j
        BY <3>1, <3>2, <3>3, <3>5, <4>1
      <4> QED
        BY <3>4, <3>5, <4>2 DEF Before
    <3>6. CASE ~reverse
      <4>1. From(s.start_key, db) = {i \in db : AtOrAfter(s.start_key, i)}
        BY <1>3, <3>1, <3>2, <3>6, ArgTypes, FromPlain
      <4>2. k > l /\ j <= l
        BY <3>1, <3>2, <3>3, <3>6, <4>1
      <4> QED
        BY <3>4, <3>6, <4>2 DEF Before
    <3> QED
      BY <3>5, <3>6
  <2> QED
    BY <1>1, <1>2, <1>6, <2>1 DEF OrderInv, ReadyOrder
<1>11. LeftInv'
  <2>1. ASSUME Plain(start), Plain(end)
        PROVE  /\ Plain(s.start_key) /\ Plain(s.end_key)
               /\ \A k \in db \ written :
                     Within(k) =>
                        \/ k \in o
                        \/ /\ LeftOf(s, k)
                           /\ \/ k \in page.rows
                              \/ /\ page.more /\ page.rows # {}
                                 /\ \A j \in page.rows : Before(reverse, j, k)
    <3>1. Plain(s.start_key) /\ Plain(s.end_key)
      BY <1>1, <2>1 DEF ReadyLeft
    <3>2. rows = {k \in db : LeftOf(s, k)}
      <4>1. From(s.start_key, db) = {k \in db : AtOrAfter(s.start_key, k)}
        BY <1>3, <3>1, ArgTypes, FromPlain DEF Sts
      <4>2. From(s.end_key, db) = {k \in db : AtOrAfter(s.end_key, k)}
        BY <1>3, <3>1, ArgTypes, FromPlain DEF Sts
      <4> QED
        BY <4>1, <4>2 DEF rows, RowsOf, LeftOf
    <3>3. ASSUME NEW k \in rows, k \notin page.rows
          PROVE  /\ page.more /\ page.rows # {}
                 /\ \A j \in page.rows : Before(reverse, j, k)
      <4>1. ASSUME NEW j \in page.rows
            PROVE  Before(reverse, j, k)
        <5>1. ~Before(reverse, k, j) /\ j # k /\ j \in Keys /\ k \in Keys
          BY <1>4, <1>5, <1>7, <3>3, ArgTypes DEF FirstOf
        <5> QED
          BY <5>1, ArgTypes, BeforeOrder
      <4> QED
        BY <1>4, <3>3, <4>1
    <3>4. \A k \in db \ written : Within(k) => k \in o \/ LeftOf(s, k)
      BY <1>1, <2>1 DEF ReadyLeft
    <3> QED
      BY <3>1, <3>2, <3>3, <3>4
  <2>2. \A k : /\ Within(k)' <=> Within(k)
               /\ Left(k)' <=> LeftOf(s, k)
    BY <1>2 DEF Within, Left, LeftOf
  <2> QED
    BY <1>2, <1>6, <2>1, <2>2 DEF LeftInv
<1>12. ExactInv'
  <2>1. ASSUME written = {}
        PROVE  /\ FirstOf(reverse, o, RowsOf(start, end, db))
               /\ RowsOf(s.start_key, s.end_key, db) = RowsOf(start, end, db) \ o
    BY <1>1, <2>1 DEF ReadyExact
  <2> QED
    BY <1>2, <1>4, <1>6, <2>1 DEF ExactInv, rows
<1>13. NoRowSkipped' /\ SameAsOneRead'
  BY DEF NoRowSkipped, SameAsOneRead
<1> QED
  BY <1>8, <1>9, <1>10, <1>11, <1>12, <1>13 DEF IInv

\* The fold calls the user's function.
LEMMA Paused ==
  ASSUME IInv, NEW s, NEW o, NEW g, Ready(s, o, g),
         st' = s, out' = o, given' = g, fut' = NoPage, pc' = "fun",
         UNCHANGED <<argVars, db, written>>
  PROVE  IInv'
<1>1. ReadyLimit(s, o, g) /\ ReadyOrder(s, o) /\ ReadyLeft(s, o) /\ ReadyExact(s, o)
  BY DEF Ready
<1>2. /\ mode' = mode /\ reverse' = reverse /\ start' = start /\ end' = end
      /\ limit' = limit /\ db' = db /\ written' = written
  BY DEF argVars
<1>3. TypeOK'
  <2>1. fut' \in [rows : SUBSET Keys, more : BOOLEAN, none : BOOLEAN]
    BY DEF NoPage
  <2> QED
    BY <1>1, <1>2, <2>1, ArgTypes DEF TypeOK, ReadyLimit
<1>4. LimitInv'
  BY <1>1, <1>2 DEF LimitInv, ReadyLimit
<1>5. OrderInv'
  BY <1>1, <1>2 DEF OrderInv, ReadyOrder
<1>6. LeftInv'
  <2>1. \A k : /\ Within(k)' <=> Within(k)
               /\ Left(k)' <=> LeftOf(s, k)
    BY <1>2 DEF Within, Left, LeftOf
  <2> QED
    BY <1>1, <1>2, <2>1 DEF LeftInv, ReadyLeft
<1>7. ExactInv'
  BY <1>1, <1>2 DEF ExactInv, ReadyExact
<1>8. NoRowSkipped' /\ SameAsOneRead'
  BY DEF NoRowSkipped, SameAsOneRead
<1> QED
  BY <1>3, <1>4, <1>5, <1>6, <1>7, <1>8 DEF IInv

\* The last page: the limit is reached, or nothing is left.
LEMMA Finished ==
  ASSUME IInv, pc = "wait", ~Recurse(st, fut),
         out' = out \cup fut.rows, given' = given + Cardinality(fut.rows),
         st' = st, fut' = NoPage, pc' = "done",
         UNCHANGED <<argVars, db, written>>
  PROVE  IInv'
<1> DEFINE rows  == fut.rows
           count == Cardinality(rows)
           o     == out \cup rows
<1>1. /\ rows \in SUBSET Keys /\ count \in Nat
      /\ out \in SUBSET Keys /\ o \in SUBSET Keys /\ given \in Nat /\ given = Cardinality(out)
      /\ given + count = Cardinality(o)
      /\ limit # 0 => given + count <= limit
  BY Returned
<1>2. /\ mode' = mode /\ reverse' = reverse /\ start' = start /\ end' = end
      /\ limit' = limit /\ db' = db /\ written' = written
  BY DEF argVars
<1>3. /\ reverse \in BOOLEAN /\ db \in SUBSET Keys /\ limit \in Nat /\ st.limit \in Nat
      /\ st \in Sts
  BY DEF IInv, TypeOK, Sts
<1>4. /\ st.limit = 0 <=> limit = 0
      /\ limit # 0 => given + st.limit = limit
      /\ st.limit # 0 => count <= st.limit
  BY DEF IInv, LimitInv, Going
<1>5. rows = {} \/ ~fut.more \/ (limit # 0 /\ given + count = limit)
  <2>1. rows = {} \/ ~fut.more \/ (st.limit # 0 /\ ~(st.limit > count))
    BY <1>3 DEF Recurse, IInv, TypeOK
  <2> QED
    BY <1>1, <1>3, <1>4, <2>1
<1>6. TypeOK'
  <2>1. fut' \in [rows : SUBSET Keys, more : BOOLEAN, none : BOOLEAN]
    BY DEF NoPage
  <2>2. /\ st \in [start_key : Selectors, end_key : Selectors, limit : 0..MaxLimit]
    BY DEF IInv, TypeOK
  <2>3. out' \subseteq Keys /\ given' \in Nat
    BY <1>1
  <2> QED
    BY <1>2, <2>1, <2>2, <2>3, ArgTypes DEF TypeOK
<1>7. LimitInv'
  BY <1>1, <1>2 DEF LimitInv, Going
<1>8. OrderInv' /\ LeftInv' /\ ExactInv'
  BY DEF OrderInv, LeftInv, ExactInv, Going
<1>9. NoRowSkipped'
  <2>1. ASSUME Plain(start), Plain(end), limit = 0 \/ given + count < limit,
               NEW k \in db \ written, Within(k)
        PROVE  k \in o
    <3>1. \/ k \in out
          \/ k \in fut.rows
          \/ fut.more /\ fut.rows # {}
      BY <2>1 DEF IInv, LeftInv, Going
    <3>2. rows = {} \/ ~fut.more
      BY <1>1, <1>3, <1>5, <2>1
    <3> QED
      BY <3>1, <3>2
  <2>2. \A k : Within(k)' <=> Within(k)
    BY <1>2 DEF Within
  <2> QED
    BY <1>2, <2>1, <2>2 DEF NoRowSkipped
<1>10. SameAsOneRead'
  <2> DEFINE all  == RowsOf(start, end, db)
             left == RowsOf(st.start_key, st.end_key, db)
  <2>1. ASSUME written = {}
        PROVE  o = IF limit = 0 THEN all ELSE First(limit, reverse, all)
    <3>1. /\ FirstOf(reverse, out, all) /\ left = all \ out
          /\ FirstOf(reverse, rows, left)
          /\ rows = {} => left = {}
          /\ ~fut.more => rows = left
      BY <2>1 DEF IInv, ExactInv, Going
    <3>2. all \in SUBSET Keys
      BY <1>3 DEF RowsOf, From
    <3> HIDE DEF all, left, rows, o, count
    <3>3. FirstOf(reverse, o, all)
      BY <3>1 DEF FirstOf, o
    <3>4. o = all \/ (limit # 0 /\ Cardinality(o) = limit)
      BY <1>1, <1>5, <3>1 DEF FirstOf, o
    <3>5. CASE limit = 0
      BY <3>4, <3>5
    <3>6. CASE limit # 0
      <4>1. o \in SUBSET all /\ Cardinality(o) <= limit
        BY <1>1, <3>3, <3>6 DEF FirstOf
      <4>2. o = First(limit, reverse, all)
        BY <1>3, <3>2, <3>3, <3>4, <4>1, FirstExact
      <4> QED
        BY <3>6, <4>2
    <3> QED
      BY <3>5, <3>6
  <2> QED
    BY <1>2, <2>1 DEF SameAsOneRead
<1> QED
  BY <1>6, <1>7, <1>8, <1>9, <1>10 DEF IInv

\* The first page, and the next one after the user's function.
LEMMA Step_ask ==
  ASSUME IInv, begin \/ fold_next
  PROVE  IInv'
<1>1. /\ Ready(st, out, given)
      /\ \E page \in Pages(st, reverse, db) : fut' = Asked(page)
      /\ st' = st /\ out' = out /\ given' = given /\ pc' = "wait"
      /\ UNCHANGED <<argVars, db, written>>
  BY ReadyBetween DEF begin, fold_next, SendGetRange
<1> QED
  BY <1>1, Sent

\* A page of the fold.
LEMMA Step_fold_result ==
  ASSUME IInv, fold_result
  PROVE  IInv'
<1>1. /\ out' = out \cup fut.rows /\ given' = given + Cardinality(fut.rows)
      /\ pc = "wait" /\ fut' = NoPage /\ UNCHANGED <<argVars, db, written>>
  BY Returned DEF fold_result, Give
<1>2. CASE Recurse(st, fut) /\ st' = NextSt(st, reverse, fut) /\ pc' = "fun"
  BY <1>1, <1>2, ReadyAdvanced, Paused
<1>3. CASE ~Recurse(st, fut) /\ pc' = "done" /\ UNCHANGED st
  BY <1>1, <1>3, Finished
<1> QED
  BY <1>2, <1>3 DEF fold_result

\* A page of the iterator.
LEMMA Step_handle_next ==
  ASSUME IInv, handle_next
  PROVE  IInv'
<1>1. /\ out' = out \cup fut.rows /\ given' = given + Cardinality(fut.rows)
      /\ pc = "wait" /\ UNCHANGED <<argVars, db, written>>
  BY Returned DEF handle_next, Give
<1>2. CASE Recurse(st, fut) /\ SendGetRange(NextSt(st, reverse, fut)) /\ UNCHANGED pc
  <2>1. /\ st' = NextSt(st, reverse, fut) /\ pc' = "wait"
        /\ \E page \in Pages(NextSt(st, reverse, fut), reverse, db) : fut' = Asked(page)
    BY <1>1, <1>2 DEF SendGetRange
  <2> QED
    BY <1>1, <1>2, <2>1, ReadyAdvanced, Sent
<1>3. CASE ~Recurse(st, fut) /\ pc' = "done" /\ fut' = NoPage /\ UNCHANGED st
  BY <1>1, <1>3, Finished
<1> QED
  BY <1>2, <1>3 DEF handle_next

\* The read is given up.
LEMMA Step_ended ==
  ASSUME IInv, handle_stop \/ wait_raises
  PROVE  IInv'
<1>1. /\ pc' \in {"stopped", "raised"}
      /\ UNCHANGED <<argVars, db, written, st, out, given>>
      /\ fut' = NoPage \/ fut' = fut
  BY DEF handle_stop, wait_raises
<1>2. TypeOK'
  <2>1. NoPage \in [rows : SUBSET Keys, more : BOOLEAN, none : BOOLEAN]
    BY DEF NoPage
  <2> QED
    BY <1>1, <2>1 DEF IInv, TypeOK, argVars
<1>3. LimitInv'
  BY <1>1 DEF IInv, LimitInv, Going, argVars
<1>4. OrderInv' /\ LeftInv' /\ ExactInv'
  BY <1>1 DEF OrderInv, LeftInv, ExactInv, Going
<1>5. NoRowSkipped' /\ SameAsOneRead'
  BY <1>1 DEF NoRowSkipped, SameAsOneRead
<1> QED
  BY <1>2, <1>3, <1>4, <1>5 DEF IInv

\* The user writes a key: what is promised is about the others.
LEMMA Step_write ==
  ASSUME IInv, NEW key \in Keys, write(key)
  PROVE  IInv'
<1>1. /\ pc \in {"wait", "fun"} /\ pc' = pc
      /\ UNCHANGED <<argVars, st, fut, out, given>>
      /\ db' \in {db \cup {key}, db \ {key}} /\ written' = written \cup {key}
  BY DEF write
<1>2. TypeOK'
  BY <1>1 DEF IInv, TypeOK, argVars
<1>3. LimitInv' /\ OrderInv'
  BY <1>1 DEF IInv, LimitInv, OrderInv, Going, argVars
<1>4. LeftInv'
  <2>1. \A k : (Within(k)' <=> Within(k)) /\ (Left(k)' <=> Left(k))
    BY <1>1 DEF Within, Left, argVars
  <2>2. db' \ written' \subseteq db \ written
    BY <1>1
  <2> QED
    BY <1>1, <2>1, <2>2 DEF IInv, LeftInv, Going, argVars
<1>5. ExactInv'
  BY <1>1 DEF ExactInv
<1>6. NoRowSkipped' /\ SameAsOneRead'
  BY <1>1 DEF NoRowSkipped, SameAsOneRead
<1> QED
  BY <1>2, <1>3, <1>4, <1>5, <1>6 DEF IInv

\* Nothing changes.
LEMMA Step_stutter ==
  ASSUME IInv, UNCHANGED vars
  PROVE  IInv'
<1> USE DEF vars, argVars
<1>1. TypeOK' /\ LimitInv' /\ OrderInv'
  BY DEF IInv, TypeOK, LimitInv, OrderInv, Going
<1>2. LeftInv' /\ NoRowSkipped'
  BY DEF IInv, LeftInv, NoRowSkipped, Going, Within, Left
<1>3. ExactInv' /\ SameAsOneRead'
  BY DEF IInv, ExactInv, SameAsOneRead, Going
<1> QED
  BY <1>1, <1>2, <1>3 DEF IInv

\* The invariant holds initially.
LEMMA Initial ==
  ASSUME Init
  PROVE  IInv
<1> USE DEF Init
<1>1. st \in [start_key : Selectors, end_key : Selectors, limit : 0..MaxLimit]
      /\ st.start_key = start /\ st.end_key = end /\ st.limit = limit
  BY DEF St
<1>2. TypeOK
  BY <1>1 DEF TypeOK, NoPage
<1>3. LimitInv
  BY <1>1, FS_EmptySet DEF LimitInv
<1>4. OrderInv
  BY DEF OrderInv
<1>5. LeftInv
  BY <1>1 DEF LeftInv, Within, Left
<1>6. ExactInv
  BY <1>1 DEF ExactInv, FirstOf
<1>7. NoRowSkipped /\ SameAsOneRead
  BY DEF NoRowSkipped, SameAsOneRead
<1> QED
  BY <1>2, <1>3, <1>4, <1>5, <1>6, <1>7 DEF IInv

\* Every step, or stutter, preserves the invariant.
LEMMA Preserved ==
  ASSUME IInv, [Next]_vars
  PROVE  IInv'
BY Step_ask, Step_fold_result, Step_handle_next, Step_ended, Step_write, Step_stutter
   DEF Next, Read

-----------------------------------------------------------------------------
(* Theorems *)

\* The inductive invariant holds in every reachable state.
THEOREM Invariance == Spec => []IInv
BY Initial, Preserved, PTL DEF Spec

\* No row is returned twice, and the limit bounds the rows of all pages together,
\* for every kind of bound and whatever is written meanwhile.
THEOREM OnceEach == Spec => []NoRowTwice
<1>1. IInv => NoRowTwice
  BY DEF IInv, LimitInv, NoRowTwice
<1> QED
  BY <1>1, Invariance, PTL

\* Every key of the range that the user did not write is returned.
THEOREM NoneSkipped == Spec => []NoRowSkipped
<1>1. IInv => NoRowSkipped
  BY DEF IInv
<1> QED
  BY <1>1, Invariance, PTL

\* Without writes the pages together are what one read would return.
THEOREM PagesAreOneRead == Spec => []SameAsOneRead
<1>1. IInv => SameAsOneRead
  BY DEF IInv
<1> QED
  BY <1>1, Invariance, PTL

-----------------------------------------------------------------------------
(* The range read beside the other calls *)

\* A call starts as a range read does, or leaves the range read alone.
LEMMA RangeInit ==
  ASSUME ReadInit
  PROVE  Init
<1>1. CASE call = "range" /\ Init
  BY <1>1
<1>2. CASE NoRange /\ db \in SUBSET Keys
  <2>1. start \in Bounds /\ end \in Bounds /\ limit \in 0..MaxLimit
    <3>1. PICK b : b \in Bounds
      BY ReadCallsAssumption
    <3>2. start \in Bounds
      BY <1>2, <3>1, Zenon DEF NoRange
    <3>3. end = start /\ limit = 0
      BY <1>2, Zenon DEF NoRange
    <3> QED
      BY <3>2, <3>3
  <2> QED
    BY <1>2, <2>1 DEF NoRange, Init
<1>3. ASSUME I!Init
      PROVE  db \in SUBSET Keys
  BY <1>3 DEF I!Init, I!Keys, Keys
<1> QED
  BY <1>1, <1>2, <1>3 DEF ReadInit

\* A step of a call is one of the range read, or leaves it alone.
LEMMA RangeNext ==
  ASSUME [ReadNext]_allVars
  PROVE  [Next]_vars
<1>1. CASE Next
  BY <1>1
<1>2. CASE I!Next /\ UNCHANGED <<call, argVars, written, st, fut, out, given, pc, anyVars>>
  <2>1. UNCHANGED db
    BY <1>2 DEF I!Next, I!Step, I!wait_for_all_interleaving, I!apply_more, I!apply_done,
                I!fold_interleaving_and_wait, I!wait_raises
  <2> QED
    BY <1>2, <2>1 DEF vars, argVars
<1>3. CASE UNCHANGED vars
  BY <1>3
<1> QED
  BY <1>1, <1>2, <1>3 DEF ReadNext, allVars

\* Every behaviour of the calls is one of the range read, seen at its own
\* variables, but for the fairness.
THEOREM RangeRefined == ReadSpec => Init /\ [][Next]_vars
<1>1. ReadInit => Init
  BY RangeInit
<1>2. [ReadNext]_allVars => [Next]_vars
  BY RangeNext
<1> QED
  BY <1>1, <1>2, PTL DEF ReadSpec

\* Beside the other calls, too, no row is returned twice and none is skipped,
\* and without writes the pages are what one read would return.
THEOREM RangeReads == ReadSpec => [](NoRowTwice /\ NoRowSkipped /\ SameAsOneRead)
<1>1. Init => IInv
  BY Initial
<1>2. IInv /\ [Next]_vars => IInv'
  BY Preserved
<1>3. IInv => NoRowTwice /\ NoRowSkipped /\ SameAsOneRead
  BY DEF IInv, LimitInv, NoRowTwice
<1> QED
  BY <1>1, <1>2, <1>3, RangeRefined, PTL

-----------------------------------------------------------------------------
(* wait_for_any *)

\* How often a message of future f is in a queue.
Count(q, f) == Cardinality({i \in DOMAIN q : q[i].ref = f})

\* A count is a number, and none is in an empty queue.
LEMMA CountType ==
  ASSUME NEW S, NEW q \in Seq(S), NEW f
  PROVE  /\ IsFiniteSet({i \in DOMAIN q : q[i].ref = f})
         /\ Count(q, f) \in Nat
         /\ q = <<>> => Count(q, f) = 0
<1> DEFINE C == {i \in DOMAIN q : q[i].ref = f}
<1>1. IsFiniteSet(1..Len(q)) /\ DOMAIN q = 1..Len(q)
  BY FS_Interval
<1>2. C \in SUBSET (1..Len(q)) /\ (q = <<>> => Len(q) = 0)
  BY <1>1
<1> HIDE DEF C
<1>3. IsFiniteSet(C) /\ Cardinality(C) \in Nat
  BY <1>1, <1>2, FS_Subset, FS_CardinalityType
<1>4. ASSUME q = <<>>
      PROVE  Cardinality(C) = 0
  <2>1. 1..Len(q) = {}
    BY <1>2, <1>4
  <2>2. C = {}
    BY <1>2, <2>1
  <2> QED
    BY <2>2, FS_EmptySet
<1> QED
  BY <1>3, <1>4 DEF C, Count

\* A queue of one message.
LEMMA CountOne ==
  ASSUME NEW m, NEW f
  PROVE  Count(<<m>>, f) = IF m.ref = f THEN 1 ELSE 0
<1> DEFINE C == {i \in DOMAIN <<m>> : <<m>>[i].ref = f}
<1>1. CASE m.ref = f
  <2>1. C = {1}
    BY <1>1
  <2> QED
    BY <1>1, <2>1, FS_Singleton DEF Count
<1>2. CASE m.ref # f
  <2>1. C = {}
    BY <1>2
  <2> QED
    BY <1>2, <2>1, FS_EmptySet DEF Count
<1> QED
  BY <1>1, <1>2

\* Messages of two queues, one behind the other.
LEMMA CountConcat ==
  ASSUME NEW S, NEW q \in Seq(S), NEW r \in Seq(S), NEW f
  PROVE  Count(q \o r, f) = Count(q, f) + Count(r, f)
<1> DEFINE n == Len(q)
           A1 == {i \in DOMAIN q : q[i].ref = f}
           B0 == {i \in DOMAIN r : r[i].ref = f}
           B1 == {i + n : i \in B0}
           C == {i \in DOMAIN (q \o r) : (q \o r)[i].ref = f}
           shift == [i \in B0 |-> i + n]
<1>1. /\ n \in Nat /\ Len(r) \in Nat
      /\ DOMAIN q = 1..n /\ DOMAIN r = 1..Len(r) /\ DOMAIN (q \o r) = 1..(n + Len(r))
      /\ \A i \in 1..n : (q \o r)[i] = q[i]
      /\ \A i \in 1..Len(r) : (q \o r)[i + n] = r[i]
  OBVIOUS
<1>2. C = A1 \cup B1
  <2>1. ASSUME NEW i \in C
        PROVE  i \in A1 \cup B1
    <3>1. CASE i <= n
      BY <1>1, <2>1, <3>1
    <3>2. CASE i > n
      <4>1. i - n \in 1..Len(r) /\ (i - n) + n = i
        BY <1>1, <2>1, <3>2
      <4>2. r[i - n] = (q \o r)[i]
        BY <1>1, <4>1
      <4> QED
        BY <1>1, <2>1, <4>1, <4>2
    <3> QED
      BY <1>1, <2>1, <3>1, <3>2
  <2>2. A1 \subseteq C
    BY <1>1
  <2>3. B1 \subseteq C
    <3>1. ASSUME NEW i \in B0
          PROVE  i + n \in C
      <4>1. i \in 1..Len(r) /\ i + n \in 1..(n + Len(r)) /\ (q \o r)[i + n] = r[i]
        BY <1>1
      <4> QED
        BY <1>1, <4>1
    <3> QED
      BY <3>1
  <2> QED
    BY <2>1, <2>2, <2>3
<1>3. A1 \cap B1 = {}
  BY <1>1
<1>4. shift \in Bijection(B0, B1)
  <2>1. B0 \in SUBSET Nat
    BY <1>1
  <2>2. shift \in [B0 -> B1]
    OBVIOUS
  <2>3. \A i, j \in B0 : shift[i] = shift[j] => i = j
    BY <1>1, <2>1
  <2>4. \A k \in B1 : \E i \in B0 : shift[i] = k
    OBVIOUS
  <2> HIDE DEF shift, B1, B0
  <2> QED
    BY <2>2, <2>3, <2>4 DEF Bijection, Injection, Surjection, IsInjective
<1>5. /\ IsFiniteSet(A1) /\ IsFiniteSet(B0)
      /\ Count(q, f) \in Nat /\ Count(r, f) \in Nat
  BY CountType
<1> HIDE DEF A1, B0, B1, C, shift
<1>6. IsFiniteSet(B1) /\ Cardinality(B1) = Cardinality(B0)
  BY <1>4, <1>5, FS_Bijection DEF ExistsBijection
<1>7. Cardinality(C) = Cardinality(A1) + Cardinality(B1) - Cardinality({})
  BY <1>2, <1>3, <1>5, <1>6, FS_Union
<1>8. Cardinality({}) = 0
  BY FS_EmptySet
<1>9. Cardinality(A1) = Count(q, f) /\ Cardinality(B0) = Count(r, f) /\ Cardinality(C) = Count(q \o r, f)
  BY DEF Count, A1, B0, C
<1> QED
  BY <1>5, <1>6, <1>7, <1>8, <1>9

\* The modules count alike.
LEMMA SameCardinality ==
  ASSUME NEW S
  PROVE  A!Cardinality(S) = Cardinality(S) /\ I!Cardinality(S) = Cardinality(S)
BY Zenon DEF A!Cardinality, I!Cardinality, Cardinality

\* The messages of a future, as counts of the two queues.
LEMMA AnyCounts ==
  ASSUME A!TypeOK, NEW f \in Futures
  PROVE  /\ A!Messages(f) = Count(mailbox, f) + Count(ResendQ, f)
         /\ Count(mailbox, f) \in Nat /\ Count(ResendQ, f) \in Nat
<1>1. mailbox \in Seq(A!Keys) /\ ResendQ \in Seq(A!Keys)
  BY DEF A!TypeOK
<1>2. Count(mailbox, f) \in Nat /\ Count(ResendQ, f) \in Nat
  BY <1>1, CountType
<1> QED
  BY <1>2, SameCardinality DEF A!Messages, Count

\* The first message and the rest.
LEMMA AnyHead ==
  ASSUME A!TypeOK, mailbox # <<>>
  PROVE  /\ Head(mailbox) \in A!Keys /\ Tail(mailbox) \in Seq(A!Keys)
         /\ \A f : /\ Count(Tail(mailbox), f) \in Nat
                   /\ Count(mailbox, f) =
                        Count(Tail(mailbox), f) + IF Head(mailbox).ref = f THEN 1 ELSE 0
<1>1. mailbox \in Seq(A!Keys)
  BY DEF A!TypeOK
<1>2. /\ Head(mailbox) \in A!Keys /\ Tail(mailbox) \in Seq(A!Keys)
      /\ <<Head(mailbox)>> \in Seq(A!Keys)
      /\ mailbox = <<Head(mailbox)>> \o Tail(mailbox)
  BY <1>1
<1>3. ASSUME NEW f
      PROVE  /\ Count(Tail(mailbox), f) \in Nat
             /\ Count(mailbox, f) =
                  Count(Tail(mailbox), f) + IF Head(mailbox).ref = f THEN 1 ELSE 0
  <2>1. Count(Tail(mailbox), f) \in Nat
    BY <1>2, CountType
  <2>2. Count(mailbox, f) = Count(<<Head(mailbox)>>, f) + Count(Tail(mailbox), f)
    BY <1>2, CountConcat
  <2>3. Count(<<Head(mailbox)>>, f) = IF Head(mailbox).ref = f THEN 1 ELSE 0
    BY CountOne
  <2> QED
    BY <2>1, <2>2, <2>3
<1> QED
  BY <1>2, <1>3

\* What a step of wait_for_any has to show.
LEMMA AnyKept ==
  ASSUME A!TypeOK',
         \A f \in Futures :
            Count(mailbox', f) + Count(ResendQ', f) = IF ready'[f] = "sent" THEN 1 ELSE 0,
         apc' = "idle" => ResendQ' = <<>>
  PROVE  A!NoMessageLost'
<1>1. \A f : A!Messages(f)' = Count(mailbox', f) + Count(ResendQ', f)
  BY SameCardinality DEF A!Messages, Count
<1> QED
  BY <1>1 DEF A!NoMessageLost

\* A future becomes ready.
LEMMA Step_future_ready ==
  ASSUME A!NoMessageLost, NEW g \in Futures, A!future_ready(g)
  PROVE  A!NoMessageLost'
<1>1. /\ ready[g] = "pending" /\ ready' = [ready EXCEPT ![g] = "sent"]
      /\ mailbox' = mailbox \o <<A!MsgKey(g)>>
      /\ UNCHANGED <<ResendQ, apc, any, winner>>
      /\ A!MsgKey(g) \in A!Keys /\ A!MsgKey(g).ref = g
  <2>1. mailbox \in Seq(A!Keys)
    BY DEF A!NoMessageLost, A!TypeOK
  <2>2. A!MsgKey(g) \in A!Keys /\ A!MsgKey(g).ref = g
    BY DEF A!MsgKey, A!Keys
  <2>3. Append(mailbox, A!MsgKey(g)) = mailbox \o <<A!MsgKey(g)>>
    BY <2>1, <2>2
  <2> QED
    BY <2>2, <2>3 DEF A!future_ready
<1>2. A!TypeOK'
  BY <1>1 DEF A!NoMessageLost, A!TypeOK
<1>3. ASSUME NEW f \in Futures
      PROVE  Count(mailbox', f) + Count(ResendQ', f) = IF ready'[f] = "sent" THEN 1 ELSE 0
  <2>1. /\ Count(mailbox, f) + Count(ResendQ, f) = IF ready[f] = "sent" THEN 1 ELSE 0
        /\ Count(mailbox, f) \in Nat /\ Count(ResendQ, f) \in Nat
    BY AnyCounts DEF A!NoMessageLost
  <2>2. Count(mailbox', f) = Count(mailbox, f) + IF g = f THEN 1 ELSE 0
    <3>1. mailbox \in Seq(A!Keys) /\ <<A!MsgKey(g)>> \in Seq(A!Keys)
      BY <1>1 DEF A!NoMessageLost, A!TypeOK
    <3>2. Count(mailbox', f) = Count(mailbox, f) + Count(<<A!MsgKey(g)>>, f)
      BY <1>1, <3>1, CountConcat
    <3> QED
      BY <1>1, <3>2, CountOne
  <2>3. ready'[f] = IF g = f THEN "sent" ELSE ready[f]
    BY <1>1 DEF A!NoMessageLost, A!TypeOK
  <2> QED
    BY <1>1, <2>1, <2>2, <2>3
<1>4. apc' = "idle" => ResendQ' = <<>>
  BY <1>1 DEF A!NoMessageLost
<1> QED
  BY <1>2, <1>3, <1>4, AnyKept

\* A message of the list is taken, and the others are sent again.
LEMMA Step_receive_winner ==
  ASSUME A!NoMessageLost, A!receive_winner
  PROVE  A!NoMessageLost'
<1>1. PICK g : g \in any /\ A!TermKey(g) = Head(mailbox)
  BY DEF A!receive_winner, A!keyfind
<1>2. g \in Futures /\ Head(mailbox).ref = g /\ mailbox # <<>> /\ A!TypeOK
  BY <1>1 DEF A!receive_winner, A!Receiving, A!NoMessageLost, A!TypeOK, A!TermKey
<1>3. /\ Tail(mailbox) \in Seq(A!Keys) /\ ResendQ \in Seq(A!Keys)
      /\ mailbox' = Tail(mailbox) \o ResendQ /\ ResendQ' = <<>> /\ apc' = "idle"
      /\ ready' = [ready EXCEPT ![g] = "taken"] /\ UNCHANGED any
      /\ winner' \in SUBSET any
  BY <1>2, AnyHead DEF A!receive_winner, A!keyfind, A!TypeOK
<1>4. A!TypeOK'
  BY <1>2, <1>3 DEF A!TypeOK
<1>5. ASSUME NEW f \in Futures
      PROVE  Count(mailbox', f) + Count(ResendQ', f) = IF ready'[f] = "sent" THEN 1 ELSE 0
  <2>1. /\ Count(mailbox, f) + Count(ResendQ, f) = IF ready[f] = "sent" THEN 1 ELSE 0
        /\ Count(mailbox, f) \in Nat /\ Count(ResendQ, f) \in Nat
    BY AnyCounts DEF A!NoMessageLost
  <2>2. /\ Count(Tail(mailbox), f) \in Nat
        /\ Count(mailbox, f) = Count(Tail(mailbox), f) + IF g = f THEN 1 ELSE 0
    BY <1>2, AnyHead
  <2>3. Count(mailbox', f) = Count(Tail(mailbox), f) + Count(ResendQ, f)
    BY <1>3, CountConcat
  <2>4. Count(ResendQ', f) = 0
    <3>1. <<>> \in Seq(A!Keys)
      OBVIOUS
    <3> QED
      BY <1>3, <3>1, CountType
  <2>5. ready'[f] = IF g = f THEN "taken" ELSE ready[f]
    BY <1>2, <1>3 DEF A!TypeOK
  <2> QED
    BY <2>1, <2>2, <2>3, <2>4, <2>5
<1> QED
  BY <1>3, <1>4, <1>5, AnyKept

\* A message of no future of the list is set aside.
LEMMA Step_receive_other ==
  ASSUME A!NoMessageLost, A!receive_other
  PROVE  A!NoMessageLost'
<1>1. /\ mailbox # <<>> /\ A!TypeOK /\ apc # "idle"
      /\ UNCHANGED <<ready, apc, any, winner>>
      /\ ResendQ' = <<Head(mailbox)>> \o ResendQ /\ mailbox' = Tail(mailbox)
  BY DEF A!receive_other, A!Receiving, A!NoMessageLost
<1>2. /\ Tail(mailbox) \in Seq(A!Keys) /\ ResendQ \in Seq(A!Keys)
      /\ <<Head(mailbox)>> \in Seq(A!Keys)
  BY <1>1, AnyHead DEF A!TypeOK
<1>3. A!TypeOK'
  BY <1>1, <1>2 DEF A!TypeOK
<1>4. ASSUME NEW f \in Futures
      PROVE  Count(mailbox', f) + Count(ResendQ', f) = IF ready'[f] = "sent" THEN 1 ELSE 0
  <2>1. /\ Count(mailbox, f) + Count(ResendQ, f) = IF ready[f] = "sent" THEN 1 ELSE 0
        /\ Count(mailbox, f) \in Nat /\ Count(ResendQ, f) \in Nat
    BY AnyCounts DEF A!NoMessageLost
  <2>2. /\ Count(Tail(mailbox), f) \in Nat
        /\ Count(mailbox, f) = Count(Tail(mailbox), f) + IF Head(mailbox).ref = f THEN 1 ELSE 0
    BY <1>1, AnyHead
  <2>3. Count(ResendQ', f) = Count(ResendQ, f) + IF Head(mailbox).ref = f THEN 1 ELSE 0
    <3>1. Count(ResendQ', f) = Count(<<Head(mailbox)>>, f) + Count(ResendQ, f)
      BY <1>1, <1>2, CountConcat
    <3>2. Count(<<Head(mailbox)>>, f) = IF Head(mailbox).ref = f THEN 1 ELSE 0
      BY CountOne
    <3> QED
      BY <2>1, <3>1, <3>2
  <2> QED
    BY <1>1, <2>1, <2>2, <2>3
<1> QED
  BY <1>1, <1>3, <1>4, AnyKept

\* The wait times out, and the messages set aside are sent again.
LEMMA Step_receive_timeout ==
  ASSUME A!NoMessageLost, A!receive_timeout
  PROVE  A!NoMessageLost'
<1>1. /\ mailbox = <<>> /\ A!TypeOK /\ UNCHANGED <<ready, any, winner>>
      /\ mailbox' = ResendQ /\ ResendQ' = <<>> /\ apc' = "idle"
  BY DEF A!receive_timeout, A!NoMessageLost
<1>2. A!TypeOK'
  BY <1>1 DEF A!TypeOK
<1>3. ASSUME NEW f \in Futures
      PROVE  Count(mailbox', f) + Count(ResendQ', f) = IF ready'[f] = "sent" THEN 1 ELSE 0
  <2>1. /\ Count(mailbox, f) + Count(ResendQ, f) = IF ready[f] = "sent" THEN 1 ELSE 0
        /\ Count(mailbox, f) \in Nat /\ Count(ResendQ, f) \in Nat
    BY AnyCounts DEF A!NoMessageLost
  <2>2. Count(<<>>, f) = 0
    <3>1. <<>> \in Seq(A!Keys)
      OBVIOUS
    <3> QED
      BY <3>1, CountType
  <2> QED
    BY <1>1, <2>1, <2>2
<1> QED
  BY <1>1, <1>2, <1>3, AnyKept

\* A call starts, or the other calls go on.
LEMMA Step_any_kept ==
  ASSUME A!NoMessageLost,
         \/ \E S \in SUBSET Candidates : A!wait_for_any(S)
         \/ UNCHANGED anyVars
  PROVE  A!NoMessageLost'
<1>1. /\ UNCHANGED <<ready, mailbox, ResendQ>>
      /\ apc' \in {"idle", "receive", "receive_timeout"} /\ (apc' = "idle" => apc = "idle")
      /\ any' \subseteq Futures /\ winner' \subseteq Futures
  <2>1. CASE UNCHANGED anyVars
    BY <2>1 DEF anyVars, A!NoMessageLost, A!TypeOK
  <2>2. CASE \E S \in SUBSET Candidates : A!wait_for_any(S)
    BY <2>2, ReadCallsAssumption DEF A!wait_for_any, A!NoMessageLost, A!TypeOK
  <2> QED
    BY <2>1, <2>2
<1> QED
  BY <1>1 DEF A!NoMessageLost, A!TypeOK, A!Messages

\* A process's calls of wait_for_any/2 lose no ready message of a future that
\* they do not return, make no second copy, and leave none set aside, for any
\* number of futures, any lists, and any timeouts.
THEOREM AnyLosesNone == ReadSpec => []NoMessageLost
<1>1. ReadInit => A!NoMessageLost
  <2> SUFFICES ASSUME A!Init
               PROVE  A!NoMessageLost
    BY DEF ReadInit
  <2>1. <<>> \in Seq(A!Keys) /\ A!TypeOK
    BY DEF A!Init, A!TypeOK
  <2>2. ASSUME NEW f \in Futures
        PROVE  A!Messages(f) = 0 /\ ready[f] # "sent"
    <3>1. mailbox = <<>> /\ ResendQ = <<>> /\ ready[f] = "pending"
      BY DEF A!Init
    <3>2. A!Messages(f) = Count(<<>>, f) + Count(<<>>, f)
      BY <2>1, <3>1, AnyCounts
    <3>3. Count(<<>>, f) = 0
      BY <2>1, CountType
    <3> QED
      BY <3>1, <3>2, <3>3
  <2> QED
    BY <2>1, <2>2 DEF A!NoMessageLost, A!Init
<1>2. A!NoMessageLost /\ [ReadNext]_allVars => A!NoMessageLost'
  <2> SUFFICES ASSUME A!NoMessageLost, [ReadNext]_allVars
               PROVE  A!NoMessageLost'
    OBVIOUS
  <2>1. A!Next \/ UNCHANGED anyVars
    BY DEF ReadNext, allVars
  <2> QED
    BY <2>1, Step_future_ready, Step_receive_winner, Step_receive_other,
       Step_receive_timeout, Step_any_kept DEF A!Next
<1> QED
  BY <1>1, <1>2, PTL DEF ReadSpec, NoMessageLost

-----------------------------------------------------------------------------
(* The interleaved wait: its pages are those of the range read *)

\* Interleaving reads the keys as RangeFold does.
LEMMA SameRows ==
  /\ \A rev, P, S : I!FirstOf(rev, P, S) <=> FirstOf(rev, P, S)
  /\ \A n, rev, S : I!First(n, rev, S) = First(n, rev, S)
  /\ \A b, e, D : I!RowsOf(b, e, D) = RowsOf(b, e, D)
  /\ \A k : I!first_greater_or_equal(k) = first_greater_or_equal(k)
  /\ I!Keys = Keys /\ I!Selectors = Selectors /\ I!Sts = Sts /\ I!Entries = Entries
<1> USE SameCardinality DEF I!Before, Before
<1>1. \A rev, P, S : I!FirstOf(rev, P, S) <=> FirstOf(rev, P, S)
  BY DEF I!FirstOf, FirstOf
<1>2. \A n, rev, S : I!First(n, rev, S) = First(n, rev, S)
  BY DEF I!First, First
<1>3. \A sel, D : I!From(sel, D) = From(sel, D)
  BY DEF I!From, From, I!Below, Below, I!offset, offset, I!or_equal, or_equal
<1>4. \A b, e, D : I!RowsOf(b, e, D) = RowsOf(b, e, D)
  BY <1>3 DEF I!RowsOf, RowsOf
<1>5. \A k : I!first_greater_or_equal(k) = first_greater_or_equal(k)
  BY DEF I!first_greater_or_equal, first_greater_or_equal
<1>6. I!Keys = Keys /\ I!Selectors = Selectors /\ I!Sts = Sts /\ I!Entries = Entries
  BY DEF I!Keys, Keys, I!Selectors, Selectors, I!Sts, Sts, I!Entries, Entries
<1> QED
  BY <1>1, <1>2, <1>4, <1>5, <1>6

\* It goes from page to page in the same way.
LEMMA SamePages ==
  /\ \A s, rev, D : I!Pages(s, rev, D) = Pages(s, rev, D)
  /\ \A s, page : I!Recurse(s, page) <=> Recurse(s, page)
  /\ \A s, rev, page : I!Rows(s, rev, page) = Rows(s, rev, page)
  /\ \A s, rev, page : I!NextSt(s, rev, page) = NextSt(s, rev, page)
<1>1. \A s, rev, D : I!Pages(s, rev, D) = Pages(s, rev, D)
  BY SameRows DEF I!Pages, Pages
<1>2. \A s, page : I!Recurse(s, page) <=> Recurse(s, page)
  BY SameCardinality DEF I!Recurse, Recurse
<1>3. \A s, rev, page : I!Rows(s, rev, page) = Rows(s, rev, page)
  BY SameRows, SameCardinality DEF I!Rows, Rows
<1>4. \A rev, S : I!get_last_key(rev, S) = get_last_key(rev, S)
  BY DEF I!get_last_key, get_last_key, I!Before, Before
<1>5. \A s, rev, page : I!NextSt(s, rev, page) = NextSt(s, rev, page)
  BY <1>4, SameCardinality DEF I!NextSt, NextSt, I!St, St,
     I!first_greater_or_equal, first_greater_or_equal, I!first_greater_than, first_greater_than
<1> QED
  BY <1>1, <1>2, <1>3, <1>5

\* An entry of the list, how far the call is with it, and its result so far.
PartialOf(D, e, s, a) ==
  LET all == RowsOf(e.st.start_key, e.st.end_key, D)
  IN /\ a = [keys |-> a.keys, rows |-> Cardinality(a.keys), value |-> 0]
     /\ e.plain => a.keys = {}
     /\ ~e.plain =>
           /\ FirstOf(e.reverse, a.keys, all)
           /\ RowsOf(s.st.start_key, s.st.end_key, D) = all \ a.keys
           /\ s.st.limit = 0 <=> e.st.limit = 0
           /\ e.st.limit # 0 => Cardinality(a.keys) + s.st.limit = e.st.limit

CompleteOf(D, e, a) ==
  LET all == RowsOf(e.st.start_key, e.st.end_key, D)
  IN IF e.plain THEN a = [keys |-> {}, rows |-> 0, value |-> e.from]
     ELSE /\ a.keys = IF e.st.limit = 0 THEN all ELSE First(e.st.limit, e.reverse, all)
          /\ a.rows = Cardinality(a.keys)

\* Rows put behind the first ones are first ones again.
LEMMA FirstAdded ==
  ASSUME NEW rev, NEW all \in SUBSET Keys, NEW keys, NEW rows,
         FirstOf(rev, keys, all), FirstOf(rev, rows, all \ keys)
  PROVE  /\ FirstOf(rev, keys \cup rows, all)
         /\ all \ (keys \cup rows) = (all \ keys) \ rows
         /\ Cardinality(keys) \in Nat /\ Cardinality(rows) \in Nat
         /\ Cardinality(keys \cup rows) = Cardinality(keys) + Cardinality(rows)
<1>1. FirstOf(rev, keys \cup rows, all) /\ all \ (keys \cup rows) = (all \ keys) \ rows
  BY DEF FirstOf
<1>2. keys \in SUBSET Keys /\ rows \in SUBSET Keys /\ keys \cap rows = {}
  BY DEF FirstOf
<1> QED
  BY <1>1, <1>2, KeysFinite, DisjointSum

\* What a page adds to the result of its entry.
Adds(D, e, s, a, page) ==
  LET all  == RowsOf(e.st.start_key, e.st.end_key, D)
      left == RowsOf(s.st.start_key, s.st.end_key, D)
      rows == page.rows
  IN /\ Rows(s.st, s.reverse, page) = rows
     /\ all \in SUBSET Keys /\ s.st \in Sts /\ e.st \in Sts /\ s.reverse \in BOOLEAN
     /\ FirstOf(e.reverse, a.keys \cup rows, all)
     /\ FirstOf(s.reverse, rows, left)
     /\ left \ rows = all \ (a.keys \cup rows)
     /\ Cardinality(a.keys) \in Nat /\ Cardinality(rows) \in Nat
     /\ Cardinality(a.keys \cup rows) = Cardinality(a.keys) + Cardinality(rows)
     /\ s.st.limit # 0 => Cardinality(rows) <= s.st.limit
     /\ rows = {} \/ ~page.more => rows = left

\* A page adds the next rows of its range, and none twice.
LEMMA PageAdds ==
  ASSUME NEW D \in SUBSET Keys, NEW e \in Entries, NEW s \in Entries, NEW a,
         s.reverse = e.reverse, ~e.plain, PartialOf(D, e, s, a),
         NEW page \in Pages(s.st, s.reverse, D)
  PROVE  Adds(D, e, s, a, page)
<1> DEFINE all  == RowsOf(e.st.start_key, e.st.end_key, D)
           left == RowsOf(s.st.start_key, s.st.end_key, D)
           rows == page.rows
<1>1. s.st \in Sts /\ e.st \in Sts /\ s.reverse \in BOOLEAN
  BY DEF Entries
<1>2. all \in SUBSET D /\ left \in SUBSET D
  BY <1>1, RowsType
<1>3. /\ FirstOf(s.reverse, rows, left)
      /\ s.st.limit # 0 => Cardinality(rows) <= s.st.limit
      /\ rows = {} => left = {}
      /\ ~page.more => rows = left
  BY <1>1, PageFacts
<1>4. rows \in SUBSET Keys
  BY <1>2, <1>3 DEF FirstOf
<1>5. Rows(s.st, s.reverse, page) = rows
  BY <1>1, <1>3, <1>4, RowsWhole
<1>6. FirstOf(e.reverse, a.keys, all) /\ left = all \ a.keys
  BY DEF PartialOf
<1> HIDE DEF all, left, rows
<1>7. /\ FirstOf(e.reverse, a.keys \cup rows, all)
      /\ all \ (a.keys \cup rows) = (all \ a.keys) \ rows
      /\ Cardinality(a.keys) \in Nat /\ Cardinality(rows) \in Nat
      /\ Cardinality(a.keys \cup rows) = Cardinality(a.keys) + Cardinality(rows)
  <2>1. all \in SUBSET Keys /\ FirstOf(e.reverse, rows, all \ a.keys)
    BY <1>2, <1>3, <1>6
  <2> QED
    <3> HIDE DEF all
    <3>1. PICK keys, rev : keys = a.keys /\ rev = e.reverse
      OBVIOUS
    <3>2. FirstOf(rev, keys, all) /\ FirstOf(rev, rows, all \ keys)
      BY <1>6, <2>1, <3>1
    <3> QED
      BY <2>1, <3>1, <3>2, FirstAdded
<1>8. rows = {} \/ ~page.more => rows = left
  BY <1>3
<1>9. left \ rows = all \ (a.keys \cup rows)
  BY <1>6, <1>7
<1> QED
  BY <1>1, <1>2, <1>3, <1>5, <1>7, <1>8, <1>9 DEF all, left, rows, Adds

\* A page with more to come: the entry goes on behind it.
LEMMA PageMore ==
  ASSUME NEW D \in SUBSET Keys, NEW e \in Entries, NEW s \in Entries, NEW a,
         s.reverse = e.reverse, ~e.plain, PartialOf(D, e, s, a),
         NEW page \in Pages(s.st, s.reverse, D), Recurse(s.st, page),
         NEW n \in Entries, n.st = NextSt(s.st, s.reverse, page), n.reverse = e.reverse
  PROVE  PartialOf(D, e, n, [keys  |-> a.keys \cup Rows(s.st, s.reverse, page),
                             rows  |-> a.rows + Cardinality(Rows(s.st, s.reverse, page)),
                             value |-> 0])
<1> DEFINE rows == page.rows
           all  == RowsOf(e.st.start_key, e.st.end_key, D)
           b    == [keys |-> a.keys \cup rows, rows |-> a.rows + Cardinality(rows), value |-> 0]
<1>1. /\ Rows(s.st, s.reverse, page) = rows
      /\ all \in SUBSET Keys /\ s.st \in Sts /\ e.st \in Sts /\ s.reverse \in BOOLEAN
      /\ FirstOf(e.reverse, a.keys \cup rows, all)
      /\ FirstOf(s.reverse, rows, RowsOf(s.st.start_key, s.st.end_key, D))
      /\ RowsOf(s.st.start_key, s.st.end_key, D) \ rows = all \ (a.keys \cup rows)
      /\ Cardinality(a.keys) \in Nat /\ Cardinality(rows) \in Nat
      /\ Cardinality(a.keys \cup rows) = Cardinality(a.keys) + Cardinality(rows)
  <2>1. Adds(D, e, s, a, page)
    BY PageAdds
  <2> QED
    BY <2>1 DEF Adds
<1>2. rows # {} /\ (s.st.limit = 0 \/ s.st.limit > Cardinality(rows))
  BY DEF Recurse
<1>3. RowsOf(n.st.start_key, n.st.end_key, D) = all \ (a.keys \cup rows)
  <2>1. PICK t, rev : t = s.st /\ rev = s.reverse
    OBVIOUS
  <2>2. /\ t \in Sts /\ rev \in BOOLEAN /\ page.rows # {}
        /\ FirstOf(rev, page.rows, RowsOf(t.start_key, t.end_key, D))
    BY <1>1, <1>2, <2>1
  <2>3. RowsOf(NextSt(t, rev, page).start_key, NextSt(t, rev, page).end_key, D)
          = RowsOf(t.start_key, t.end_key, D) \ page.rows
    BY <2>2, AdvanceRows
  <2> QED
    BY <1>1, <2>1, <2>3
<1>4. n.st.limit = IF s.st.limit = 0 THEN 0 ELSE s.st.limit - Cardinality(rows)
  BY DEF NextSt, St
<1>5. /\ a.rows = Cardinality(a.keys)
      /\ s.st.limit = 0 <=> e.st.limit = 0
      /\ e.st.limit # 0 => Cardinality(a.keys) + s.st.limit = e.st.limit
  BY DEF PartialOf
<1>6. s.st.limit \in Nat /\ e.st.limit \in Nat
  BY <1>1 DEF Sts
<1> HIDE DEF rows, all
<1>7. /\ n.st.limit = 0 <=> e.st.limit = 0
      /\ e.st.limit # 0 => Cardinality(b.keys) + n.st.limit = e.st.limit
  BY <1>1, <1>2, <1>4, <1>5, <1>6
<1>8. b = [keys |-> b.keys, rows |-> Cardinality(b.keys), value |-> 0]
  BY <1>1, <1>5
<1>9. FirstOf(e.reverse, b.keys, all) /\ RowsOf(n.st.start_key, n.st.end_key, D) = all \ b.keys
  BY <1>1, <1>3
<1>10. PartialOf(D, e, n, b)
  <2> HIDE DEF b
  <2> QED
    BY <1>7, <1>8, <1>9 DEF PartialOf, all
<1> QED
  BY <1>1, <1>10

\* The last page: the result of the entry is complete.
LEMMA PageLast ==
  ASSUME NEW D \in SUBSET Keys, NEW e \in Entries, NEW s \in Entries, NEW a,
         s.reverse = e.reverse, ~e.plain, PartialOf(D, e, s, a),
         NEW page \in Pages(s.st, s.reverse, D), ~Recurse(s.st, page), NEW v
  PROVE  CompleteOf(D, e, [keys  |-> a.keys \cup Rows(s.st, s.reverse, page),
                           rows  |-> a.rows + Cardinality(Rows(s.st, s.reverse, page)),
                           value |-> v])
<1> DEFINE rows == page.rows
           all  == RowsOf(e.st.start_key, e.st.end_key, D)
           left == RowsOf(s.st.start_key, s.st.end_key, D)
           b    == [keys |-> a.keys \cup rows, rows |-> a.rows + Cardinality(rows), value |-> v]
<1>1. /\ Rows(s.st, s.reverse, page) = rows
      /\ all \in SUBSET Keys /\ s.st \in Sts /\ e.st \in Sts /\ s.reverse \in BOOLEAN
      /\ FirstOf(e.reverse, a.keys \cup rows, all)
      /\ left \ rows = all \ (a.keys \cup rows)
      /\ Cardinality(a.keys) \in Nat /\ Cardinality(rows) \in Nat
      /\ Cardinality(a.keys \cup rows) = Cardinality(a.keys) + Cardinality(rows)
      /\ s.st.limit # 0 => Cardinality(rows) <= s.st.limit
      /\ rows = {} \/ ~page.more => rows = left
  <2>1. Adds(D, e, s, a, page)
    BY PageAdds
  <2> QED
    BY <2>1 DEF Adds
<1>2. /\ a.rows = Cardinality(a.keys)
      /\ s.st.limit = 0 <=> e.st.limit = 0
      /\ e.st.limit # 0 => Cardinality(a.keys) + s.st.limit = e.st.limit
  BY DEF PartialOf
<1>3. s.st.limit \in Nat /\ e.st.limit \in Nat
  BY <1>1 DEF Sts
<1>4. rows = {} \/ ~page.more \/ (s.st.limit # 0 /\ ~(s.st.limit > Cardinality(rows)))
  BY DEF Recurse
<1> HIDE DEF rows, all, left
<1>5. a.keys \cup rows = all \/ (e.st.limit # 0 /\ Cardinality(a.keys \cup rows) = e.st.limit)
  <2>1. CASE rows = left
    BY <1>1, <2>1 DEF FirstOf
  <2>2. CASE s.st.limit # 0 /\ ~(s.st.limit > Cardinality(rows))
    BY <1>1, <1>2, <1>3, <2>2
  <2> QED
    BY <1>1, <1>4, <2>1, <2>2
<1>6. e.st.limit # 0 => Cardinality(a.keys \cup rows) <= e.st.limit
  BY <1>1, <1>2, <1>3
<1>7. e.st.limit # 0 => a.keys \cup rows = First(e.st.limit, e.reverse, all)
  <2>1. a.keys \cup rows \in SUBSET all
    BY <1>1 DEF FirstOf
  <2> QED
    <3>1. e.reverse \in BOOLEAN
      BY DEF Entries
    <3>2. PICK P, rev, m : P = a.keys \cup rows /\ rev = e.reverse /\ m = e.st.limit
      OBVIOUS
    <3>3. /\ rev \in BOOLEAN /\ all \in SUBSET Keys /\ m \in Nat /\ P \in SUBSET all
          /\ FirstOf(rev, P, all)
          /\ m # 0 => Cardinality(P) <= m
          /\ P = all \/ (m # 0 /\ Cardinality(P) = m)
      BY <1>1, <1>3, <1>5, <1>6, <2>1, <3>1, <3>2
    <3>4. m # 0 => P = First(m, rev, all)
      BY <3>3, FirstExact
    <3> QED
      BY <3>2, <3>4
<1>8. CompleteOf(D, e, b)
  BY <1>1, <1>2, <1>5, <1>7 DEF CompleteOf, all
<1> QED
  BY <1>1, <1>8

-----------------------------------------------------------------------------
(* The interleaved wait: lists of entries *)

\* The position of an entry that is known by its future.
LEMMA KeyFound ==
  ASSUME NEW T, NEW q \in Seq(T), NEW p \in DOMAIN q, NEW from, q[p].e.from = from,
         \A i \in DOMAIN q : q[i].e.from = from => i = p
  PROVE  I!KeyPos(from, q) = p
<1> DEFINE Pos(i) == q[i].e.from = from /\ \A j \in 1..(i - 1) : q[j].e.from # from
<1>1. DOMAIN q = 1..Len(q) /\ Len(q) \in Nat
  OBVIOUS
<1>2. Pos(p)
  BY <1>1
<1>3. \A i \in DOMAIN q : Pos(i) => i = p
  OBVIOUS
<1>4. I!KeyPos(from, q) = CHOOSE i \in DOMAIN q : Pos(i)
  BY DEF I!KeyPos
<1> HIDE DEF Pos
<1> QED
  BY <1>2, <1>3, <1>4

\* An element of the second part.
LEMMA ConcatAt ==
  ASSUME NEW T, NEW u \in Seq(T), NEW v \in Seq(T), NEW i \in 1..(Len(u) + Len(v)),
         ~(i <= Len(u))
  PROVE  (u \o v)[i] = v[i - Len(u)]
OBVIOUS

\* An entry is taken out: the others stay, and none is doubled.
Apart(q) == \A i, j \in DOMAIN q : q[i].idx = q[j].idx => i = j

Without(d, q, p) ==
  /\ \A i \in DOMAIN d : \E j \in DOMAIN q : j # p /\ d[i] = q[j]
  /\ \A j \in DOMAIN q : j # p => \E i \in DOMAIN d : d[i] = q[j]

\* Taking one entry out leaves the others as they are.
LEMMA Deleted ==
  ASSUME NEW T, NEW q \in Seq(T), NEW p \in DOMAIN q, Apart(q),
         NEW d, d = SubSeq(q, 1, p - 1) \o SubSeq(q, p + 1, Len(q))
  PROVE  d \in Seq(T) /\ Without(d, q, p) /\ Apart(d)
<1> DEFINE u == SubSeq(q, 1, p - 1)
           v == SubSeq(q, p + 1, Len(q))
           n == Len(q)
<1>1. n \in Nat /\ DOMAIN q = 1..n /\ p \in 1..n /\ \A i \in 1..n : q[i] \in T
  OBVIOUS
<1>2. /\ u \in Seq(T) /\ Len(u) = p - 1
      /\ \A i \in 1..(p - 1) : u[i] = q[i]
  BY <1>1
<1>3. /\ v \in Seq(T) /\ Len(v) = n - p
      /\ \A i \in 1..(n - p) : v[i] = q[p + i]
  <2>1. p + 1 \in Int /\ n \in Int /\ \A i \in (p + 1)..n : q[i] \in T
    BY <1>1
  <2>2. /\ v \in Seq(T) /\ Len(v) = IF p + 1 <= n THEN n - (p + 1) + 1 ELSE 0
        /\ \A i \in 1..(n - (p + 1) + 1) : v[i] = q[(p + 1) + i - 1]
    BY <2>1, SubSeqProperties
  <2>3. n - (p + 1) + 1 = n - p
    BY <1>1
  <2>4. Len(v) = n - p
    <3> HIDE DEF v
    <3> QED
      BY <1>1, <2>2
  <2>5. ASSUME NEW i \in 1..(n - p)
        PROVE  v[i] = q[p + i]
    <3>1. (p + 1) + i - 1 = p + i /\ i \in 1..(n - (p + 1) + 1)
      BY <1>1, <2>3
    <3>2. v[i] = q[(p + 1) + i - 1]
      BY <2>2, <3>1
    <3> QED
      BY <3>1, <3>2
  <2> QED
    BY <2>2, <2>4, <2>5
<1> HIDE DEF u, v
<1>4. /\ d \in Seq(T) /\ DOMAIN d = 1..(n - 1)
      /\ \A i \in 1..(n - 1) : d[i] = IF i < p THEN q[i] ELSE q[i + 1]
  <2>1. d = u \o v
    BY DEF u, v
  <2>2. d \in Seq(T) /\ Len(d) = n - 1 /\ DOMAIN d = 1..(n - 1)
    BY <1>1, <1>2, <1>3, <2>1
  <2>3. ASSUME NEW i \in 1..(n - 1)
        PROVE  d[i] = IF i < p THEN q[i] ELSE q[i + 1]
    <3>1. CASE i < p
      BY <1>1, <1>2, <1>3, <2>1, <3>1
    <3>2. CASE ~(i < p)
      <4>1. i - (p - 1) \in 1..(n - p) /\ ~(i <= Len(u)) /\ i \in 1..(Len(u) + Len(v))
        BY <1>1, <1>2, <1>3, <3>2
      <4>3. (u \o v)[i] = v[i - Len(u)]
        BY <1>2, <1>3, <4>1, ConcatAt
      <4>2. p + (i - (p - 1)) = i + 1
        BY <1>1
      <4> QED
        BY <1>2, <1>3, <2>1, <3>2, <4>1, <4>3, <4>2
    <3> QED
      BY <3>1, <3>2
  <2> QED
    BY <2>2, <2>3
<1> DEFINE at(i) == IF i < p THEN i ELSE i + 1
<1>5. \A i \in 1..(n - 1) : at(i) \in 1..n /\ at(i) # p /\ d[i] = q[at(i)]
  <2> SUFFICES ASSUME NEW i \in 1..(n - 1)
               PROVE  at(i) \in 1..n /\ at(i) # p /\ d[i] = q[at(i)]
    OBVIOUS
  <2>1. d[i] = IF i < p THEN q[i] ELSE q[i + 1]
    BY <1>4
  <2>2. CASE i < p
    BY <1>1, <2>1, <2>2
  <2>3. CASE ~(i < p)
    <3>1. at(i) = i + 1 /\ d[i] = q[i + 1]
      BY <2>1, <2>3
    <3>2. i + 1 \in 1..n /\ i + 1 # p
      BY <1>1, <2>3
    <3> QED
      BY <3>1, <3>2
  <2> QED
    BY <2>2, <2>3
<1>6. \A i, j \in 1..(n - 1) : at(i) = at(j) => i = j
  BY <1>1
<1>7. \A j \in 1..n : j # p => \E i \in 1..(n - 1) : at(i) = j
  <2> SUFFICES ASSUME NEW j \in 1..n, j # p
               PROVE  \E i \in 1..(n - 1) : at(i) = j
    OBVIOUS
  <2>1. CASE j < p
    BY <1>1, <2>1
  <2>2. CASE j > p
    <3>1. j - 1 \in 1..(n - 1) /\ at(j - 1) = j
      BY <1>1, <2>2
    <3> QED
      BY <3>1
  <2> QED
    BY <1>1, <2>1, <2>2
<1> HIDE DEF at, n
<1>8. \A i \in DOMAIN d : \E j \in DOMAIN q : j # p /\ d[i] = q[j]
  BY <1>1, <1>4, <1>5
<1>9. \A j \in DOMAIN q : j # p => \E i \in DOMAIN d : d[i] = q[j]
  <2> SUFFICES ASSUME NEW j \in DOMAIN q, j # p
               PROVE  \E i \in DOMAIN d : d[i] = q[j]
    OBVIOUS
  <2>1. PICK i \in 1..(n - 1) : at(i) = j
    BY <1>1, <1>7
  <2>2. i \in DOMAIN d /\ d[i] = q[at(i)]
    BY <1>4, <1>5
  <2> QED
    BY <2>1, <2>2
<1>10. ASSUME NEW i \in DOMAIN d, NEW j \in DOMAIN d, d[i].idx = d[j].idx
       PROVE  i = j
  <2>1. i \in 1..(n - 1) /\ j \in 1..(n - 1)
    BY <1>4
  <2>2. at(i) \in DOMAIN q /\ at(j) \in DOMAIN q /\ d[i] = q[at(i)] /\ d[j] = q[at(j)]
    BY <1>1, <1>5, <2>1
  <2>3. at(i) = at(j)
    BY <1>10, <2>2 DEF Apart
  <2> QED
    BY <1>6, <2>1, <2>3
<1> QED
  BY <1>4, <1>8, <1>9, <1>10 DEF Without, Apart

\* Where the results of the list l stand, as the page lemmas state it.
ResultOf(D, l, q, w, a, c) ==
  /\ c = "idle" =>
        /\ q = <<>> /\ w = <<>>
        /\ \A i \in DOMAIN l : a[i] = [keys |-> {}, rows |-> 0, value |-> 0]
  /\ c # "idle" =>
        /\ \A p \in DOMAIN q : PartialOf(D, l[q[p].idx], q[p].e, a[q[p].idx])
        /\ \A i \in DOMAIN l :
              (\A p \in DOMAIN q : q[p].idx # i) => CompleteOf(D, l[i], a[i])
  /\ c = "returned" => q = <<>>

\* The results depend on the variables of Interleaving only.
LEMMA SameResults ==
  /\ I!ResultInv <=> ResultOf(db, list, sts, ffs, acc, ipc)
  /\ I!ResultInv' <=> ResultOf(db', list', sts', ffs', acc', ipc')
<1>1. I!ResultInv <=> ResultOf(db, list, sts, ffs, acc, ipc)
  <2>1. \A p : I!Partial(sts[p]) <=> PartialOf(db, list[sts[p].idx], sts[p].e, acc[sts[p].idx])
    BY SameRows, SameCardinality DEF I!Partial, PartialOf
  <2>2. \A i : I!Complete(i) <=> CompleteOf(db, list[i], acc[i])
    BY SameRows, SameCardinality DEF I!Complete, CompleteOf, I!Wanted
  <2> QED
    BY <2>1, <2>2 DEF I!ResultInv, ResultOf
<1>2. I!ResultInv' <=> ResultOf(db', list', sts', ffs', acc', ipc')
  <2>1. \A p : I!Partial(sts[p])'
                 <=> PartialOf(db', list'[sts'[p].idx], sts'[p].e, acc'[sts'[p].idx])
    BY SameRows, SameCardinality DEF I!Partial, PartialOf
  <2>2. \A i : I!Complete(i)' <=> CompleteOf(db', list'[i], acc'[i])
    BY SameRows, SameCardinality DEF I!Complete, CompleteOf, I!Wanted
  <2> QED
    BY <2>1, <2>2 DEF I!ResultInv, ResultOf
<1> QED
  BY <1>1, <1>2

\* The pages that come in for entries.
LEMMA PagesCome ==
  ASSUME NEW q, NEW pages \in I!WithPages(q), NEW i \in DOMAIN q
  PROVE  IF q[i].plain THEN pages[i] = [rows |-> {}, more |-> FALSE]
         ELSE pages[i] \in Pages(q[i].st, q[i].reverse, db)
BY SamePages DEF I!WithPages

\* The rows are added at one index.
LEMMA Accumulated ==
  ASSUME NEW idx \in DOMAIN acc, NEW rows, NEW v, I!Accumulate(idx, rows, v)
  PROVE  /\ DOMAIN acc' = DOMAIN acc
         /\ \A j \in DOMAIN acc : j # idx => acc'[j] = acc[j]
         /\ acc'[idx] = [keys  |-> acc[idx].keys \cup rows,
                         rows  |-> acc[idx].rows + Cardinality(rows),
                         value |-> IF v # 0 THEN v ELSE acc[idx].value]
BY SameCardinality DEF I!Accumulate

\* The state behind a page with more to come.
LEMMA NextStType ==
  ASSUME NEW s \in Sts, NEW rev \in BOOLEAN, NEW page, page.rows \in SUBSET Keys,
         Recurse(s, page)
  PROVE  NextSt(s, rev, page) \in Sts
<1>1. /\ page.rows # {} /\ Cardinality(page.rows) \in Nat
      /\ s.limit = 0 \/ s.limit > Cardinality(page.rows)
  BY KeysFinite DEF Recurse
<1>2. PICK last : last = get_last_key(rev, page.rows)
  OBVIOUS
<1>3. last \in Keys
  BY <1>1, <1>2, LastRow
<1>4. first_greater_than(last) \in Selectors /\ first_greater_or_equal(last) \in Selectors
  BY <1>3, NextBounds
<1>5. s.start_key \in Selectors /\ s.end_key \in Selectors /\ s.limit \in Nat
  BY DEF Sts
<1>6. (IF s.limit = 0 THEN 0 ELSE s.limit - Cardinality(page.rows)) \in Nat
  BY <1>1, <1>5
<1> QED
  BY <1>2, <1>4, <1>5, <1>6 DEF NextSt, St, Sts

Tagged   == [e : Entries, idx : Nat]
Awaited  == [s : Tagged, page : [rows : SUBSET Keys, more : BOOLEAN]]

\* The entries of a list q are the list's, and no two are the same one.
EntriesOf(q) ==
  /\ q \in Seq(Tagged)
  /\ \A p \in DOMAIN q :
        /\ q[p].idx \in DOMAIN list
        /\ q[p].e.from = list[q[p].idx].from /\ q[p].e.plain = list[q[p].idx].plain
        /\ q[p].e.reverse = list[q[p].idx].reverse
  /\ \A i, j \in DOMAIN q : q[i].idx = q[j].idx => i = j

\* The pages of w belong to entries of q.
AwaitedOf(w, q, D) ==
  /\ w \in Seq(Awaited)
  /\ \A p \in DOMAIN w :
        /\ \E r \in DOMAIN q : w[p].s = q[r]
        /\ ~w[p].s.e.plain => w[p].page \in Pages(w[p].s.e.st, w[p].s.e.reverse, D)
  /\ \A p, r \in DOMAIN w : w[p].s.idx = w[r].s.idx => p = r

\* The parts of the invariant in these terms, in a state and in the next.
LEMMA SameInv ==
  /\ I!EntryInv <=> EntriesOf(sts)
  /\ UNCHANGED list => (I!EntryInv' <=> EntriesOf(sts'))
  /\ I!PageInv <=> AwaitedOf(ffs, sts, db)
  /\ I!PageInv' <=> AwaitedOf(ffs', sts', db')
<1> USE SameRows, SamePages DEF I!Tagged, Tagged, Awaited
<1>1. I!EntryInv <=> EntriesOf(sts)
  BY DEF I!EntryInv, EntriesOf
<1>2. UNCHANGED list => (I!EntryInv' <=> EntriesOf(sts'))
  BY DEF I!EntryInv, EntriesOf
<1>3. I!PageInv <=> AwaitedOf(ffs, sts, db)
  BY DEF I!PageInv, AwaitedOf
<1>4. I!PageInv' <=> AwaitedOf(ffs', sts', db')
  BY DEF I!PageInv, AwaitedOf
<1> QED
  BY <1>1, <1>2, <1>3, <1>4

-----------------------------------------------------------------------------
(* The interleaved wait: steps *)

\* The entry that the first page belongs to: the call finds it by its future,
\* and the other pages belong to other entries.
HeadOf(q) ==
  /\ Head(ffs).s = sts[q] /\ sts[q] \in Tagged /\ sts[q].idx \in DOMAIN list
  /\ list[sts[q].idx] \in Entries
  /\ sts[q].e.plain = list[sts[q].idx].plain /\ sts[q].e.reverse = list[sts[q].idx].reverse
  /\ \A r \in DOMAIN sts : sts[r].e.from = sts[q].e.from => r = q
  /\ Head(ffs).page.rows \in SUBSET Keys
  /\ ~sts[q].e.plain => Head(ffs).page \in Pages(sts[q].e.st, sts[q].e.reverse, db)
  /\ PartialOf(db, list[sts[q].idx], sts[q].e, acc[sts[q].idx])
  /\ Tail(ffs) \in Seq(Awaited)
  /\ \A p \in DOMAIN Tail(ffs) :
        /\ \E r \in DOMAIN sts : r # q /\ Tail(ffs)[p].s = sts[r]
        /\ ~Tail(ffs)[p].s.e.plain =>
              Tail(ffs)[p].page \in Pages(Tail(ffs)[p].s.e.st, Tail(ffs)[p].s.e.reverse, db)
  /\ \A p, r \in DOMAIN Tail(ffs) : Tail(ffs)[p].s.idx = Tail(ffs)[r].s.idx => p = r

\* The future that is waited for belongs to an entry.
LEMMA HeadEntry ==
  ASSUME I!IInv, I!Distinct, ipc = "wait", ffs # <<>>
  PROVE  \E q \in DOMAIN sts : HeadOf(q)
<1>1. EntriesOf(sts) /\ AwaitedOf(ffs, sts, db) /\ ResultOf(db, list, sts, ffs, acc, ipc)
  BY SameInv, SameResults DEF I!IInv
<1>2. /\ ffs \in Seq(Awaited) /\ Head(ffs) = ffs[1] /\ 1 \in DOMAIN ffs
      /\ Tail(ffs) \in Seq(Awaited)
      /\ \A p \in DOMAIN Tail(ffs) : p + 1 \in DOMAIN ffs /\ Tail(ffs)[p] = ffs[p + 1] /\ p + 1 # 1
      /\ \A p, r \in DOMAIN Tail(ffs) : p + 1 = r + 1 => p = r
  <2>1. ffs \in Seq(Awaited)
    BY <1>1 DEF AwaitedOf
  <2> QED
    BY <2>1
<1>3. PICK q \in DOMAIN sts : ffs[1].s = sts[q]
  BY <1>1, <1>2 DEF AwaitedOf
<1>4. /\ sts[q] \in Tagged /\ sts[q].idx \in DOMAIN list
      /\ sts[q].e.plain = list[sts[q].idx].plain /\ sts[q].e.reverse = list[sts[q].idx].reverse
  BY <1>1, <1>3 DEF EntriesOf
<1>5. list[sts[q].idx] \in Entries
  <2>1. list \in Seq(Entries)
    BY SameRows DEF I!IInv, I!ListInv
  <2> QED
    BY <1>4, <2>1
<1>6. ASSUME NEW r \in DOMAIN sts, sts[r].e.from = sts[q].e.from
      PROVE  r = q
  <2>1. sts[r].idx = sts[q].idx
    BY <1>1, <1>6 DEF EntriesOf, I!Distinct
  <2> QED
    BY <1>1, <2>1 DEF EntriesOf
<1>7. /\ ffs[1].page.rows \in SUBSET Keys
      /\ ~sts[q].e.plain => ffs[1].page \in Pages(sts[q].e.st, sts[q].e.reverse, db)
  <2>1. ffs[1] \in Awaited
    BY <1>2
  <2>2. ~ffs[1].s.e.plain => ffs[1].page \in Pages(ffs[1].s.e.st, ffs[1].s.e.reverse, db)
    BY <1>1, <1>2 DEF AwaitedOf
  <2> QED
    BY <1>3, <2>1, <2>2 DEF Awaited
<1>8. PartialOf(db, list[sts[q].idx], sts[q].e, acc[sts[q].idx])
  BY <1>1 DEF ResultOf
<1>9. ASSUME NEW p \in DOMAIN Tail(ffs)
      PROVE  /\ \E r \in DOMAIN sts : r # q /\ Tail(ffs)[p].s = sts[r]
             /\ ~Tail(ffs)[p].s.e.plain =>
                   Tail(ffs)[p].page \in Pages(Tail(ffs)[p].s.e.st, Tail(ffs)[p].s.e.reverse, db)
  <2>1. /\ \E r \in DOMAIN sts : ffs[p + 1].s = sts[r]
        /\ ~ffs[p + 1].s.e.plain =>
              ffs[p + 1].page \in Pages(ffs[p + 1].s.e.st, ffs[p + 1].s.e.reverse, db)
    BY <1>1, <1>2 DEF AwaitedOf
  <2>2. ffs[p + 1].s.idx # ffs[1].s.idx
    BY <1>1, <1>2 DEF AwaitedOf
  <2> QED
    BY <1>2, <1>3, <2>1, <2>2
<1>10. ASSUME NEW p \in DOMAIN Tail(ffs), NEW r \in DOMAIN Tail(ffs),
              Tail(ffs)[p].s.idx = Tail(ffs)[r].s.idx
       PROVE  p = r
  <2>1. p + 1 = r + 1
    BY <1>1, <1>2, <1>10 DEF AwaitedOf
  <2> QED
    BY <1>2, <2>1
<1> QED
  BY <1>2, <1>3, <1>4, <1>5, <1>6, <1>7, <1>8, <1>9, <1>10 DEF HeadOf

\* A page with more to come.
LEMMA Step_apply_more ==
  ASSUME I!IInv, I!Distinct, I!apply_more
  PROVE  I!EntryInv' /\ I!PageInv' /\ I!ResultInv'
<1>1. PICK q \in DOMAIN sts : HeadOf(q)
  BY HeadEntry DEF I!apply_more
<1>2. PICK s, idx, page : s = sts[q].e /\ idx = sts[q].idx /\ page = Head(ffs).page
  OBVIOUS
<1>3. PICK new : new = [e |-> [s EXCEPT !.st = NextSt(s.st, s.reverse, page)], idx |-> idx]
  OBVIOUS
<1>4. /\ Head(ffs).s.e = s /\ Head(ffs).s.idx = idx /\ s \in Entries /\ idx \in Nat
      /\ idx \in DOMAIN list /\ list[idx] \in Entries
      /\ s.plain = list[idx].plain /\ s.reverse = list[idx].reverse
      /\ PartialOf(db, list[idx], s, acc[idx]) /\ page.rows \in SUBSET Keys
      /\ \A r \in DOMAIN sts : sts[r].e.from = s.from => r = q
  BY <1>1, <1>2 DEF HeadOf, Tagged
<1>5. /\ ~s.plain /\ Recurse(s.st, page) /\ UNCHANGED <<db, list, points, ipc>> /\ ipc = "wait"
      /\ sts' = I!keyreplace(s.from, sts, new) /\ ffs' = Tail(ffs)
      /\ I!Accumulate(I!keyfind(s.from, sts').idx, Rows(s.st, s.reverse, page), 0)
  BY <1>2, <1>3, <1>4, SamePages DEF I!apply_more
<1>6. page \in Pages(s.st, s.reverse, db)
  BY <1>1, <1>2, <1>5 DEF HeadOf
<1>7. EntriesOf(sts) /\ AwaitedOf(ffs, sts, db) /\ ResultOf(db, list, sts, ffs, acc, ipc)
  BY SameInv, SameResults DEF I!IInv
<1>8. /\ new \in Tagged /\ new.idx = idx /\ new.e \in Entries /\ new.e.from = s.from
      /\ new.e.plain = s.plain /\ new.e.reverse = s.reverse
      /\ new.e.st = NextSt(s.st, s.reverse, page)
  <2>1. NextSt(s.st, s.reverse, page) \in Sts
    BY <1>4, <1>5, NextStType DEF Entries
  <2> QED
    BY <1>3, <1>4, <2>1 DEF Tagged, Entries
<1>9. /\ sts \in Seq(Tagged) /\ sts' = [sts EXCEPT ![q] = new]
      /\ sts' \in Seq(Tagged) /\ DOMAIN sts' = DOMAIN sts
      /\ sts'[q] = new /\ \A r \in DOMAIN sts : r # q => sts'[r] = sts[r]
  <2>1. sts \in Seq(Tagged)
    BY <1>7 DEF EntriesOf
  <2>2. I!KeyPos(s.from, sts) = q
    BY <1>2, <1>4, <2>1, KeyFound
  <2> QED
    BY <1>5, <1>8, <2>1, <2>2 DEF I!keyreplace
<1>10. I!keyfind(s.from, sts').idx = idx
  <2>1. I!KeyPos(s.from, sts') = q
    BY <1>4, <1>8, <1>9, KeyFound
  <2> QED
    BY <1>8, <1>9, <2>1 DEF I!keyfind
<1>11. /\ DOMAIN acc = DOMAIN list /\ DOMAIN acc' = DOMAIN acc
       /\ \A j \in DOMAIN acc : j # idx => acc'[j] = acc[j]
       /\ acc'[idx] = [keys  |-> acc[idx].keys \cup Rows(s.st, s.reverse, page),
                       rows  |-> acc[idx].rows + Cardinality(Rows(s.st, s.reverse, page)),
                       value |-> 0]
  <2>1. DOMAIN acc = DOMAIN list /\ idx \in DOMAIN acc
    BY <1>4 DEF I!IInv, I!ListInv
  <2>2. acc[idx].value = 0
    BY <1>4 DEF PartialOf
  <2> QED
    BY <1>5, <1>10, <2>1, <2>2, Accumulated
<1>12. EntriesOf(sts')
  <2>1. \A r \in DOMAIN sts : sts'[r].idx = sts[r].idx
    BY <1>2, <1>8, <1>9
  <2>2. ASSUME NEW r \in DOMAIN sts
        PROVE  /\ sts'[r].idx \in DOMAIN list
               /\ sts'[r].e.from = list[sts'[r].idx].from
               /\ sts'[r].e.plain = list[sts'[r].idx].plain
               /\ sts'[r].e.reverse = list[sts'[r].idx].reverse
    <3>1. CASE r = q
      BY <1>2, <1>4, <1>7, <1>8, <1>9, <3>1 DEF EntriesOf
    <3>2. CASE r # q
      BY <1>7, <1>9, <3>2 DEF EntriesOf
    <3> QED
      BY <3>1, <3>2
  <2> QED
    BY <1>7, <1>9, <2>1, <2>2 DEF EntriesOf
<1>13. AwaitedOf(ffs', sts', db')
  BY <1>1, <1>5, <1>9 DEF HeadOf, AwaitedOf
<1>14. ASSUME NEW p \in DOMAIN sts'
       PROVE  PartialOf(db, list[sts'[p].idx], sts'[p].e, acc'[sts'[p].idx])
  <2>1. CASE p = q
    <3>1. PICK e, a, n : e = list[idx] /\ a = acc[idx] /\ n = new.e
      OBVIOUS
    <3>2. db \in SUBSET Keys
      BY SameRows DEF I!IInv, I!ListInv
    <3>3. PartialOf(db, e, n, [keys  |-> a.keys \cup Rows(s.st, s.reverse, page),
                               rows  |-> a.rows + Cardinality(Rows(s.st, s.reverse, page)),
                               value |-> 0])
      BY <1>4, <1>5, <1>6, <1>8, <3>1, <3>2, PageMore
    <3> QED
      BY <1>8, <1>9, <1>11, <2>1, <3>1, <3>3
  <2>2. CASE p # q
    <3>1. sts'[p] = sts[p] /\ sts[p].idx # idx /\ sts[p].idx \in DOMAIN list
      BY <1>2, <1>7, <1>9, <2>2 DEF EntriesOf
    <3>2. PartialOf(db, list[sts[p].idx], sts[p].e, acc[sts[p].idx])
      BY <1>5, <1>7, <1>9 DEF ResultOf
    <3> QED
      BY <1>11, <3>1, <3>2
  <2> QED
    BY <2>1, <2>2
<1>15. ASSUME NEW i \in DOMAIN list, \A p \in DOMAIN sts' : sts'[p].idx # i
       PROVE  CompleteOf(db, list[i], acc'[i])
  <2>1. i # idx /\ \A p \in DOMAIN sts : sts[p].idx # i
    BY <1>2, <1>8, <1>9, <1>15
  <2>2. CompleteOf(db, list[i], acc[i])
    BY <1>5, <1>7, <2>1 DEF ResultOf
  <2> QED
    BY <1>11, <2>1, <2>2
<1>16. ResultOf(db', list', sts', ffs', acc', ipc')
  BY <1>5, <1>14, <1>15 DEF ResultOf
<1> QED
  BY <1>5, <1>12, <1>13, <1>16, SameInv, SameResults

\* The last page of an entry, or the result of a plain future.
LEMMA Step_apply_done ==
  ASSUME I!IInv, I!Distinct, I!apply_done
  PROVE  I!EntryInv' /\ I!PageInv' /\ I!ResultInv'
<1>1. PICK q \in DOMAIN sts : HeadOf(q)
  BY HeadEntry DEF I!apply_done
<1>2. PICK s, idx, page : s = sts[q].e /\ idx = sts[q].idx /\ page = Head(ffs).page
  OBVIOUS
<1>3. /\ Head(ffs).s.e = s /\ Head(ffs).s.idx = idx /\ s \in Entries /\ idx \in Nat
      /\ idx \in DOMAIN list /\ list[idx] \in Entries
      /\ s.plain = list[idx].plain /\ s.reverse = list[idx].reverse
      /\ PartialOf(db, list[idx], s, acc[idx]) /\ page.rows \in SUBSET Keys
      /\ \A r \in DOMAIN sts : sts[r].e.from = s.from => r = q
  BY <1>1, <1>2 DEF HeadOf, Tagged
<1>4. PICK rows, v : /\ rows = IF s.plain THEN {} ELSE Rows(s.st, s.reverse, page)
                     /\ v = IF s.plain THEN s.from ELSE 0
  OBVIOUS
<1>5. /\ s.plain \/ ~Recurse(s.st, page)
      /\ UNCHANGED <<db, list, points, ipc>> /\ ipc = "wait"
      /\ sts' = I!keydelete(s.from, sts) /\ ffs' = Tail(ffs)
      /\ I!Accumulate(I!keyfind(s.from, sts).idx, rows, v)
  BY <1>2, <1>3, <1>4, SamePages DEF I!apply_done
<1>6. EntriesOf(sts) /\ AwaitedOf(ffs, sts, db) /\ ResultOf(db, list, sts, ffs, acc, ipc)
  BY SameInv, SameResults DEF I!IInv
<1>7. I!KeyPos(s.from, sts) = q
  BY <1>2, <1>3, <1>6, KeyFound DEF EntriesOf
<1>8. /\ sts' \in Seq(Tagged)
      /\ \A i \in DOMAIN sts' : \E j \in DOMAIN sts : j # q /\ sts'[i] = sts[j]
      /\ \A j \in DOMAIN sts : j # q => \E i \in DOMAIN sts' : sts'[i] = sts[j]
      /\ \A i, j \in DOMAIN sts' : sts'[i].idx = sts'[j].idx => i = j
  <2>1. sts' = SubSeq(sts, 1, q - 1) \o SubSeq(sts, q + 1, Len(sts))
    BY <1>5, <1>7 DEF I!keydelete
  <2>2. sts \in Seq(Tagged) /\ \A i, j \in DOMAIN sts : sts[i].idx = sts[j].idx => i = j
    BY <1>6 DEF EntriesOf
  <2>3. PICK l, d : l = sts /\ d = sts'
    OBVIOUS
  <2>4. /\ l \in Seq(Tagged) /\ q \in DOMAIN l /\ Apart(l)
        /\ d = SubSeq(l, 1, q - 1) \o SubSeq(l, q + 1, Len(l))
    BY <2>1, <2>2, <2>3 DEF Apart
  <2>5. d \in Seq(Tagged) /\ Without(d, l, q) /\ Apart(d)
    BY <2>4, Deleted
  <2> QED
    BY <2>3, <2>5 DEF Without, Apart
<1>9. /\ DOMAIN acc = DOMAIN list /\ DOMAIN acc' = DOMAIN acc
      /\ \A j \in DOMAIN acc : j # idx => acc'[j] = acc[j]
      /\ acc'[idx] = [keys  |-> acc[idx].keys \cup rows,
                      rows  |-> acc[idx].rows + Cardinality(rows),
                      value |-> v]
  <2>1. DOMAIN acc = DOMAIN list /\ idx \in DOMAIN acc
    BY <1>3 DEF I!IInv, I!ListInv
  <2>2. acc[idx].value = 0
    BY <1>3 DEF PartialOf
  <2>3. I!keyfind(s.from, sts).idx = idx
    BY <1>2, <1>7 DEF I!keyfind
  <2> QED
    BY <1>5, <2>1, <2>2, <2>3, Accumulated
<1>10. EntriesOf(sts')
  BY <1>6, <1>8 DEF EntriesOf
<1>11. AwaitedOf(ffs', sts', db')
  BY <1>1, <1>5, <1>8 DEF HeadOf, AwaitedOf
<1>12. ASSUME NEW p \in DOMAIN sts'
       PROVE  PartialOf(db, list[sts'[p].idx], sts'[p].e, acc'[sts'[p].idx])
  <2>1. PICK j \in DOMAIN sts : j # q /\ sts'[p] = sts[j]
    BY <1>8
  <2>2. sts[j].idx # idx /\ sts[j].idx \in DOMAIN list
    BY <1>2, <1>6, <2>1 DEF EntriesOf
  <2>3. PartialOf(db, list[sts[j].idx], sts[j].e, acc[sts[j].idx])
    BY <1>5, <1>6 DEF ResultOf
  <2> QED
    BY <1>9, <2>1, <2>2, <2>3
<1>13. CompleteOf(db, list[idx], acc'[idx])
  <2>1. PICK e, a : e = list[idx] /\ a = acc[idx]
    OBVIOUS
  <2>2. e \in Entries /\ s.reverse = e.reverse /\ s.plain = e.plain /\ PartialOf(db, e, s, a)
    BY <1>3, <2>1
  <2>3. CASE ~s.plain
    <3>1. page \in Pages(s.st, s.reverse, db)
      BY <1>1, <1>2, <2>3 DEF HeadOf
    <3>2. db \in SUBSET Keys
      BY SameRows DEF I!IInv, I!ListInv
    <3>3. CompleteOf(db, e, [keys  |-> a.keys \cup Rows(s.st, s.reverse, page),
                             rows  |-> a.rows + Cardinality(Rows(s.st, s.reverse, page)),
                             value |-> v])
      BY <1>3, <1>5, <2>2, <2>3, <3>1, <3>2, PageLast
    <3> QED
      BY <1>4, <1>9, <2>1, <2>3, <3>3
  <2>4. CASE s.plain
    <3>1. e.plain /\ a.keys = {} /\ a.rows = Cardinality({})
      BY <2>2, <2>4 DEF PartialOf
    <3>2. Cardinality({}) = 0 /\ rows = {} /\ v = s.from
      BY <1>4, <2>4, FS_EmptySet
    <3>3. s.from = e.from
      BY <1>2, <1>6, <2>1 DEF EntriesOf
    <3>4. acc'[idx] = [keys |-> {}, rows |-> 0, value |-> e.from]
      <4>1. a.keys \cup rows = {} /\ a.rows + Cardinality(rows) = 0
        BY <3>1, <3>2
      <4> QED
        BY <1>9, <2>1, <3>2, <3>3, <4>1
    <3> QED
      BY <2>1, <3>1, <3>4 DEF CompleteOf
  <2> QED
    BY <2>3, <2>4
<1>14. ASSUME NEW i \in DOMAIN list, \A p \in DOMAIN sts' : sts'[p].idx # i
       PROVE  CompleteOf(db, list[i], acc'[i])
  <2>1. CASE i = idx
    BY <1>13, <2>1
  <2>2. CASE i # idx
    <3>1. \A p \in DOMAIN sts : sts[p].idx # i
      BY <1>2, <1>8, <1>14, <2>2
    <3>2. CompleteOf(db, list[i], acc[i])
      BY <1>5, <1>6, <3>1 DEF ResultOf
    <3> QED
      BY <1>9, <2>2, <3>2
  <2> QED
    BY <2>1, <2>2
<1>15. ResultOf(db', list', sts', ffs', acc', ipc')
  BY <1>5, <1>12, <1>14 DEF ResultOf
<1> QED
  BY <1>5, <1>10, <1>11, <1>15, SameInv, SameResults

\* The pages of a round.
LEMMA RoundPages ==
  ASSUME NEW D \in SUBSET Keys, EntriesOf(sts'), UNCHANGED <<db, list>>, D = db,
         NEW q, q = [i \in DOMAIN sts' |-> sts'[i].e],
         NEW pages \in I!WithPages(q),
         ffs' = [i \in DOMAIN sts' |-> [s |-> sts'[i], page |-> pages[i]]]
  PROVE  AwaitedOf(ffs', sts', db')
<1>1. /\ sts' \in Seq(Tagged) /\ DOMAIN ffs' = DOMAIN sts'
      /\ \A i \in DOMAIN sts' : sts'[i] \in Tagged /\ q[i] = sts'[i].e /\ i \in DOMAIN q
      /\ \A i \in DOMAIN sts' : ffs'[i] = [s |-> sts'[i], page |-> pages[i]]
  BY DEF EntriesOf
<1>2. ASSUME NEW i \in DOMAIN sts'
      PROVE  /\ pages[i] \in [rows : SUBSET Keys, more : BOOLEAN]
             /\ ~sts'[i].e.plain => pages[i] \in Pages(sts'[i].e.st, sts'[i].e.reverse, db')
  <2>1. PICK e : e = sts'[i].e
    OBVIOUS
  <2>2. /\ e \in Entries /\ e.st \in Sts /\ e.reverse \in BOOLEAN
        /\ IF e.plain THEN pages[i] = [rows |-> {}, more |-> FALSE]
           ELSE pages[i] \in Pages(e.st, e.reverse, db)
    <3>1. e \in Entries /\ e.st \in Sts /\ e.reverse \in BOOLEAN /\ e = q[i] /\ i \in DOMAIN q
      BY <1>1, <2>1 DEF Tagged, Entries
    <3>2. IF q[i].plain THEN pages[i] = [rows |-> {}, more |-> FALSE]
          ELSE pages[i] \in Pages(q[i].st, q[i].reverse, db)
      BY <3>1, PagesCome
    <3> QED
      BY <3>1, <3>2
  <2>3. CASE e.plain
    <3>1. [rows |-> {}, more |-> FALSE] \in [rows : SUBSET Keys, more : BOOLEAN]
      OBVIOUS
    <3> QED
      BY <2>1, <2>2, <2>3, <3>1
  <2>4. CASE ~e.plain
    <3>1. PICK t, rev, page : t = e.st /\ rev = e.reverse /\ page = pages[i]
      OBVIOUS
    <3>2. t \in Sts /\ rev \in BOOLEAN /\ page \in Pages(t, rev, D)
      BY <2>2, <2>4, <3>1
    <3>3. /\ FirstOf(rev, page.rows, RowsOf(t.start_key, t.end_key, D)) /\ page.more \in BOOLEAN
          /\ RowsOf(t.start_key, t.end_key, D) \in SUBSET D
      BY <3>2, PageFacts, RowsType
    <3>4. page = [rows |-> page.rows, more |-> page.more]
      BY <3>2 DEF Pages
    <3>5. page.rows \in SUBSET Keys
      BY <3>3 DEF FirstOf
    <3> QED
      BY <2>1, <2>2, <2>4, <3>1, <3>3, <3>4, <3>5
  <2> QED
    BY <2>3, <2>4
<1>3. \A i \in DOMAIN sts' : ffs'[i] \in Awaited
  BY <1>1, <1>2 DEF Awaited
<1>4. ffs' \in Seq(Awaited)
  <2>1. PICK n \in Nat : DOMAIN sts' = 1..n
    BY <1>1
  <2>2. ffs' = [i \in 1..n |-> ffs'[i]] /\ \A i \in 1..n : ffs'[i] \in Awaited
    BY <1>3, <2>1
  <2> QED
    BY <2>2
<1>5. ASSUME NEW i \in DOMAIN ffs'
      PROVE  /\ ffs'[i].s = sts'[i] /\ i \in DOMAIN sts' /\ ffs'[i].page = pages[i]
  BY <1>1
<1>6. ASSUME NEW i \in DOMAIN ffs', NEW j \in DOMAIN ffs', ffs'[i].s.idx = ffs'[j].s.idx
      PROVE  i = j
  BY <1>5, <1>6 DEF EntriesOf
<1> QED
  BY <1>2, <1>4, <1>5, <1>6 DEF AwaitedOf

\* The call starts: every entry is tagged, and its first page is asked for.
LEMMA Step_start ==
  ASSUME I!IInv, I!Distinct, I!wait_for_all_interleaving
  PROVE  I!EntryInv' /\ I!PageInv' /\ I!ResultInv'
<1>1. /\ ipc = "idle" /\ ipc' = "wait" /\ UNCHANGED <<db, list, points, acc>>
      /\ sts' = [i \in DOMAIN list |-> [e |-> list[i], idx |-> i]]
  BY DEF I!wait_for_all_interleaving
<1>2. PICK pages \in I!WithPages(list) :
         ffs' = [i \in DOMAIN list |-> [s |-> sts'[i], page |-> pages[i]]]
  BY <1>1 DEF I!wait_for_all_interleaving
<1>3. /\ list \in Seq(Entries) /\ db \in SUBSET Keys
      /\ \A i \in DOMAIN list : acc[i] = [keys |-> {}, rows |-> 0, value |-> 0]
  BY <1>1, SameRows DEF I!IInv, I!ListInv, I!ResultInv
<1>4. /\ DOMAIN sts' = DOMAIN list
      /\ \A i \in DOMAIN list : /\ sts'[i].e = list[i] /\ sts'[i].idx = i
                                /\ sts'[i] \in Tagged /\ list[i] \in Entries
  BY <1>1, <1>3 DEF Tagged
<1>5. EntriesOf(sts')
  <2>1. PICK n \in Nat : DOMAIN list = 1..n
    BY <1>3
  <2>2. sts' = [i \in 1..n |-> sts'[i]] /\ \A i \in 1..n : sts'[i] \in Tagged
    BY <1>1, <1>4, <2>1
  <2>3. sts' \in Seq(Tagged)
    BY <2>2
  <2> QED
    BY <1>4, <2>3 DEF EntriesOf
<1>6. AwaitedOf(ffs', sts', db')
  <2>1. PICK q : q = [i \in DOMAIN sts' |-> sts'[i].e]
    OBVIOUS
  <2>2. q = list
    BY <1>3, <1>4, <2>1
  <2>3. ffs' = [i \in DOMAIN sts' |-> [s |-> sts'[i], page |-> pages[i]]]
    BY <1>2, <1>4
  <2> QED
    BY <1>1, <1>2, <1>3, <1>5, <2>1, <2>2, <2>3, RoundPages
<1>7. ASSUME NEW i \in DOMAIN list
      PROVE  PartialOf(db, list[i], list[i], acc[i])
  <2>1. PICK e, a : e = list[i] /\ a = acc[i]
    OBVIOUS
  <2>2. e.st.limit \in Nat /\ a = [keys |-> {}, rows |-> 0, value |-> 0] /\ Cardinality({}) = 0
    BY <1>3, <1>4, <2>1, FS_EmptySet DEF Entries, Sts
  <2>3. PartialOf(db, e, e, a)
    BY <2>2 DEF PartialOf, FirstOf
  <2> QED
    BY <2>1, <2>3
<1>8. ResultOf(db', list', sts', ffs', acc', ipc')
  BY <1>1, <1>4, <1>7 DEF ResultOf
<1> QED
  BY <1>1, <1>5, <1>6, <1>8, SameInv, SameResults

\* The round is over.
LEMMA Step_round ==
  ASSUME I!IInv, I!Distinct, I!fold_interleaving_and_wait
  PROVE  I!EntryInv' /\ I!PageInv' /\ I!ResultInv'
<1>1. /\ ipc = "wait" /\ ffs = <<>> /\ UNCHANGED <<db, list, points, sts, acc>>
  BY DEF I!fold_interleaving_and_wait
<1>2. EntriesOf(sts) /\ AwaitedOf(ffs, sts, db) /\ ResultOf(db, list, sts, ffs, acc, ipc)
  BY SameInv, SameResults DEF I!IInv
<1>3. EntriesOf(sts')
  BY <1>1, <1>2
<1>4. CASE sts = <<>> /\ ipc' = "returned" /\ UNCHANGED ffs
  <2>1. AwaitedOf(ffs', sts', db')
    BY <1>1, <1>2, <1>4
  <2>2. ResultOf(db', list', sts', ffs', acc', ipc')
    BY <1>1, <1>2, <1>4 DEF ResultOf
  <2> QED
    BY <1>1, <1>3, <2>1, <2>2, SameInv, SameResults
<1>5. CASE /\ \E pages \in I!WithPages([i \in DOMAIN sts |-> sts[i].e]) :
                ffs' = [i \in DOMAIN sts |-> [s |-> sts[i], page |-> pages[i]]]
           /\ UNCHANGED ipc
  <2>1. PICK q : q = [i \in DOMAIN sts |-> sts[i].e]
    OBVIOUS
  <2>2. PICK pages \in I!WithPages(q) :
           ffs' = [i \in DOMAIN sts |-> [s |-> sts[i], page |-> pages[i]]]
    BY <1>5, <2>1
  <2>3. db \in SUBSET Keys
    BY SameRows DEF I!IInv, I!ListInv
  <2>4. AwaitedOf(ffs', sts', db')
    BY <1>1, <1>3, <2>1, <2>2, <2>3, RoundPages
  <2>5. ResultOf(db', list', sts', ffs', acc', ipc')
    BY <1>1, <1>2, <1>5 DEF ResultOf
  <2> QED
    BY <1>1, <1>3, <2>4, <2>5, SameInv, SameResults
<1> QED
  BY <1>4, <1>5 DEF I!fold_interleaving_and_wait

\* A wait raises, or another call makes a step while there is no interleaved one.
LEMMA Step_inter_kept ==
  ASSUME I!IInv, I!Distinct,
         \/ I!wait_raises
         \/ UNCHANGED interVars /\ (db' = db \/ ipc = "idle")
  PROVE  I!EntryInv' /\ I!PageInv' /\ I!ResultInv'
<1>1. UNCHANGED <<list, points, sts, ffs, acc>>
  BY DEF I!wait_raises, interVars
<1>2. EntriesOf(sts) /\ AwaitedOf(ffs, sts, db) /\ ResultOf(db, list, sts, ffs, acc, ipc)
  BY SameInv, SameResults DEF I!IInv
<1>3. EntriesOf(sts')
  BY <1>1, <1>2
<1>4. CASE ipc = "idle" /\ ipc' = "idle"
  <2>1. ffs = <<>> /\ DOMAIN ffs = {}
    BY <1>2, <1>4 DEF ResultOf
  <2>2. AwaitedOf(ffs', sts', db')
    BY <1>1, <1>2, <2>1 DEF AwaitedOf
  <2>3. ResultOf(db', list', sts', ffs', acc', ipc')
    BY <1>1, <1>2, <1>4 DEF ResultOf
  <2> QED
    BY <1>1, <1>3, <2>2, <2>3, SameInv, SameResults
<1>5. CASE db' = db /\ (ipc' = ipc \/ (ipc = "wait" /\ ipc' = "raised"))
  <2>1. AwaitedOf(ffs', sts', db')
    BY <1>1, <1>2, <1>5
  <2>2. ResultOf(db', list', sts', ffs', acc', ipc')
    BY <1>1, <1>2, <1>5 DEF ResultOf
  <2> QED
    BY <1>1, <1>3, <2>1, <2>2, SameInv, SameResults
<1> QED
  BY <1>4, <1>5 DEF I!wait_raises, interVars

\* The argument of the call stays as it is.
LEMMA Step_list ==
  ASSUME I!IInv, I!Next
  PROVE  I!ListInv' /\ UNCHANGED list
<1>1. /\ UNCHANGED <<db, list, points>>
      /\ ipc' \in {"idle", "wait", "returned", "raised"}
  BY DEF I!IInv, I!ListInv, I!Next, I!Step, I!wait_for_all_interleaving, I!apply_more,
         I!apply_done, I!fold_interleaving_and_wait, I!wait_raises
<1>2. DOMAIN acc' = DOMAIN acc
  BY DEF I!Next, I!Step, I!wait_for_all_interleaving, I!apply_more,
         I!apply_done, I!fold_interleaving_and_wait, I!wait_raises, I!Accumulate
<1> QED
  BY <1>1, <1>2 DEF I!IInv, I!ListInv

\* Split points give a list of range futures.
LEMMA SplitListType ==
  ASSUME NEW keys \in Splits
  PROVE  I!SplitList(keys) \in Seq(Entries)
<1>1. keys \in Seq(Nat)
  BY ReadCallsAssumption
<1>2. PICK n \in Nat : n = Len(keys)
  BY <1>1
<1>3. PICK l : l = I!SplitList(keys)
  OBVIOUS
<1>4. /\ DOMAIN l = 1..(n - 1) /\ l = [i \in 1..(n - 1) |-> l[i]]
      /\ \A i \in 1..(n - 1) :
            l[i] = [from |-> i, plain |-> FALSE,
                    st |-> [start_key |-> first_greater_or_equal(keys[i]),
                            end_key |-> first_greater_or_equal(keys[i + 1]), limit |-> 0],
                    reverse |-> FALSE]
  BY <1>2, <1>3, SameRows DEF I!SplitList, I!list_to_ranges, I!RangeFuture, I!St
<1>5. ASSUME NEW i \in 1..(n - 1)
      PROVE  l[i] \in Entries
  <2>1. keys[i] \in Nat /\ keys[i + 1] \in Nat /\ i \in Nat
    BY <1>1, <1>2
  <2>2. /\ first_greater_or_equal(keys[i]) \in Selectors
        /\ first_greater_or_equal(keys[i + 1]) \in Selectors
    BY <2>1 DEF first_greater_or_equal, Selectors
  <2>3. PICK t : t = [start_key |-> first_greater_or_equal(keys[i]),
                      end_key |-> first_greater_or_equal(keys[i + 1]), limit |-> 0]
    OBVIOUS
  <2>4. t \in Sts
    BY <2>2, <2>3 DEF Sts
  <2>5. l[i] = [from |-> i, plain |-> FALSE, st |-> t, reverse |-> FALSE]
    BY <1>4, <2>3
  <2> QED
    BY <2>1, <2>4, <2>5 DEF Entries
<1>6. PICK m \in Nat : 1..(n - 1) = 1..m
  <2>1. CASE n = 0
    <3>1. 1..(n - 1) = 1..0 /\ 0 \in Nat
      BY <2>1
    <3> QED
      BY <3>1
  <2>2. CASE n # 0
    <3>1. n - 1 \in Nat
      BY <2>2
    <3> QED
      BY <3>1
  <2> QED
    BY <2>1, <2>2
<1>7. l = [i \in 1..m |-> l[i]] /\ \A i \in 1..m : l[i] \in Entries
  BY <1>4, <1>5, <1>6
<1>8. l \in Seq(Entries)
  BY <1>7
<1> QED
  BY <1>3, <1>8

\* The calls' invariant: that of the range read, that of the interleaved wait,
\* which stays idle beside the other calls.
ReadInv ==
  /\ IInv /\ I!IInv
  /\ call # "interleaving" => ipc = "idle"

\* The invariant of the read calls holds in the beginning.
LEMMA ReadInitial ==
  ASSUME ReadInit
  PROVE  ReadInv
<1>1. IInv
  BY RangeInit, Initial
<1>2. CASE I!Init
  <2>1. list \in Seq(Entries)
    BY <1>2, ReadCallsAssumption, SplitListType DEF I!Init
  <2>2. I!ListInv
    BY <1>2, <2>1, SameRows DEF I!Init, I!ListInv
  <2>3. sts = <<>> /\ ffs = <<>> /\ ipc = "idle"
        /\ \A i \in DOMAIN list : acc[i] = [keys |-> {}, rows |-> 0, value |-> 0]
    BY <1>2 DEF I!Init
  <2>4. I!EntryInv /\ I!PageInv /\ I!ResultInv
    BY <2>3 DEF I!EntryInv, I!PageInv, I!ResultInv
  <2> QED
    BY <1>1, <2>2, <2>3, <2>4 DEF ReadInv, I!IInv
<1>3. CASE NoInterleaving
  <2>1. db \in SUBSET Keys
    BY <1>1 DEF IInv, TypeOK
  <2>2. I!ListInv
    BY <1>3, <2>1, SameRows DEF NoInterleaving, I!ListInv
  <2>3. I!EntryInv /\ I!PageInv /\ I!ResultInv
    BY <1>3 DEF NoInterleaving, I!EntryInv, I!PageInv, I!ResultInv
  <2> QED
    BY <1>1, <1>3, <2>2, <2>3 DEF ReadInv, I!IInv, NoInterleaving
<1> QED
  BY <1>2, <1>3 DEF ReadInit

\* Every step of a read call keeps it.
LEMMA ReadPreserved ==
  ASSUME ReadInv, [ReadNext]_allVars
  PROVE  ReadInv'
<1>1. IInv'
  BY RangeNext, Preserved DEF ReadInv
<1>2. CASE call = "interleaving" /\ call' = call /\ I!Next
  <2>1. I!ListInv' /\ UNCHANGED list
    BY <1>2, Step_list DEF ReadInv
  <2>2. ASSUME I!Distinct'
        PROVE  I!EntryInv' /\ I!PageInv' /\ I!ResultInv'
    <3>1. I!Distinct
      BY <2>1, <2>2 DEF I!Distinct
    <3> QED
      BY <1>2, <3>1, Step_start, Step_apply_more, Step_apply_done, Step_round, Step_inter_kept
         DEF I!Next, I!Step, ReadInv
  <2> QED
    BY <1>1, <1>2, <2>1, <2>2 DEF ReadInv, I!IInv
<1>3. CASE UNCHANGED interVars /\ UNCHANGED call /\ (db' = db \/ ipc = "idle")
  <2>1. db' \in SUBSET Keys
    BY <1>1 DEF IInv, TypeOK
  <2>2. I!ListInv'
    BY <1>3, <2>1, SameRows DEF ReadInv, I!IInv, I!ListInv, interVars
  <2>3. ASSUME I!Distinct'
        PROVE  I!EntryInv' /\ I!PageInv' /\ I!ResultInv'
    <3>1. I!Distinct
      BY <1>3, <2>3 DEF I!Distinct, interVars
    <3> QED
      BY <1>3, <3>1, Step_inter_kept DEF ReadInv
  <2> QED
    BY <1>1, <1>3, <2>2, <2>3 DEF ReadInv, I!IInv, interVars
<1>4. CASE call = "range" /\ Next /\ UNCHANGED <<call, interVars, anyVars>>
  BY <1>3, <1>4 DEF ReadInv
<1>5. CASE call = "any" /\ A!Next /\ UNCHANGED <<call, vars, interVars>>
  BY <1>3, <1>5 DEF vars
<1>6. CASE UNCHANGED allVars
  BY <1>3, <1>6 DEF allVars, vars
<1> QED
  BY <1>2, <1>4, <1>5, <1>6 DEF ReadNext

\* The calls' invariant holds in every reachable state.
THEOREM ReadInvariance == ReadSpec => []ReadInv
<1>1. ReadInit => ReadInv
  BY ReadInitial
<1>2. ReadInv /\ [ReadNext]_allVars => ReadInv'
  BY ReadPreserved
<1> QED
  BY <1>1, <1>2, PTL DEF ReadSpec

\* No list that a call is given has one future twice.
DistinctFutures ==
  \A l \in Lists : \A i, j \in DOMAIN l : l[i].from = l[j].from => i = j

\* What split points give, entry by entry.
LEMMA SplitEntries ==
  ASSUME NEW keys \in Splits, NEW l, l = I!SplitList(keys)
  PROVE  /\ DOMAIN l = 1..(Len(keys) - 1)
         /\ \A i \in DOMAIN l :
               /\ l[i].from = i /\ ~l[i].plain /\ l[i].st.limit = 0
               /\ l[i].st.start_key = first_greater_or_equal(keys[i])
               /\ l[i].st.end_key = first_greater_or_equal(keys[i + 1])
BY SameRows DEF I!SplitList, I!list_to_ranges, I!RangeFuture, I!St

\* A call that returned has completed every index.
LEMMA ReturnedComplete ==
  ASSUME ReadInv, I!Distinct, ipc = "returned", NEW i \in DOMAIN list
  PROVE  CompleteOf(db, list[i], acc[i])
<1>1. ResultOf(db, list, sts, ffs, acc, ipc)
  BY SameResults DEF ReadInv, I!IInv
<1>2. sts = <<>> /\ DOMAIN sts = {}
  BY <1>1 DEF ResultOf
<1> QED
  BY <1>1, <1>2 DEF ResultOf

\* wait_for_all_interleaving/3 returns at each index the rows of its range, all of
\* them and each once, or the value of its plain future: for any list in which no
\* future is twice, any keys, bounds and limits and any cut into pages.
THEOREM ResultsInPlace ==
  ASSUME DistinctFutures
  PROVE  ReadSpec => []ResultsMatch
<1>1. ReadInit => I!Distinct
  <2>1. ASSUME I!Init
        PROVE  I!Distinct
    <3>1. CASE list \in Lists
      BY <3>1 DEF DistinctFutures, I!Distinct
    <3>2. ASSUME NEW keys \in Splits, list = I!SplitList(keys)
          PROVE  I!Distinct
      BY <3>2, SplitEntries DEF I!Distinct
    <3> QED
      BY <2>1, <3>1, <3>2 DEF I!Init
  <2>2. ASSUME NoInterleaving
        PROVE  I!Distinct
    BY <2>2 DEF NoInterleaving, I!Distinct
  <2> QED
    BY <2>1, <2>2 DEF ReadInit
<1>2. ReadInv /\ I!Distinct /\ [ReadNext]_allVars => I!Distinct'
  <2> SUFFICES ASSUME ReadInv, I!Distinct, [ReadNext]_allVars
               PROVE  I!Distinct'
    OBVIOUS
  <2>1. UNCHANGED list
    BY Step_list DEF ReadInv, ReadNext, allVars, interVars
  <2> QED
    BY <2>1 DEF I!Distinct
<1>3. ReadInv /\ I!Distinct => I!ResultsMatch
  <2> SUFFICES ASSUME ReadInv, I!Distinct
               PROVE  I!ResultsMatch
    OBVIOUS
  <2>1. /\ db \subseteq Keys /\ ipc \in {"idle", "wait", "returned", "raised"}
        /\ DOMAIN acc = DOMAIN list /\ list \in Seq(Entries)
    BY SameRows DEF ReadInv, I!IInv, I!ListInv
  <2>2. EntriesOf(sts) /\ ResultOf(db, list, sts, ffs, acc, ipc)
    BY SameInv, SameResults DEF ReadInv, I!IInv
  <2>3. ASSUME NEW i \in DOMAIN list
        PROVE  acc[i].keys \subseteq Keys /\ acc[i].rows \in Nat
    <3>1. PICK e, a : e = list[i] /\ a = acc[i] /\ e \in Entries
      BY <2>1
    <3>2. RowsOf(e.st.start_key, e.st.end_key, db) \in SUBSET Keys
      BY <2>1, <3>1, RowsType DEF Entries
    <3>3. CASE ipc = "idle"
      BY <2>2, <3>1, <3>3 DEF ResultOf
    <3>4. CASE \E s : PartialOf(db, e, s, a)
      <4>1. a.keys \in SUBSET Keys /\ a.rows = Cardinality(a.keys)
        BY <3>2, <3>4 DEF PartialOf, FirstOf
      <4> QED
        BY <3>1, <4>1, KeysFinite
    <3>5. CASE CompleteOf(db, e, a)
      <4>1. CASE e.plain
        BY <3>1, <3>5, <4>1 DEF CompleteOf
      <4>2. CASE ~e.plain
        <5>1. a.keys \in SUBSET Keys /\ a.rows = Cardinality(a.keys)
          BY <3>2, <3>5, <4>2 DEF CompleteOf, First
        <5> QED
          BY <3>1, <5>1, KeysFinite
      <4> QED
        BY <4>1, <4>2
    <3>6. ipc = "idle" \/ (\E s : PartialOf(db, e, s, a)) \/ CompleteOf(db, e, a)
      <4>1. CASE \E p \in DOMAIN sts : sts[p].idx = i
        BY <2>2, <3>1, <4>1 DEF ResultOf
      <4>2. CASE \A p \in DOMAIN sts : sts[p].idx # i
        BY <2>2, <3>1, <4>2 DEF ResultOf
      <4> QED
        BY <4>1, <4>2
    <3> QED
      BY <3>3, <3>4, <3>5, <3>6
  <2>4. I!TypeOK
    BY <2>1, <2>2, <2>3, SameRows DEF I!TypeOK, EntriesOf
  <2>5. ASSUME ipc = "returned", NEW i \in DOMAIN list
        PROVE  I!Complete(i)
    BY <2>5, ReturnedComplete, SameRows, SameCardinality DEF I!Complete, CompleteOf, I!Wanted
  <2> QED
    BY <2>4, <2>5 DEF I!ResultsMatch
<1> QED
  BY <1>1, <1>2, <1>3, ReadInvariance, PTL DEF ReadSpec, ResultsMatch

\* A read between two keys finds the keys from the first to before the second.
LEMMA RowsBetween ==
  ASSUME NEW a \in Nat, NEW b \in Nat, NEW D \in SUBSET Keys
  PROVE  RowsOf(first_greater_or_equal(a), first_greater_or_equal(b), D)
            = {k \in D : a <= k /\ k < b}
<1>1. ASSUME NEW c \in Nat
      PROVE  From(first_greater_or_equal(c), D) = {k \in D : c <= k}
  <2>1. first_greater_or_equal(c) \in Selectors /\ Plain(first_greater_or_equal(c))
    BY DEF first_greater_or_equal, Selectors, Plain, offset
  <2>2. From(first_greater_or_equal(c), D) = {k \in D : AtOrAfter(first_greater_or_equal(c), k)}
    BY <2>1, FromPlain
  <2>3. \A k \in D : AtOrAfter(first_greater_or_equal(c), k) <=> c <= k
    BY DEF AtOrAfter, or_equal, first_greater_or_equal, Keys
  <2> QED
    BY <2>2, <2>3
<1>2. \A k \in D : k \in Nat
  BY DEF Keys
<1>3. \A k \in D : ~(b <= k) <=> k < b
  BY <1>2
<1> QED
  BY <1>1, <1>3 DEF RowsOf

\* A key between the first and the last split point lies in one of the parts.
LEMMA InSomePart ==
  ASSUME NEW keys \in Seq(Nat), NEW k \in Nat, keys # <<>>,
         keys[1] <= k, k < keys[Len(keys)]
  PROVE  \E i \in 1..(Len(keys) - 1) : keys[i] <= k /\ k < keys[i + 1]
<1> DEFINE n == Len(keys)
           S == {j \in 1..n : k < keys[j]}
<1>1. n \in Nat /\ n # 0 /\ \A j \in 1..n : keys[j] \in Nat
  OBVIOUS
<1>2. S \in SUBSET Nat /\ n \in S /\ 1 \notin S
  BY <1>1
<1>3. PICK j \in S : \A i \in S : j <= i
  BY <1>2, Least
<1>4. j \in 1..n /\ j # 1 /\ k < keys[j]
  BY <1>2, <1>3
<1>5. j - 1 \in 1..n /\ j - 1 \notin S /\ j - 1 \in 1..(n - 1) /\ (j - 1) + 1 = j
  BY <1>1, <1>3, <1>4
<1>6. keys[j - 1] <= k
  BY <1>1, <1>5
<1> QED
  BY <1>4, <1>5, <1>6

\* get_range/4 with {wait, interleaving} returns the rows of the whole range, in
\* order and each once: for any split points in order, any keys and any pages.
THEOREM SplitReads == ReadSpec => []SplitExact
<1>1. ReadInv => I!SplitExact
  <2> SUFFICES ASSUME ReadInv, ipc = "returned", points # <<>>
               PROVE  LET whole == I!RowsOf(I!first_greater_or_equal(points[1]),
                                            I!first_greater_or_equal(points[Len(points)]), db)
                      IN /\ UNION {acc[i].keys : i \in DOMAIN acc} = whole
                         /\ \A i, j \in DOMAIN acc : i < j =>
                               \A k \in acc[i].keys, l \in acc[j].keys : k < l
    BY DEF I!SplitExact
  <2>1. /\ points \in Splits /\ list = I!SplitList(points)
        /\ DOMAIN acc = DOMAIN list /\ db \in SUBSET Keys
    BY SameRows DEF ReadInv, I!IInv, I!ListInv
  <2>2. /\ points \in Seq(Nat)
        /\ \A i, j \in DOMAIN points : i <= j => points[i] <= points[j]
    BY <2>1, ReadCallsAssumption
  <2>3. PICK n \in Nat : n = Len(points) /\ n # 0 /\ DOMAIN points = 1..n
    BY <2>2
  <2>4. /\ DOMAIN list = 1..(n - 1)
        /\ \A i \in DOMAIN list :
              /\ list[i].from = i /\ ~list[i].plain /\ list[i].st.limit = 0
              /\ list[i].st.start_key = first_greater_or_equal(points[i])
              /\ list[i].st.end_key = first_greater_or_equal(points[i + 1])
    BY <2>1, <2>3, SplitEntries
  <2>5. I!Distinct
    BY <2>4 DEF I!Distinct
  <2>6. ASSUME NEW i \in 1..(n - 1)
        PROVE  /\ i \in DOMAIN points /\ i + 1 \in DOMAIN points
               /\ points[i] \in Nat /\ points[i + 1] \in Nat
               /\ acc[i].keys = {k \in db : points[i] <= k /\ k < points[i + 1]}
    <3>1. i \in DOMAIN points /\ i + 1 \in DOMAIN points
      BY <2>3
    <3>2. points[i] \in Nat /\ points[i + 1] \in Nat
      BY <2>2, <3>1
    <3>3. CompleteOf(db, list[i], acc[i]) /\ i \in DOMAIN list
      BY <2>4, <2>5, ReturnedComplete
    <3>4. acc[i].keys = RowsOf(first_greater_or_equal(points[i]),
                               first_greater_or_equal(points[i + 1]), db)
      BY <2>4, <3>3 DEF CompleteOf
    <3>5. PICK a, b : a = points[i] /\ b = points[i + 1]
      OBVIOUS
    <3>6. acc[i].keys = {k \in db : a <= k /\ k < b}
      BY <2>1, <3>2, <3>4, <3>5, RowsBetween
    <3> QED
      BY <3>1, <3>2, <3>5, <3>6
  <2>7. /\ 1 \in DOMAIN points /\ n \in DOMAIN points /\ points[1] \in Nat /\ points[n] \in Nat
        /\ \A k \in db : k \in Nat
    BY <2>1, <2>2, <2>3 DEF Keys
  <2>8. I!RowsOf(I!first_greater_or_equal(points[1]),
                 I!first_greater_or_equal(points[Len(points)]), db)
          = {k \in db : points[1] <= k /\ k < points[n]}
    <3>1. PICK a, b : a = points[1] /\ b = points[n]
      OBVIOUS
    <3>2. RowsOf(first_greater_or_equal(a), first_greater_or_equal(b), db)
            = {k \in db : a <= k /\ k < b}
      BY <2>1, <2>7, <3>1, RowsBetween
    <3> QED
      BY <2>3, <3>1, <3>2, SameRows
  <2>9. ASSUME NEW i \in 1..(n - 1), NEW k \in acc[i].keys
        PROVE  k \in {l \in db : points[1] <= l /\ l < points[n]}
    <3>1. k \in db /\ points[i] <= k /\ k < points[i + 1]
      BY <2>6, <2>9
    <3>2. 1 <= i /\ i + 1 <= n
      BY <2>3
    <3>3. points[1] <= points[i] /\ points[i + 1] <= points[n]
      BY <2>2, <2>6, <2>7, <3>2
    <3> QED
      BY <2>6, <2>7, <3>1, <3>3
  <2>10. ASSUME NEW k \in db, points[1] <= k, k < points[n]
         PROVE  \E i \in 1..(n - 1) : k \in acc[i].keys
    <3>1. PICK i \in 1..(n - 1) : points[i] <= k /\ k < points[i + 1]
      BY <2>2, <2>3, <2>7, <2>10, InSomePart
    <3> QED
      BY <2>6, <3>1
  <2>11. ASSUME NEW i \in 1..(n - 1), NEW j \in 1..(n - 1), i < j,
                NEW k \in acc[i].keys, NEW l \in acc[j].keys
         PROVE  k < l
    <3>1. i + 1 <= j
      BY <2>11
    <3>2. points[i + 1] <= points[j] /\ k < points[i + 1] /\ points[j] <= l
      BY <2>2, <2>6, <2>11, <3>1
    <3>3. k \in Nat /\ l \in Nat /\ points[i + 1] \in Nat /\ points[j] \in Nat
      BY <2>6, <2>7, <2>11
    <3> QED
      BY <3>2, <3>3
  <2>12. UNION {acc[i].keys : i \in DOMAIN acc} = {k \in db : points[1] <= k /\ k < points[n]}
    <3>1. DOMAIN acc = 1..(n - 1)
      BY <2>1, <2>4
    <3> QED
      BY <2>9, <2>10, <3>1
  <2> QED
    BY <2>1, <2>4, <2>8, <2>11, <2>12
<1> QED
  BY <1>1, ReadInvariance, PTL DEF SplitExact

=============================================================================
