-------------------------------- MODULE Paging --------------------------------
(***************************************************************************)
(* Range reads in pages: key selectors (src/erlfdb_key.erl and             *)
(* erlfdb_get_key_selector in c_src/util.c), what FoundationDB answers to  *)
(* a range read, and how the range fold and the range iterator of erlfdb   *)
(* go from one page to the next.                                           *)
(*                                                                         *)
(* Keys are numbers, and a page is the set of its keys: the library orders *)
(* the rows of a page, ascending or, in reverse, descending.               *)
(***************************************************************************)
EXTENDS Naturals, FiniteSets

CONSTANT MaxKey       \* bound: the largest key

ASSUME PagingAssumption == MaxKey \in Nat

Keys == 1..MaxKey

-----------------------------------------------------------------------------
(* Key selectors *)

\* {Key, lt}, {Key, lteq}, {Key, gt}, {Key, gteq}, and with an offset added.
last_less_than(k)         == [key |-> k, op |-> "lt", add |-> 0]
last_less_or_equal(k)     == [key |-> k, op |-> "lteq", add |-> 0]
first_greater_than(k)     == [key |-> k, op |-> "gt", add |-> 0]
first_greater_or_equal(k) == [key |-> k, op |-> "gteq", add |-> 0]

Selectors == [key : Nat, op : {"lt", "lteq", "gt", "gteq"}, add : Nat]

\* erlfdb_get_key_selector: or_equal and offset.
or_equal(sel) == sel.op \in {"lteq", "gt"}

offset(sel) == (IF sel.op \in {"gt", "gteq"} THEN 1 ELSE 0) + sel.add

\* FoundationDB resolves a selector to the last key below key (or equal to
\* it), offset keys further: the keys of db from there on.
Below(sel, db) == {k \in db : k < sel.key \/ (or_equal(sel) /\ k = sel.key)}

From(sel, db) ==
    {k \in db : Cardinality({j \in db : j <= k}) >=
                    Cardinality(Below(sel, db)) + offset(sel)}

-----------------------------------------------------------------------------
(* Range reads *)

\* The rows that a range read from begin to end finds.
RowsOf(begin, end, db) == From(begin, db) \ From(end, db)

\* j comes before k in a read's order.
Before(reverse, j, k) == IF reverse THEN k < j ELSE j < k

\* P are the first of the rows S in the order of a read.
FirstOf(rev, P, S) ==
    P \subseteq S /\ \A k \in P, j \in S : Before(rev, j, k) => j \in P

\* The first n rows.
First(n, reverse, rows) ==
    {k \in rows : Cardinality({j \in rows : Before(reverse, j, k)}) < n}

\* What transaction_get_range may answer: some of the first rows, at least
\* one if there is any and at most limit, and whether there are more.  When
\* none is left it may still say so.
Pages(st, reverse, db) ==
    LET rows == RowsOf(st.start_key, st.end_key, db)
        some == {First(n, reverse, rows) : n \in
                    {m \in 1..MaxKey : st.limit = 0 \/ m <= st.limit}}
    IN {p \in [rows : some, more : BOOLEAN] : p.rows # rows => p.more}

\* The state of a fold or an iterator: options_to_fold_st/3, new_state/4.
St(start, end, limit) == [start_key |-> start, end_key |-> end, limit |-> limit]

Sts == [start_key : Selectors, end_key : Selectors, limit : Nat]

\* A range read that is known by its first future, from, and a future or a
\* value that is no range read.
RangeFuture(from, start, end, limit, reverse) ==
    [from |-> from, plain |-> FALSE, st |-> St(start, end, limit), reverse |-> reverse]

PlainFuture(from) ==
    [from |-> from, plain |-> TRUE, reverse |-> FALSE,
     st |-> St(first_greater_than(0), first_greater_than(0), 0)]

Entries == [from : Nat, plain : BOOLEAN, st : Sts, reverse : BOOLEAN]

\* Mutant: only an unlimited read goes on.
Recurse_unlimited(st, page) == page.rows # {} /\ st.limit = 0 /\ page.more

\* Are there more rows to iterate?
Recurse(st, page) ==
    LET count == Cardinality(page.rows)
    IN page.rows # {} /\ (st.limit = 0 \/ st.limit > count) /\ page.more

\* The rows, truncated to the limit.
Rows(st, reverse, page) ==
    IF st.limit = 0 \/ st.limit > Cardinality(page.rows) THEN page.rows
    ELSE First(st.limit, reverse, page.rows)

\* The last row in the order of the read.
get_last_key(reverse, rows) ==
    CHOOSE k \in rows : \A j \in rows : j = k \/ Before(reverse, j, k)

\* Mutant: the next page in reverse ends with the last key.
NextSt_inclusive(st, reverse, page) ==
    LET last  == get_last_key(reverse, page.rows)
        limit == IF st.limit = 0 THEN 0 ELSE st.limit - Cardinality(page.rows)
    IN IF reverse
       THEN St(st.start_key, first_greater_than(last), limit)
       ELSE St(first_greater_than(last), st.end_key, limit)

\* Mutant: reverse reads go on like forward ones.
NextSt_forward(st, reverse, page) ==
    LET last  == get_last_key(reverse, page.rows)
        limit == IF st.limit = 0 THEN 0 ELSE st.limit - Cardinality(page.rows)
    IN St(first_greater_than(last), st.end_key, limit)

\* The next page starts after the last row, or ends before it in reverse.
NextSt(st, reverse, page) ==
    LET last  == get_last_key(reverse, page.rows)
        count == Cardinality(page.rows)
        limit == IF st.limit = 0 THEN 0 ELSE st.limit - count
    IN IF reverse
       THEN St(st.start_key, first_greater_or_equal(last), limit)
       ELSE St(first_greater_than(last), st.end_key, limit)

=============================================================================
