------------------------------ MODULE RangeFold ------------------------------
(***************************************************************************)
(* One range read of many pages in a transaction: fold_range/6,            *)
(* fold_range_future/4 with fold_range_wait/5, and get_range/4 of          *)
(* src/erlfdb.erl (mode "fold"), and the iterator of                       *)
(* src/erlfdb_range_iterator.erl (mode "iterator").                        *)
(*                                                                         *)
(* The fold calls the user's function with a page and then asks for the    *)
(* next one; the iterator asks for the next page before it returns one.    *)
(* The user writes keys of the range meanwhile, in the same transaction,   *)
(* whose reads see its writes made before the read was issued.             *)
(***************************************************************************)
EXTENDS Paging

CONSTANTS Bounds,       \* the selectors that a range may start or end with
          MaxLimit,     \* bound: the largest limit
          MaxWrites     \* bound: how many keys the user writes

ASSUME RangeFoldAssumption ==
    Bounds \subseteq Selectors /\ MaxLimit \in Nat /\ MaxWrites \in Nat

VARIABLES
    mode, reverse,          \* fixed when the read starts
    start, end, limit,      \* the arguments of the call
    db,                     \* the keys that the transaction sees
    written,                \* the keys that the user has written meanwhile
    st,                     \* the fold_st or the iterator's state
    fut,                    \* the page that was asked for, or NoPage
    out,                    \* the keys that the user was given
    given,                  \* how many rows that were
    pc

argVars == <<mode, reverse, start, end, limit>>
vars    == <<argVars, db, written, st, fut, out, given, pc>>

NoPage == [rows |-> {}, more |-> FALSE, none |-> TRUE]

Asked(page) == [rows |-> page.rows, more |-> page.more, none |-> FALSE]

TypeOK ==
    /\ mode \in {"fold", "iterator"} /\ reverse \in BOOLEAN
    /\ start \in Bounds /\ end \in Bounds /\ limit \in 0..MaxLimit
    /\ db \subseteq Keys /\ written \subseteq Keys
    /\ st \in [start_key : Selectors, end_key : Selectors, limit : 0..MaxLimit]
    /\ fut \in [rows : SUBSET Keys, more : BOOLEAN, none : BOOLEAN]
    /\ out \subseteq Keys /\ given \in Nat
    /\ pc \in {"idle", "wait", "fun", "done", "stopped", "raised"}

Init ==
    /\ mode \in {"fold", "iterator"} /\ reverse \in BOOLEAN
    /\ start \in Bounds /\ end \in Bounds /\ limit \in 0..MaxLimit
    /\ db \in SUBSET Keys /\ written = {}
    /\ st = St(start, end, limit) /\ fut = NoPage
    /\ out = {} /\ given = 0 /\ pc = "idle"

\* The next get_range or get_mapped_range is issued with the state s.
SendGetRange(s) ==
    /\ st' = s
    /\ \E page \in Pages(s, reverse, db) : fut' = Asked(page)

\* fold_range_future, the start of fold_range, or the iterator's start/4.
begin ==
    /\ pc = "idle"
    /\ SendGetRange(st)
    /\ pc' = "wait"
    /\ UNCHANGED <<argVars, db, written, out, given>>

\* Rows are handed to the user.
Give(rows) ==
    /\ out' = out \cup rows
    /\ given' = given + Cardinality(rows)

\* wait_and_apply/5: the page is there.  The fold calls the user's function
\* with its rows and is done, or will ask for the next page.
fold_result ==
    /\ mode = "fold" /\ pc = "wait"
    /\ Give(Rows(st, reverse, fut))
    /\ \/ /\ Recurse(st, fut)
          /\ st' = NextSt(st, reverse, fut) /\ pc' = "fun"
       \/ /\ ~Recurse(st, fut)
          /\ pc' = "done" /\ UNCHANGED st
    /\ fut' = NoPage
    /\ UNCHANGED <<argVars, db, written>>

\* The user's function returned: fold_interleaving_and_wait asks for more.
fold_next ==
    /\ pc = "fun"
    /\ SendGetRange(st)
    /\ pc' = "wait"
    /\ UNCHANGED <<argVars, db, written, out, given>>

\* Mutant: after an empty page the iterator asks again.
handle_next_empty ==
    /\ mode = "iterator" /\ pc = "wait"
    /\ Give(Rows(st, reverse, fut))
    /\ \/ /\ Recurse(st, fut)
          /\ SendGetRange(NextSt(st, reverse, fut))
          /\ UNCHANGED pc
       \/ /\ fut.rows = {}
          /\ SendGetRange(st)
          /\ UNCHANGED pc
       \/ /\ ~Recurse(st, fut) /\ fut.rows # {}
          /\ pc' = "done" /\ fut' = NoPage /\ UNCHANGED st
    /\ UNCHANGED <<argVars, db, written>>

\* handle_next/1 and handle_result/2: the next page is asked for before the
\* rows of this one are returned.
handle_next ==
    /\ mode = "iterator" /\ pc = "wait"
    /\ Give(Rows(st, reverse, fut))
    /\ \/ /\ Recurse(st, fut)
          /\ SendGetRange(NextSt(st, reverse, fut))
          /\ UNCHANGED pc
       \/ /\ ~Recurse(st, fut)
          /\ pc' = "done" /\ fut' = NoPage /\ UNCHANGED st
    /\ UNCHANGED <<argVars, db, written>>

\* handle_stop/1 cancels the future that is left.
handle_stop ==
    /\ mode = "iterator" /\ pc \in {"wait", "done"}
    /\ fut' = NoPage
    /\ pc' = "stopped"
    /\ UNCHANGED <<argVars, db, written, st, out, given>>

\* The wait raises an erlfdb_error, and with it the whole call.
wait_raises ==
    /\ pc = "wait"
    /\ pc' = "raised"
    /\ UNCHANGED <<argVars, db, written, st, fut, out, given>>

\* The user sets or clears a key between the calls or in the fold's function.
write(k) ==
    /\ pc \in {"wait", "fun"} /\ Cardinality(written \cup {k}) <= MaxWrites
    /\ db' \in {db \cup {k}, db \ {k}}
    /\ written' = written \cup {k}
    /\ UNCHANGED <<argVars, st, fut, out, given, pc>>

Read == begin \/ fold_result \/ fold_next \/ handle_next

Next == Read \/ handle_stop \/ wait_raises \/ \E k \in Keys : write(k)

Spec == Init /\ [][Next]_vars /\ WF_vars(Read)

-----------------------------------------------------------------------------
(* Properties *)

\* No row is returned twice: a page never starts again at the last key
\* (handle_fold_st_result/2 lines 2228-2235, next_state/3), whatever the
\* user writes meanwhile, and a limit bounds the rows of all pages together.
NoRowTwice ==
    /\ TypeOK
    /\ given = Cardinality(out)
    /\ limit # 0 => given <= limit

\* A selector that does not count keys: the first key after a key.
Plain(sel) == offset(sel) = 1

\* k is at or after the bound sel.
AtOrAfter(sel, k) == k > sel.key \/ (k = sel.key /\ ~or_equal(sel))

\* k is in the range of the call.
Within(k) == AtOrAfter(start, k) /\ ~AtOrAfter(end, k)

\* No row is skipped: when the call is done without having reached its
\* limit, every key of the range that the user did not write was returned,
\* however the range was cut into pages and whatever was written around it.
NoRowSkipped ==
    (pc = "done" /\ Plain(start) /\ Plain(end) /\ (limit = 0 \/ given < limit))
        => \A k \in db \ written : Within(k) => k \in out

\* Without writes the call returns exactly what one read of all rows would:
\* the first rows of the range up to the limit, for every kind of selector.
SameAsOneRead ==
    (pc = "done" /\ written = {}) =>
        LET rows == RowsOf(start, end, db)
        IN out = IF limit = 0 THEN rows ELSE First(limit, reverse, rows)

\* The paging ends, even while the user writes: every page moves on.
Ends == pc = "wait" ~> pc \in {"done", "stopped", "raised"}

-----------------------------------------------------------------------------
(* The inductive invariant *)

Going == pc \in {"idle", "wait", "fun"}

\* The state's limit is what is left of the call's, and a page keeps to it.
LimitInv ==
    /\ given = Cardinality(out)
    /\ limit # 0 => given <= limit
    /\ Going => /\ st.limit = 0 <=> limit = 0
                /\ limit # 0 => given + st.limit = limit
    /\ pc = "wait" /\ st.limit # 0 => Cardinality(fut.rows) <= st.limit

\* The state goes on behind all rows that were returned.
OrderInv ==
    Going =>
        /\ out # {} =>
              \E l \in Keys :
                  IF reverse
                  THEN st.end_key = first_greater_or_equal(l) /\ \A k \in out : l <= k
                  ELSE st.start_key = first_greater_than(l) /\ \A k \in out : k <= l
        /\ pc = "wait" => \A j \in out, k \in fut.rows : Before(reverse, j, k)

\* k is in the range that is left.
Left(k) == AtOrAfter(st.start_key, k) /\ ~AtOrAfter(st.end_key, k)

\* What was not returned and not written is in the range that is left: in the
\* page that was asked for, or behind it.
LeftInv ==
    Going /\ Plain(start) /\ Plain(end) =>
        /\ Plain(st.start_key) /\ Plain(st.end_key)
        /\ \A k \in db \ written :
              Within(k) =>
                  \/ k \in out
                  \/ /\ Left(k)
                     /\ pc = "wait" =>
                           \/ k \in fut.rows
                           \/ /\ fut.more /\ fut.rows # {}
                              /\ \A j \in fut.rows : Before(reverse, j, k)

\* Without writes, the rows returned are the first ones of the range, and the
\* page has the first ones of the others.
ExactInv ==
    Going /\ written = {} =>
        LET rows == RowsOf(start, end, db)
            left == RowsOf(st.start_key, st.end_key, db)
        IN /\ FirstOf(reverse, out, rows) /\ left = rows \ out
           /\ pc = "wait" => /\ FirstOf(reverse, fut.rows, left)
                             /\ fut.rows = {} => left = {}
                             /\ ~fut.more => fut.rows = left

IInv ==
    /\ TypeOK
    /\ LimitInv
    /\ OrderInv
    /\ LeftInv /\ NoRowSkipped
    /\ ExactInv /\ SameAsOneRead

=============================================================================
