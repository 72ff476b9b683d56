----------------------------- MODULE Interleaving -----------------------------
(***************************************************************************)
(* wait_for_all_interleaving/3 of src/erlfdb.erl, and get_range/4 with     *)
(* {wait, interleaving}, which splits a range and waits for its parts.     *)
(*                                                                         *)
(* The call is given a list of range futures, plain futures and values.    *)
(* It works in rounds: it waits for the page of every entry that is left,  *)
(* in order, adds it to the result at the entry's index, and then asks for *)
(* the next pages together.  An entry is known by the first future of its  *)
(* range read (from).                                                      *)
(***************************************************************************)
EXTENDS Paging, Sequences

CONSTANTS Lists,      \* the lists of futures that a call may be given
          Splits      \* the split points that a range may have

VARIABLES
    db,        \* the keys that the transaction sees
    list,      \* the argument
    points,    \* the split points, if it comes from get_range
    pc,
    sts,       \* the entries that are left, with their index
    ffs,       \* the entries and pages of this round still to be waited for
    acc        \* per index: the keys, how many rows that were, and the value
               \* of a plain future

vars == <<db, list, points, pc, sts, ffs, acc>>

\* Mutant: the last range is lost.
list_to_ranges_short(keys) ==
    [i \in 1..(Len(keys) - 2) |-> <<keys[i], keys[i + 1]>>]

list_to_ranges(keys) ==
    [i \in 1..(Len(keys) - 1) |-> <<keys[i], keys[i + 1]>>]

\* The futures of get_range: one for each range between split points.
SplitList(keys) ==
    LET ranges == list_to_ranges(keys)
    IN [i \in DOMAIN ranges |->
           RangeFuture(i, first_greater_or_equal(ranges[i][1]),
                       first_greater_or_equal(ranges[i][2]), 0, FALSE)]

Init ==
    /\ db \in SUBSET Keys
    /\ \/ list \in Lists /\ points = <<>>
       \/ \E keys \in Splits : list = SplitList(keys) /\ points = keys
    /\ pc = "idle" /\ sts = <<>> /\ ffs = <<>>
    /\ acc = [i \in DOMAIN list |-> [keys |-> {}, rows |-> 0, value |-> 0]]

\* The pages that may come in for a list of entries.
WithPages(entries) ==
    LET pages == [i \in DOMAIN entries |->
                     IF entries[i].plain THEN {[rows |-> {}, more |-> FALSE]}
                     ELSE Pages(entries[i].st, entries[i].reverse, db)]
    IN {f \in [DOMAIN entries -> UNION {pages[i] : i \in DOMAIN entries}] :
           \A i \in DOMAIN entries : f[i] \in pages[i]}

\* Every entry is tagged with its index.  Entries with one future share what
\* it returns.
wait_for_all_interleaving ==
    /\ pc = "idle"
    /\ LET tagged == [i \in DOMAIN list |-> [e |-> list[i], idx |-> i]]
       IN /\ sts' = tagged
          /\ \E pages \in WithPages(list) :
                /\ \A i, j \in DOMAIN list :
                       list[i].from = list[j].from => pages[i] = pages[j]
                /\ ffs' = [i \in DOMAIN list |-> [s |-> tagged[i], page |-> pages[i]]]
    /\ pc' = "wait"
    /\ UNCHANGED <<db, list, points, acc>>

\* lists:keyfind, keyreplace and keytake on the field from.
KeyPos(from, entries) ==
    CHOOSE i \in DOMAIN entries :
        entries[i].e.from = from /\ \A j \in 1..(i - 1) : entries[j].e.from # from

keyfind(from, entries) == entries[KeyPos(from, entries)]

keyreplace(from, entries, new) == [entries EXCEPT ![KeyPos(from, entries)] = new]

keydelete(from, entries) ==
    LET p == KeyPos(from, entries)
    IN SubSeq(entries, 1, p - 1) \o SubSeq(entries, p + 1, Len(entries))

\* Fun: the rows are added at the index, or the value is stored there.
Accumulate(idx, rows, value) ==
    acc' = [acc EXCEPT ![idx] =
               [keys |-> @.keys \cup rows, rows |-> @.rows + Cardinality(rows),
                value |-> IF value # 0 THEN value ELSE @.value]]

\* Mutant: an entry that goes on asks for its first page again.
apply_more_again ==
    LET ff == Head(ffs)
        e  == ff.s.e
    IN /\ pc = "wait" /\ ffs # <<>>
       /\ ~e.plain /\ Recurse(e.st, ff.page)
       /\ Accumulate(keyfind(e.from, sts).idx, Rows(e.st, e.reverse, ff.page), 0)
       /\ ffs' = Tail(ffs)
       /\ UNCHANGED <<db, list, points, pc, sts>>

\* A page with more to come: the entry goes on at the next page.
apply_more ==
    LET ff  == Head(ffs)
        e   == ff.s.e
        new == [e |-> [e EXCEPT !.st = NextSt(e.st, e.reverse, ff.page)], idx |-> ff.s.idx]
    IN /\ pc = "wait" /\ ffs # <<>>
       /\ ~e.plain /\ Recurse(e.st, ff.page)
       /\ sts' = keyreplace(e.from, sts, new)
       /\ Accumulate(keyfind(e.from, sts').idx, Rows(e.st, e.reverse, ff.page), 0)
       /\ ffs' = Tail(ffs)
       /\ UNCHANGED <<db, list, points, pc>>

\* The last page, or the result of a plain future: the entry is done.
apply_done ==
    LET ff == Head(ffs)
        e  == ff.s.e
    IN /\ pc = "wait" /\ ffs # <<>>
       /\ e.plain \/ ~Recurse(e.st, ff.page)
       /\ sts' = keydelete(e.from, sts)
       /\ Accumulate(keyfind(e.from, sts).idx,
                     IF e.plain THEN {} ELSE Rows(e.st, e.reverse, ff.page),
                     IF e.plain THEN e.from ELSE 0)
       /\ ffs' = Tail(ffs)
       /\ UNCHANGED <<db, list, points, pc>>

\* Mutant: the next round leaves out the first entry.
fold_interleaving_and_wait_tail ==
    /\ pc = "wait" /\ ffs = <<>>
    /\ \/ /\ sts # <<>>
          /\ LET left == [i \in 1..(Len(sts) - 1) |-> sts[i + 1]]
                 es   == [i \in DOMAIN left |-> left[i].e]
             IN \E pages \in WithPages(es) :
                    ffs' = [i \in DOMAIN left |-> [s |-> left[i], page |-> pages[i]]]
          /\ UNCHANGED pc
       \/ /\ sts = <<>>
          /\ pc' = "returned" /\ UNCHANGED ffs
    /\ UNCHANGED <<db, list, points, sts, acc>>

\* The round is over: the next pages are asked for, or the call returns.
fold_interleaving_and_wait ==
    /\ pc = "wait" /\ ffs = <<>>
    /\ \/ /\ sts # <<>>
          /\ LET left == [i \in DOMAIN sts |-> sts[i].e]
             IN \E pages \in WithPages(left) :
                    ffs' = [i \in DOMAIN sts |-> [s |-> sts[i], page |-> pages[i]]]
          /\ UNCHANGED pc
       \/ /\ sts = <<>>
          /\ pc' = "returned" /\ UNCHANGED ffs
    /\ UNCHANGED <<db, list, points, sts, acc>>

\* A wait raises, and with it the whole call.
wait_raises ==
    /\ pc = "wait" /\ ffs # <<>>
    /\ pc' = "raised"
    /\ UNCHANGED <<db, list, points, sts, ffs, acc>>

Step == \/ wait_for_all_interleaving \/ apply_more \/ apply_done
        \/ fold_interleaving_and_wait

Next == Step \/ wait_raises

Spec == Init /\ [][Next]_vars /\ WF_vars(Step)

-----------------------------------------------------------------------------
(* Properties *)

TypeOK ==
    /\ db \subseteq Keys
    /\ pc \in {"idle", "wait", "returned", "raised"}
    /\ \A i \in DOMAIN sts :
           sts[i].idx \in DOMAIN list /\ sts[i].e.from = list[sts[i].idx].from
    /\ \A i \in DOMAIN acc : acc[i].keys \subseteq Keys /\ acc[i].rows \in Nat

\* The rows that the range read of an entry should return.
Wanted(e) ==
    LET rows == RowsOf(e.st.start_key, e.st.end_key, db)
    IN IF e.st.limit = 0 THEN rows ELSE First(e.st.limit, e.reverse, rows)

\* Index i holds the rows of its own range, or the value of its plain future.
Complete(i) ==
    IF list[i].plain
    THEN acc[i] = [keys |-> {}, rows |-> 0, value |-> list[i].from]
    ELSE /\ acc[i].keys = Wanted(list[i])
         /\ acc[i].rows = Cardinality(acc[i].keys)

\* "The order of the results is guaranteed to match the order of the
\* futures": when the call returns, each index holds the rows of its own
\* range, all of them and each once, or the value of its plain future,
\* however many rounds the other entries took.
ResultsMatch ==
    /\ TypeOK
    /\ pc = "returned" => \A i \in DOMAIN list : Complete(i)

\* get_range/4 with {wait, interleaving} returns the rows of the whole range,
\* in order, each once: the parts leave no gap and do not overlap.
SplitExact ==
    (pc = "returned" /\ points # <<>>) =>
        LET parts == DOMAIN acc
            whole == RowsOf(first_greater_or_equal(points[1]),
                            first_greater_or_equal(points[Len(points)]), db)
        IN /\ UNION {acc[i].keys : i \in parts} = whole
           /\ \A i, j \in parts : i < j =>
                  \A k \in acc[i].keys, l \in acc[j].keys : k < l

\* The call returns or raises: every round moves every entry that is left.
Returns == pc = "wait" ~> pc \in {"returned", "raised"}

-----------------------------------------------------------------------------
(* The inductive invariant *)

\* No future is in the list twice, so that from tells the entries apart.
Distinct == \A i, j \in DOMAIN list : list[i].from = list[j].from => i = j

\* The call's argument, and where it comes from.
ListInv ==
    /\ db \in SUBSET Keys /\ list \in Seq(Entries)
    /\ points # <<>> => points \in Splits /\ list = SplitList(points)
    /\ DOMAIN acc = DOMAIN list
    /\ pc \in {"idle", "wait", "returned", "raised"}

Tagged == [e : Entries, idx : Nat]

\* Each entry that is left is one of the list, gone on by some pages, and no
\* two are the same one.
EntryInv ==
    /\ sts \in Seq(Tagged)
    /\ \A p \in DOMAIN sts :
          LET s == sts[p]
          IN /\ s.idx \in DOMAIN list
             /\ s.e.from = list[s.idx].from /\ s.e.plain = list[s.idx].plain
             /\ s.e.reverse = list[s.idx].reverse
    /\ \A p, q \in DOMAIN sts : sts[p].idx = sts[q].idx => p = q

\* Each page of the round belongs to an entry that is left, as it is.
PageInv ==
    /\ ffs \in Seq([s : Tagged, page : [rows : SUBSET Keys, more : BOOLEAN]])
    /\ \A p \in DOMAIN ffs :
          /\ \E q \in DOMAIN sts : ffs[p].s = sts[q]
          /\ ~ffs[p].s.e.plain =>
                ffs[p].page \in Pages(ffs[p].s.e.st, ffs[p].s.e.reverse, db)
    /\ \A p, q \in DOMAIN ffs : ffs[p].s.idx = ffs[q].s.idx => p = q

\* The entry s goes on where the rows at its index end: they are the first of
\* its range, and its state finds the others.
Partial(s) ==
    LET e    == list[s.idx]
        keys == acc[s.idx].keys
        all  == RowsOf(e.st.start_key, e.st.end_key, db)
    IN /\ acc[s.idx] = [keys |-> keys, rows |-> Cardinality(keys), value |-> 0]
       /\ e.plain => keys = {}
       /\ ~e.plain =>
             /\ FirstOf(e.reverse, keys, all)
             /\ RowsOf(s.e.st.start_key, s.e.st.end_key, db) = all \ keys
             /\ s.e.st.limit = 0 <=> e.st.limit = 0
             /\ e.st.limit # 0 => Cardinality(keys) + s.e.st.limit = e.st.limit

\* Every index has its entry still, or is complete.
ResultInv ==
    /\ pc = "idle" =>
          /\ sts = <<>> /\ ffs = <<>>
          /\ \A i \in DOMAIN list : acc[i] = [keys |-> {}, rows |-> 0, value |-> 0]
    /\ pc # "idle" =>
          /\ \A p \in DOMAIN sts : Partial(sts[p])
          /\ \A i \in DOMAIN list : (\A p \in DOMAIN sts : sts[p].idx # i) => Complete(i)
    /\ pc = "returned" => sts = <<>>

IInv == ListInv /\ (Distinct => EntryInv /\ PageInv /\ ResultInv)

=============================================================================
