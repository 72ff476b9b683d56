----------------------------- MODULE MCReadCalls -----------------------------
(* ReadCalls with four keys, a few kinds of bounds and short lists, for TLC. *)
EXTENDS ReadCalls

MCBounds ==
    {first_greater_or_equal(1), first_greater_than(3),
     first_greater_than(MaxKey), last_less_or_equal(3),
     [key |-> 2, op |-> "lt", add |-> 2]}

\* Range reads of different lengths and directions with a plain future
\* between them.
MCLists ==
    {<<RangeFuture(1, first_greater_or_equal(1), first_greater_than(MaxKey), l, r),
       PlainFuture(2),
       RangeFuture(3, first_greater_than(1), first_greater_or_equal(MaxKey), m, FALSE)>> :
        l \in {0, 2}, m \in {0, 1}, r \in BOOLEAN}

MCSplits == {<<1, MaxKey + 1>>, <<1, 2, MaxKey + 1>>, <<1, 2, 4>>, <<2, 3, MaxKey>>}

=============================================================================
