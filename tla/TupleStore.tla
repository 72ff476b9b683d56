------------------------------ MODULE TupleStore ------------------------------
(***************************************************************************)
(* A client that keeps tuples in the database as packed keys and removes   *)
(* them by ranges: what the tuple layer promises, seen from the database.  *)
(* The variable tuples says which tuples the client means to have there.   *)
(***************************************************************************)
EXTENDS Tuple

CONSTANTS Tuples,         \* the tuples that are stored
          Stamped,        \* tuples that may have an incomplete versionstamp
          Stamps,         \* the versionstamps that the database gives
          KeyPrefixes,    \* the prefixes of ranges of keys
          MaxKeys         \* bound: how many keys are stored

\* encode/2 raises for anything else, and strinc/1 for a prefix of largest
\* bytes only.
ASSUME TupleStoreAssumption ==
    /\ Tuples \subseteq Seq(Elems) /\ Stamped \subseteq Seq(Elems)
    /\ Stamps \subseteq [1..StampLen -> Bytes]
    /\ KeyPrefixes \subseteq {p \in Seq(Bytes) : \E i \in DOMAIN p : p[i] # ESCAPE}
    /\ MaxKeys \in Nat

VARIABLES keys, tuples

vars == <<keys, tuples>>

TypeOK ==
    /\ keys \subseteq Seq(Bytes)
    /\ Cardinality(keys) <= MaxKeys

Init == keys = {} /\ tuples = {}

Insert(key, tuple) ==
    /\ Cardinality(keys \cup {key}) <= MaxKeys
    /\ keys' = keys \cup {key}
    /\ tuples' = tuples \cup {tuple}

\* set/3 with a packed key.
set(tuple) == Insert(pack(tuple), tuple)

\* An element with the stamp in the place of the incomplete one.
complete_elem(elem, stamp, complete) ==
    CASE Incomplete(elem) ->
             <<elem[1], stamp \o SubSeq(elem[2], StampLen + 1, Len(elem[2]))>>
      [] elem[1] = "tuple" ->
             <<"tuple", [i \in DOMAIN elem[2] |-> complete[elem[2][i]][stamp]]>>
      [] OTHER -> elem

Completed[elem \in Elems] == [stamp \in Stamps |-> complete_elem(elem, stamp, Completed)]

\* set_versionstamped_key/3: the database writes the stamp at the position
\* at the end of the key (the position counts from 0).
set_versionstamped_key(tuple, stamp) ==
    /\ ~pack_vs_raises(tuple)
    /\ LET vs == pack_vs(tuple)
       IN Insert([i \in DOMAIN vs.key |->
                     IF i - vs.pos \in 1..StampLen THEN stamp[i - vs.pos] ELSE vs.key[i]],
                 [i \in DOMAIN tuple |-> Completed[tuple[i]][stamp]])

Between(start, end) == {k \in keys : ~Less(k, start) /\ Less(k, end)}

\* clear_range/3 of erlfdb_subspace:range/2: all longer tuples.
clear_range(tuple) ==
    LET r == range(tuple)
    IN /\ keys' = keys \ Between(r.start, r.end)
       /\ tuples' = {t \in tuples : ~IsStrictPrefix(tuple, t)}

\* clear_range_startswith/2: all keys with a prefix.
clear_range_startswith(prefix) ==
    /\ keys' = keys \ Between(prefix, strinc(prefix))
    /\ tuples' = {t \in tuples : ~IsPrefix(prefix, pack(t))}

Next ==
    \/ \E t \in Tuples : set(t) \/ clear_range(t)
    \/ \E t \in Stamped, s \in Stamps : set_versionstamped_key(t, s)
    \/ \E p \in KeyPrefixes : clear_range_startswith(p)

Spec == Init /\ [][Next]_vars

-----------------------------------------------------------------------------
(* Properties *)

\* The keys are exactly the tuples: what is packed is unpacked to the same
\* tuple, a versionstamp is filled in where it belongs, a range holds the
\* longer tuples and no others, and the range up to strinc/1 the keys with
\* the prefix.
KeysAreTuples == TypeOK /\ {unpack(k) : k \in keys} = tuples

\* The order of the keys is the order of compare/2.
OrderKept ==
    \A s, t \in tuples :
        compare(s, t) = Sign(Less(pack(s), pack(t)), Less(pack(t), pack(s)))

=============================================================================
