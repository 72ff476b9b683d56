-------------------------------- MODULE Tuple --------------------------------
(***************************************************************************)
(* The tuple layer, src/erlfdb_tuple.erl, and strinc/1 of                  *)
(* src/erlfdb_key.erl: tuples are packed into keys whose byte order is the *)
(* order of the tuples.                                                    *)
(*                                                                         *)
(* The codes keep their order, and the integers their scheme: a code for   *)
(* each size up to MaxFixed (8 in the code), then a code and a size byte.  *)
(* A byte is 0..ESCAPE (255 in the code), so that a small ESCAPE and       *)
(* MaxFixed reach every case.  Floats are left out.                        *)
(*                                                                         *)
(* An element is a pair of its type and its value.  The values of uuid,    *)
(* id64 and the versionstamps are their bytes, of fixed length.            *)
(***************************************************************************)
EXTENDS Integers, Sequences, FiniteSets, SequencesExt

CONSTANTS MaxFixed,       \* the largest size of an integer with its own code
          StampLen,       \* the bytes that the database fills in: 10
          MaxDepth        \* bound: how deep tuples are nested

ASSUME TupleAssumption ==
    MaxFixed \in Nat \ {0} /\ StampLen \in Nat \ {0} /\ MaxDepth \in Nat

\* The codes, in the order of the code's, without those of the floats.
NULL   == 0
BYTES  == 1
UTF8   == 2
NESTED == 3
ZERO   == NESTED + MaxFixed + 2
NEG_INT_9P == ZERO - MaxFixed - 1
POS_INT_9P == ZERO + MaxFixed + 1
FALSE_ == POS_INT_9P + 1
TRUE_  == POS_INT_9P + 2
UUID   == POS_INT_9P + 3
ID64   == POS_INT_9P + 4
VS80   == POS_INT_9P + 5
VS96   == POS_INT_9P + 6
ESCAPE == POS_INT_9P + 7

Bytes == 0..ESCAPE

Base == ESCAPE + 1

\* The sizes of the types of fixed length.
FixedLen(code) ==
    CASE code = VS80 -> StampLen [] code = VS96 -> StampLen + 1 [] OTHER -> 2

Fixed == [uuid |-> UUID, id64 |-> ID64, vs80 |-> VS80, vs96 |-> VS96]

-----------------------------------------------------------------------------
(* Elements *)

\* binary:encode_unsigned/1, the number of some bytes, and 1 bsl (Size * 8).
encode_unsigned[n \in Nat] ==
    IF n < Base THEN <<n>> ELSE Append(encode_unsigned[n \div Base], n % Base)

Unsigned[bytes \in Seq(Bytes)] ==
    IF bytes = <<>> THEN 0 ELSE Unsigned[Front(bytes)] * Base + Last(bytes)

Power[n \in Nat] == IF n = 0 THEN 1 ELSE Base * Power[n - 1]

Abs(n) == IF n < 0 THEN -n ELSE n

\* encode/2 takes no integer whose size does not fit in a byte.
Ints == {n \in Int : Len(encode_unsigned[Abs(n)]) <= ESCAPE}

Flat ==
    {<<"null", 0>>} \cup ({"bool"} \X BOOLEAN) \cup ({"int"} \X Ints)
        \cup ({"bytes", "utf8"} \X Seq(Bytes))
        \cup UNION {{t} \X [1..FixedLen(Fixed[t]) -> Bytes] : t \in DOMAIN Fixed}

\* The elements with tuples that are nested up to n deep.
Nesting[n \in Nat] ==
    IF n = 0 THEN Flat ELSE Flat \cup ({"tuple"} \X Seq(Nesting[n - 1]))

Elems == Nesting[MaxDepth]

-----------------------------------------------------------------------------
(* encode/2 *)

\* bxor 16#FF.
Inverted(bytes) == [i \in DOMAIN bytes |-> ESCAPE - bytes[i]]

\* Mutant: the size of a long negative integer is not inverted.
NegSize_plain(n) == n

\* The size byte of a long negative integer, and back.
NegSize(n) == ESCAPE - n

encode_int(n) ==
    LET bin  == encode_unsigned[Abs(n)]
        size == Len(bin)
    IN CASE n = 0 -> <<ZERO>>
         [] n > 0 /\ size <= MaxFixed -> <<ZERO + size>> \o bin
         [] n > 0 /\ size > MaxFixed  -> <<POS_INT_9P, size>> \o bin
         [] n < 0 /\ size <= MaxFixed -> <<ZERO - size>> \o Inverted(bin)
         [] n < 0 /\ size > MaxFixed  -> <<NEG_INT_9P, NegSize(size)>> \o Inverted(bin)

\* Zero bytes are escaped, and the end is marked.
enc_null_terminated(bytes) ==
    FlattenSeq([i \in DOMAIN bytes |->
                   IF bytes[i] = NULL THEN <<NULL, ESCAPE>> ELSE <<bytes[i]>>])
        \o <<NULL>>

\* An element, with enc for those nested in it.
encode_elem(elem, depth, enc) ==
    LET v == elem[2]
    IN CASE elem[1] = "null"  -> IF depth = 0 THEN <<NULL>> ELSE <<NULL, ESCAPE>>
         [] elem[1] = "bool"  -> <<IF v THEN TRUE_ ELSE FALSE_>>
         [] elem[1] = "bytes" -> <<BYTES>> \o enc_null_terminated(v)
         [] elem[1] = "utf8"  -> <<UTF8>> \o enc_null_terminated(v)
         [] elem[1] = "int"   -> encode_int(v)
         [] elem[1] = "tuple" ->
                <<NESTED>> \o FlattenSeq([i \in DOMAIN v |-> enc[v[i]][depth + 1]])
                    \o <<NULL>>
         [] OTHER -> <<Fixed[elem[1]]>> \o v

encode[elem \in Elems] == [depth \in Nat |-> encode_elem(elem, depth, encode)]

encodes(tuple, depth) == FlattenSeq([i \in DOMAIN tuple |-> encode[tuple[i]][depth]])

pack(tuple) == encodes(tuple, 0)

-----------------------------------------------------------------------------
(* decode/2 *)

From(bytes, i) == SubSeq(bytes, i, Len(bytes))

\* dec_null_terminated/1: what is before the first zero byte that is not
\* escaped, and what is after it, with dec for what follows the first byte.
\* (It raises if there is none.)
null_terminated(bytes, dec) ==
    LET r == Tail(bytes)
        more(byte, d) == [bin |-> <<byte>> \o d.bin, rest |-> d.rest]
    IN CASE bytes = <<>> -> [bin |-> <<>>, rest |-> <<>>]
         [] bytes # <<>> /\ Head(bytes) # NULL -> more(Head(bytes), dec[r])
         [] bytes # <<>> /\ Head(bytes) = NULL /\ r # <<>> /\ Head(r) = ESCAPE ->
                more(NULL, dec[Tail(r)])
         [] OTHER -> [bin |-> <<>>, rest |-> r]

dec_null_terminated[bytes \in Seq(Bytes)] == null_terminated(bytes, dec_null_terminated)

\* The integer in size bytes, and what is left after it.
dec_neg_int(bytes, size) ==
    [elem |-> <<"int", Unsigned[SubSeq(bytes, 1, size)] - Power[size] + 1>>,
     rest |-> From(bytes, size + 1)]

dec_pos_int(bytes, size) ==
    [elem |-> <<"int", Unsigned[SubSeq(bytes, 1, size)]>>, rest |-> From(bytes, size + 1)]

\* The element that begins with code c and goes on with r, if it is not
\* nested, and what is left after it.  Zero has no bytes.
decode_elem(c, r) ==
    LET string(type) == [elem |-> <<type, dec_null_terminated[r].bin>>,
                         rest |-> dec_null_terminated[r].rest]
    IN CASE c = BYTES -> string("bytes")
         [] c = UTF8  -> string("utf8")
         [] c = NEG_INT_9P -> dec_neg_int(Tail(r), NegSize(Head(r)))
         [] c \in (NEG_INT_9P + 1)..(ZERO - 1) -> dec_neg_int(r, ZERO - c)
         [] c \in ZERO..(POS_INT_9P - 1) -> dec_pos_int(r, c - ZERO)
         [] c = POS_INT_9P -> dec_pos_int(Tail(r), Head(r))
         [] c \in {FALSE_, TRUE_} -> [elem |-> <<"bool", c = TRUE_>>, rest |-> r]
         [] OTHER ->
                [elem |-> <<CHOOSE t \in DOMAIN Fixed : Fixed[t] = c,
                            SubSeq(r, 1, FixedLen(c))>>,
                 rest |-> From(r, FixedLen(c) + 1)]

\* The elements up to the end, or up to the end of the nested tuple, with dec
\* for those after the first.
decode_elems(bytes, depth, dec) ==
    LET c == Head(bytes)
        r == Tail(bytes)
        more(elem, rest) ==
            [elems |-> <<elem>> \o dec[<<rest, depth>>].elems, rest |-> dec[<<rest, depth>>].rest]
        nested == dec[<<r, depth + 1>>]
    IN CASE bytes = <<>> -> [elems |-> <<>>, rest |-> <<>>]
         [] bytes # <<>> /\ c = NULL /\ depth = 0 -> more(<<"null", 0>>, r)
         [] bytes # <<>> /\ c = NULL /\ depth > 0 ->
                IF r # <<>> /\ Head(r) = ESCAPE THEN more(<<"null", 0>>, Tail(r))
                ELSE [elems |-> <<>>, rest |-> r]
         [] bytes # <<>> /\ c = NESTED -> more(<<"tuple", nested.elems>>, nested.rest)
         [] OTHER -> more(decode_elem(c, r).elem, decode_elem(c, r).rest)

\* The elements in at most n bytes.
decode[n \in Nat] == [p \in Seq(Bytes) \X Nat |->
    IF n = 0 THEN [elems |-> <<>>, rest |-> <<>>] ELSE decode_elems(p[1], p[2], decode[n - 1])]

unpack(bytes) == decode[Len(bytes)][<<bytes, 0>>].elems

-----------------------------------------------------------------------------
(* compare/2 *)

\* The order of keys.
Less(s, t) ==
    \/ IsStrictPrefix(s, t)
    \/ \E i \in DOMAIN s \cap DOMAIN t :
           SubSeq(s, 1, i - 1) = SubSeq(t, 1, i - 1) /\ s[i] < t[i]

Sign(less, greater) == IF less THEN -1 ELSE IF greater THEN 1 ELSE 0

code_for(elem) ==
    CASE elem[1] = "null"  -> NULL
      [] elem[1] = "bytes" -> BYTES
      [] elem[1] = "utf8"  -> UTF8
      [] elem[1] = "int"   -> ZERO
      [] elem[1] = "bool"  -> IF elem[2] THEN TRUE_ ELSE FALSE_
      [] elem[1] = "tuple" -> NESTED
      [] OTHER -> Fixed[elem[1]]

\* compare_impl/2: the first elements that differ decide, or the lengths.
compare_impl(s, t, elems) ==
    LET differ == {i \in DOMAIN s \cap DOMAIN t : elems[s[i]][t[i]] # 0}
    IN IF differ = {} THEN Sign(Len(s) < Len(t), Len(s) > Len(t))
       ELSE elems[s[Min(differ)]][t[Min(differ)]]

\* Two elements, with elems for those nested in them.
compare_elem(a, b, elems) ==
    CASE code_for(a) # code_for(b) ->
            Sign(code_for(a) < code_for(b), code_for(a) > code_for(b))
      [] code_for(a) = code_for(b) /\ a[1] = "tuple" -> compare_impl(a[2], b[2], elems)
      [] code_for(a) = code_for(b) /\ a[1] = "int" -> Sign(a[2] < b[2], a[2] > b[2])
      [] code_for(a) = code_for(b) /\ a[1] \in {"null", "bool"} -> 0
      [] OTHER -> Sign(Less(a[2], b[2]), Less(b[2], a[2]))

compare_elems[a \in Elems] == [b \in Elems |-> compare_elem(a, b, compare_elems)]

compare(s, t) == compare_impl(s, t, compare_elems)

-----------------------------------------------------------------------------
(* Ranges, versionstamps and strinc *)

\* range/1: the keys of all longer tuples that begin with tuple.
range(tuple) == [start |-> Append(pack(tuple), NULL),
                 end   |-> Append(pack(tuple), ESCAPE)]

Incomplete(elem) ==
    elem[1] \in {"vs80", "vs96"} /\ \A i \in 1..StampLen : elem[2][i] = ESCAPE

\* find_incomplete_versionstamp/2: the positions of all of them in the
\* encoding of a tuple, from those in the encodings of its elements.
Positions(tuple, depth, found) ==
    UNION {{Len(encodes(SubSeq(tuple, 1, i - 1), depth)) + p : p \in found[tuple[i]][depth]} :
              i \in DOMAIN tuple}

unset_elem(elem, depth, found) ==
    CASE Incomplete(elem) -> {1}
      [] elem[1] = "tuple" -> {p + 1 : p \in Positions(elem[2], depth + 1, found)}
      [] OTHER -> {}

Unset[elem \in Elems] == [depth \in Nat |-> unset_elem(elem, depth, Unset)]

find_incomplete_versionstamp(tuple) == Positions(tuple, 0, Unset)

\* pack_vs/1 raises unless there is exactly one.
pack_vs_raises(tuple) == Cardinality(find_incomplete_versionstamp(tuple)) # 1

pack_vs(tuple) ==
    [key |-> pack(tuple),
     pos |-> CHOOSE p \in find_incomplete_versionstamp(tuple) : TRUE]

\* rstrip_ff/1.
rstrip_ff(key) ==
    SubSeq(key, 1, CHOOSE n \in DOMAIN key :
                       key[n] # ESCAPE /\ \A m \in (n + 1)..Len(key) : key[m] = ESCAPE)

\* Mutant: the trailing bytes that cannot be increased are kept.
strinc_unstripped(key) ==
    LET p == rstrip_ff(key) IN [key EXCEPT ![Len(p)] = @ + 1]

\* The first key after all keys that begin with key.
strinc(key) ==
    LET p == rstrip_ff(key) IN [p EXCEPT ![Len(p)] = @ + 1]

=============================================================================
