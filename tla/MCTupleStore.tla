----------------------------- MODULE MCTupleStore -----------------------------
(* TupleStore with the boundaries of every encoding, for TLC. *)
EXTENDS TupleStore

\* Integers around every change of size, up to four bytes.
Powers == {Base, Base * Base, Base * Base * Base}
EdgeInts == {0, 1} \cup {-1} \cup Powers \cup {n - 1 : n \in Powers}
            \cup {-n : n \in Powers} \cup {1 - n : n \in Powers}

Binaries == {<<>>, <<0>>, <<ESCAPE>>, <<0, ESCAPE>>, <<0, 0>>, <<1>>}

Null == <<"null", 0>>

Simple ==
    {Null, <<"bool", TRUE>>, <<"bool", FALSE>>}
        \cup {<<"int", n>> : n \in EdgeInts}
        \cup {<<"bytes", b>> : b \in Binaries} \cup {<<"utf8", b>> : b \in Binaries}
        \cup {<<"uuid", <<0, ESCAPE>>>>, <<"id64", <<0, 1>>>>,
              <<"vs80", <<0, 0>>>>, <<"vs96", <<0, ESCAPE, 1>>>>}

\* Elements whose end is hard to find.
Few == {Null, <<"bytes", <<0>>>>, <<"bytes", <<>>>>, <<"int", 0>>,
        <<"int", -(Base * Base)>>}

Nested == {<<"tuple", t>> : t \in {<<>>, <<Null>>, <<Null, Null>>,
               <<<<"bytes", <<0>>>>, Null>>, <<<<"tuple", <<>>>>, Null>>,
               <<<<"tuple", <<Null>>>>>>, <<<<"int", -1>>>>}}

MCTuples ==
    {<<>>} \cup {<<e>> : e \in Simple \cup Nested}
        \cup {<<e, f>> : e, f \in Few} \cup {<<e, f>> : e \in Nested, f \in Few}

Blank == <<"vs80", <<ESCAPE, ESCAPE>>>>
Blank96 == <<"vs96", <<ESCAPE, ESCAPE, 1>>>>

MCStamped ==
    {<<Blank>>, <<Blank96>>, <<Null, Blank, <<"bytes", <<0>>>>>>,
     <<<<"tuple", <<Null, Blank96, Null>>>>, Null>>,
     <<<<"bytes", <<ESCAPE, ESCAPE>>>>, <<"tuple", <<<<"tuple", <<Blank>>>>>>>>>>,
     <<Blank, Blank96>>, <<Null>>}

MCStamps == {<<0, 0>>, <<0, 1>>}

MCKeyPrefixes == {<<BYTES>>, <<BYTES, ESCAPE>>, <<NESTED, NULL, ESCAPE>>, <<NULL>>,
               <<NEG_INT_9P, ESCAPE - 3>>}

=============================================================================
