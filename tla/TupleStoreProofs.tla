-------------------------- MODULE TupleStoreProofs --------------------------
(***************************************************************************)
(* The tuple layer, for all tuples: pack/1 and unpack/1 are inverse, the   *)
(* order of the keys is that of compare/2, range/1 and strinc/1 cut off    *)
(* what they should, pack_vs/1 finds the versionstamp, and so the store of *)
(* TupleStore has exactly its tuples.                                      *)
(*                                                                         *)
(* What is said of all numbers, strings or elements is proved with sets    *)
(* that are closed (SetInduction, StrInduction, SeqInduction,              *)
(* ElemInduction); that the functions that are defined by recursion exist, *)
(* with Recursion.                                                         *)
(***************************************************************************)
EXTENDS TupleStore, FiniteSetTheorems, WellFoundedInduction, SequenceTheorems, TLAPS

-----------------------------------------------------------------------------
(* Induction on numbers, with sets *)

\* A set of numbers has a least one.
LEMMA LeastOf ==
    ASSUME NEW S \in SUBSET Nat, S # {}
    PROVE  \E n \in S : \A m \in S : n <= m
  <1>1. PICK n \in S : \A m \in S : ~(<<m, n>> \in OpToRel(<, Nat))
    BY NatLessThanWellFounded, WFMin
  <1>2. \A m \in S : ~(m < n)
    BY <1>1 DEF OpToRel
  <1>3. QED
    BY <1>2

\* A set with 0 and every successor has all numbers.
LEMMA SetInduction ==
    ASSUME NEW S \in SUBSET Nat, 0 \in S, \A n \in S : n + 1 \in S
    PROVE  \A n \in Nat : n \in S
  <1> SUFFICES ASSUME Nat \ S # {} PROVE FALSE
    OBVIOUS
  <1>1. PICK n \in Nat \ S : \A m \in Nat \ S : n <= m
    <2> DEFINE N == Nat \ S
    <2>1. N \in SUBSET Nat /\ N # {}
      OBVIOUS
    <2> HIDE DEF N
    <2>2. \E n \in N : \A m \in N : n <= m
      BY <2>1, LeastOf
    <2>3. QED
      BY <2>2 DEF N
  <1>2. n # 0 /\ n - 1 \in Nat /\ ~(n <= n - 1)
    BY <1>1
  <1>3. n - 1 \in S
    BY <1>1, <1>2
  <1>4. (n - 1) + 1 \in S /\ (n - 1) + 1 = n
    BY <1>2, <1>3
  <1>5. QED
    BY <1>1, <1>4

-----------------------------------------------------------------------------
(* Functions that are defined by recursion *)

\* F[g] at x needs g only where the rank is smaller.
Smaller(S, V, r, F) ==
    \A g, h \in [S -> V], x \in S :
        (\A y \in S : r[y] < r[x] => g[y] = h[y]) => F[g][x] = F[h][x]

Recursive(S, V, r, F) ==
    /\ V # {} /\ r \in [S -> Nat] /\ F \in [[S -> V] -> [S -> V]]
    /\ Smaller(S, V, r, F)

\* g is as F says, for the ranks below n.
UpTo(S, r, F, g, n) == \A x \in S : r[x] < n => g[x] = F[g][x]

\* The equation g = F[g] has a solution.
LEMMA Recursion ==
    ASSUME NEW S, NEW V, NEW r, NEW F, Recursive(S, V, r, F)
    PROVE  \E f \in [S -> V] : f = F[f]
  <1>0. /\ V # {} /\ r \in [S -> Nat] /\ F \in [[S -> V] -> [S -> V]]
        /\ Smaller(S, V, r, F)
    BY DEF Recursive
  <1>v. PICK v \in V : TRUE
    BY <1>0
  <1> DEFINE Q == {n \in Nat : \E g \in [S -> V] : UpTo(S, r, F, g, n)}
  <1>1. 0 \in Q
    <2>1. [x \in S |-> v] \in [S -> V]
      BY <1>0
    <2>2. \A g \in [S -> V] : UpTo(S, r, F, g, 0)
      BY <1>0 DEF UpTo
    <2>3. QED
      BY <1>0, <2>1, <2>2
  <1>2. ASSUME NEW n \in Q PROVE n + 1 \in Q
    <2>1. PICK g \in [S -> V] : UpTo(S, r, F, g, n)
      BY <1>0
    <2>2. F[g] \in [S -> V]
      BY <1>0
    <2>3. ASSUME NEW x \in S, r[x] < n + 1 PROVE F[g][x] = F[F[g]][x]
      <3>1. \A y \in S : r[y] < r[x] => r[y] < n
        BY <1>0, <2>3
      <3>2. \A y \in S : r[y] < r[x] => g[y] = F[g][y]
        BY <1>0, <2>1, <3>1 DEF UpTo
      <3>3. QED
        BY <1>0, <2>2, <3>2 DEF Smaller
    <2>4. UpTo(S, r, F, F[g], n + 1)
      BY <1>0, <2>3 DEF UpTo
    <2>5. QED
      BY <1>0, <2>2, <2>4
  <1>3. \A n \in Nat : \E g \in [S -> V] : UpTo(S, r, F, g, n)
    <2>1. Q \in SUBSET Nat
      BY <1>0
    <2> HIDE DEF Q
    <2>2. \A n \in Nat : n \in Q
      BY <1>0, <1>1, <1>2, <2>1, SetInduction
    <2>3. QED
      BY <1>0, <2>2 DEF Q
  <1>4. ASSUME NEW g \in [S -> V], NEW h \in [S -> V], NEW n \in Nat, NEW m \in Nat,
               UpTo(S, r, F, g, n), UpTo(S, r, F, h, m), n <= m
        PROVE  \A x \in S : r[x] < n => g[x] = h[x]
    <2> DEFINE D == {k \in Nat : \E x \in S : r[x] = k /\ k < n /\ g[x] # h[x]}
    <2>1. D \in SUBSET Nat
      BY <1>0
    <2>2. CASE D # {}
      <3>1. PICK k \in D : \A j \in D : k <= j
        <4> HIDE DEF D
        <4>1. QED
          BY <1>0, <2>1, <2>2, LeastOf
      <3>2. PICK x \in S : r[x] = k /\ k < n /\ g[x] # h[x]
        BY <1>0
      <3>3. \A y \in S : r[y] < r[x] => g[y] = h[y]
        <4> SUFFICES ASSUME NEW y \in S, r[y] < r[x], g[y] # h[y] PROVE FALSE
          BY <1>0
        <4>1. r[y] \in D
          BY <1>0, <3>2
        <4>2. k <= r[y] /\ r[y] < k /\ r[y] \in Nat /\ k \in Nat
          BY <1>0, <3>1, <3>2, <4>1
        <4>3. QED
          BY <1>0, <4>2
      <3>4. F[g][x] = F[h][x]
        BY <1>0, <3>3 DEF Smaller
      <3>5. g[x] = F[g][x] /\ h[x] = F[h][x]
        BY <1>0, <1>4, <3>2 DEF UpTo
      <3>6. QED
        BY <1>0, <3>2, <3>4, <3>5
    <2>3. QED
      BY <1>0, <2>2
  <1> DEFINE G(n) == CHOOSE g \in [S -> V] : UpTo(S, r, F, g, n)
  <1>5. \A n \in Nat : G(n) \in [S -> V] /\ UpTo(S, r, F, G(n), n)
    BY <1>0, <1>3
  <1> DEFINE f == [x \in S |-> G(r[x] + 1)[x]]
  <1> HIDE DEF G
  <1>6. f \in [S -> V]
    BY <1>0, <1>5
  <1>7. ASSUME NEW x \in S PROVE f[x] = F[f][x]
    <2>1. PICK n \in Nat : n = r[x] + 1
      BY <1>0
    <2>2. f[x] = G(n)[x] /\ G(n) \in [S -> V] /\ UpTo(S, r, F, G(n), n)
      BY <1>0, <1>5, <2>1
    <2>3. G(n)[x] = F[G(n)][x]
      BY <1>0, <2>1, <2>2 DEF UpTo
    <2>4. ASSUME NEW y \in S, r[y] < r[x] PROVE G(n)[y] = f[y]
      <3>1. PICK k \in Nat : k = r[y] + 1 /\ k <= n
        BY <1>0, <2>1, <2>4
      <3>2. f[y] = G(k)[y] /\ G(k) \in [S -> V] /\ UpTo(S, r, F, G(k), k)
        BY <1>0, <1>5, <3>1
      <3>3. G(k)[y] = G(n)[y]
        BY <1>0, <1>4, <2>2, <3>1, <3>2
      <3>4. QED
        BY <1>0, <3>2, <3>3
    <2> HIDE DEF f
    <2>5. F[G(n)][x] = F[f][x]
      BY <1>0, <1>6, <2>2, <2>4 DEF Smaller
    <2>6. QED
      BY <1>0, <2>2, <2>3, <2>5
  <1> HIDE DEF f
  <1>8. f = F[f]
    <2>1. F[f] \in [S -> V]
      BY <1>0, <1>6
    <2>2. QED
      BY <1>0, <1>6, <1>7, <2>1
  <1>9. QED
    BY <1>0, <1>6, <1>8

-----------------------------------------------------------------------------
(* Joining sequences *)

\* A set of sequences that can be joined.
Strings(V) ==
    /\ <<>> \in V
    /\ \A x, y \in V : x \o y \in V /\ <<>> \o x = x /\ x \o <<>> = x
    /\ \A x, y, z \in V : x \o (y \o z) = (x \o y) \o z

\* h joins the first sequences of ss.
Joins(ss, h) == h = [i \in 1..Len(ss) |-> IF i = 1 THEN ss[i] ELSE h[i - 1] \o ss[i]]

\* There is a function that joins the strings one by one.
LEMMA JoinsExists ==
    ASSUME NEW V, NEW ss \in Seq(V), Strings(V)
    PROVE  \E h \in [1..Len(ss) -> V] : Joins(ss, h)
  <1> DEFINE S == 1..Len(ss)
             r == [i \in S |-> i]
             F == [g \in [S -> V] |-> [i \in S |-> IF i = 1 THEN ss[i] ELSE g[i - 1] \o ss[i]]]
  <1>0. Len(ss) \in Nat /\ \A i \in S : i \in Nat /\ ss[i] \in V /\ (i # 1 => i - 1 \in S)
    OBVIOUS
  <1>1. V # {} /\ r \in [S -> Nat]
    BY DEF Strings
  <1>2. F \in [[S -> V] -> [S -> V]]
    <2>1. \A g \in [S -> V], i \in S : (IF i = 1 THEN ss[i] ELSE g[i - 1] \o ss[i]) \in V
      <3> SUFFICES ASSUME NEW g \in [S -> V], NEW i \in S, i # 1 PROVE g[i - 1] \o ss[i] \in V
        BY <1>0
      <3>1. g[i - 1] \in V /\ ss[i] \in V
        BY <1>0
      <3>2. QED
        BY <3>1 DEF Strings
    <2> HIDE DEF S
    <2>2. QED
      BY <2>1
  <1>3. Smaller(S, V, r, F)
    <2> SUFFICES ASSUME NEW g \in [S -> V], NEW h \in [S -> V], NEW x \in S,
                        \A y \in S : r[y] < r[x] => g[y] = h[y]
                 PROVE  F[g][x] = F[h][x]
      BY DEF Smaller
    <2>1. CASE x # 1
      <3>1. x - 1 \in S /\ r[x - 1] < r[x]
        BY <1>0, <2>1
      <3>2. g[x - 1] = h[x - 1]
        BY <3>1
      <3>3. QED
        BY <3>2
    <2>2. QED
      BY <2>1
  <1>4. \A g \in [S -> V] : g = F[g] <=> Joins(ss, g)
    BY DEF Joins
  <1> HIDE DEF S, r, F
  <1>5. \E f \in [S -> V] : f = F[f]
    <2>1. Recursive(S, V, r, F)
      BY <1>1, <1>2, <1>3 DEF Recursive
    <2>2. QED
      BY <2>1, Recursion
  <1>6. PICK f \in [S -> V] : Joins(ss, f)
    BY <1>4, <1>5
  <1>7. QED
    BY <1>6 DEF S

\* Two sequences begin with the same m elements.
Same(s, t, m) ==
    /\ Len(s) \in Nat /\ Len(t) \in Nat /\ m \in Nat /\ m <= Len(s) /\ m <= Len(t)
    /\ \A i \in 1..m : s[i] = t[i]

\* What is joined depends only on the strings that are joined.
LEMMA JoinsSame ==
    ASSUME NEW ss, NEW tt, NEW m, NEW g, NEW h, Same(ss, tt, m), Joins(ss, g), Joins(tt, h)
    PROVE  \A i \in 1..m : g[i] = h[i]
  <1> USE DEF Same
  <1> DEFINE Q == {n \in Nat : n \in 1..m => g[n] = h[n]}
  <1>1. 0 \in Q
    OBVIOUS
  <1>2. ASSUME NEW n \in Q PROVE n + 1 \in Q
    <2> SUFFICES ASSUME n + 1 \in 1..m PROVE g[n + 1] = h[n + 1]
      OBVIOUS
    <2>1. n \in Nat /\ n + 1 \in 1..Len(ss) /\ n + 1 \in 1..Len(tt) /\ ss[n + 1] = tt[n + 1]
            /\ (n + 1) - 1 = n
      OBVIOUS
    <2>2. /\ g[n + 1] = IF n + 1 = 1 THEN ss[n + 1] ELSE g[n] \o ss[n + 1]
          /\ h[n + 1] = IF n + 1 = 1 THEN tt[n + 1] ELSE h[n] \o tt[n + 1]
      BY <2>1, ZenonT(30) DEF Joins
    <2>3. n + 1 # 1 => g[n] = h[n]
      BY <2>1
    <2>4. QED
      BY <2>1, <2>2, <2>3
  <1>3. Q \in SUBSET Nat
    OBVIOUS
  <1> HIDE DEF Q
  <1>4. \A n \in Nat : n \in Q
    BY <1>1, <1>2, <1>3, SetInduction
  <1>5. QED
    BY <1>4 DEF Q

\* What FlattenSeq is.
LEMMA FlattenJoins ==
    ASSUME NEW V, NEW ss \in Seq(V), Strings(V), Len(ss) # 0
    PROVE  \E h \in [1..Len(ss) -> V] : Joins(ss, h) /\ FlattenSeq(ss) = h[Len(ss)]
  <1>1. PICK n \in Nat : n = Len(ss) /\ n \in 1..n
    OBVIOUS
  <1>2. PICK g \in [1..n -> V] : Joins(ss, g)
    BY <1>1, JoinsExists
  <1>3. FlattenSeq(ss) = (CHOOSE h : Joins(ss, h))[n]
    <2>1. FlattenSeq(ss) = (CHOOSE h : h = [i \in 1..Len(ss) |->
                IF i = 1 THEN ss[i] ELSE h[i - 1] \o ss[i]])[Len(ss)]
      BY DEF FlattenSeq
    <2>2. QED
      BY <1>1, <2>1 DEF Joins
  <1>4. PICK h : h = CHOOSE k : Joins(ss, k)
    OBVIOUS
  <1>5. Joins(ss, h)
    BY <1>2, <1>4, Zenon
  <1>6. \A i \in 1..n : g[i] = h[i]
    <2>1. Same(ss, ss, n)
      BY <1>1 DEF Same
    <2>2. QED
      BY <1>2, <1>5, <2>1, JoinsSame
  <1>7. FlattenSeq(ss) = g[n]
    BY <1>1, <1>3, <1>4, <1>6
  <1>8. QED
    BY <1>1, <1>2, <1>7

\* No strings give the empty string.
LEMMA FlattenEmpty == FlattenSeq(<<>>) = <<>>
  BY DEF FlattenSeq

\* Strings that are joined are a string.
LEMMA FlattenType ==
    ASSUME NEW V, NEW ss \in Seq(V), Strings(V)
    PROVE  FlattenSeq(ss) \in V
  <1>1. CASE Len(ss) = 0
    <2>1. ss = <<>>
      BY <1>1, EmptySeq
    <2>2. <<>> \in V
      BY DEF Strings
    <2>3. QED
      BY <2>1, <2>2, FlattenEmpty
  <1>2. CASE Len(ss) # 0
    <2>1. Len(ss) \in 1..Len(ss)
      BY <1>2
    <2>2. PICK h \in [1..Len(ss) -> V] : FlattenSeq(ss) = h[Len(ss)]
      BY <1>2, FlattenJoins
    <2>3. QED
      BY <2>1, <2>2
  <1>3. QED
    BY <1>1, <1>2

\* The elements of a sequence with one more.
LEMMA AppendFacts ==
    ASSUME NEW T, NEW s \in Seq(T), NEW e \in T
    PROVE  /\ Append(s, e) \in Seq(T) /\ Len(s) \in Nat /\ Len(Append(s, e)) = Len(s) + 1
           /\ Append(s, e)[Len(s) + 1] = e /\ \A i \in 1..Len(s) : Append(s, e)[i] = s[i]
  OBVIOUS

\* One more string is joined at the end.
LEMMA FlattenAppend ==
    ASSUME NEW V, NEW ss \in Seq(V), Strings(V), NEW s \in V
    PROVE  FlattenSeq(Append(ss, s)) = FlattenSeq(ss) \o s
  <1>0. PICK n \in Nat, tt \in Seq(V) :
            /\ n = Len(ss) /\ tt = Append(ss, s) /\ Len(tt) = n + 1
            /\ tt[n + 1] = s /\ \A i \in 1..n : tt[i] = ss[i]
    <2>1. PICK n \in Nat : n = Len(ss)
      OBVIOUS
    <2>2. PICK tt \in Seq(V) : tt = Append(ss, s)
      BY AppendFacts
    <2>3. Len(tt) = n + 1 /\ tt[n + 1] = s /\ \A i \in 1..n : tt[i] = ss[i]
      BY <2>1, <2>2, AppendFacts
    <2>4. QED
      BY <2>1, <2>2, <2>3
  <1>1. PICK h \in [1..Len(tt) -> V] : Joins(tt, h) /\ FlattenSeq(tt) = h[Len(tt)]
    <2>1. Len(tt) # 0
      BY <1>0
    <2>2. QED
      BY <2>1, FlattenJoins
  <1>2. CASE n = 0
    <2>1. ss = <<>>
      BY <1>0, <1>2, EmptySeq
    <2>2. h[1] = s
      BY <1>0, <1>1, <1>2 DEF Joins
    <2>3. FlattenSeq(ss) \o s = s
      BY <2>1, FlattenEmpty DEF Strings
    <2>4. QED
      BY <1>0, <1>1, <1>2, <2>2, <2>3
  <1>3. CASE n # 0
    <2>1. PICK g \in [1..Len(ss) -> V] : Joins(ss, g) /\ FlattenSeq(ss) = g[Len(ss)]
      <3>1. Len(ss) # 0
        BY <1>0, <1>3
      <3>2. QED
        BY <3>1, FlattenJoins
    <2>2. \A i \in 1..n : g[i] = h[i]
      <3>1. Same(ss, tt, n)
        BY <1>0 DEF Same
      <3>2. Joins(ss, g) /\ Joins(tt, h)
        BY <1>1, <2>1
      <3>3. QED
        BY <3>1, <3>2, JoinsSame
    <2>3. n \in 1..n /\ n + 1 \in 1..Len(tt) /\ (n + 1) - 1 = n /\ n + 1 # 1
      BY <1>0, <1>3
    <2>4. h[n + 1] = h[n] \o tt[n + 1]
      BY <1>1, <2>3 DEF Joins
    <2>5. QED
      BY <1>0, <1>1, <2>1, <2>2, <2>3, <2>4
  <1>4. QED
    BY <1>2, <1>3

\* Two lists of strings, joined.
LEMMA FlattenConcat ==
    ASSUME NEW V, Strings(V), NEW ss \in Seq(V), NEW tt \in Seq(V)
    PROVE  FlattenSeq(ss \o tt) = FlattenSeq(ss) \o FlattenSeq(tt)
  <1> DEFINE Q == {n \in Nat : \A u \in Seq(V) :
                      Len(u) = n => FlattenSeq(ss \o u) = FlattenSeq(ss) \o FlattenSeq(u)}
  <1>1. 0 \in Q
    <2> SUFFICES ASSUME NEW u \in Seq(V), Len(u) = 0
                 PROVE  FlattenSeq(ss \o u) = FlattenSeq(ss) \o FlattenSeq(u)
      OBVIOUS
    <2>1. u = <<>>
      BY EmptySeq
    <2>2. ss \o u = ss
      BY <2>1, ConcatEmptySeq
    <2>3. FlattenSeq(u) = <<>> /\ FlattenSeq(ss) \in V
      BY <2>1, FlattenEmpty, FlattenType
    <2>4. QED
      BY <2>2, <2>3 DEF Strings
  <1>2. ASSUME NEW n \in Q PROVE n + 1 \in Q
    <2> SUFFICES ASSUME NEW u \in Seq(V), Len(u) = n + 1
                 PROVE  FlattenSeq(ss \o u) = FlattenSeq(ss) \o FlattenSeq(u)
      OBVIOUS
    <2>1. u # <<>>
      OBVIOUS
    <2>2. PICK w \in Seq(V), e \in V : u = Append(w, e)
      BY <2>1, SequenceEmptyOrAppend
    <2>3. Len(w) = n
      BY <2>2
    <2>4. FlattenSeq(ss \o w) = FlattenSeq(ss) \o FlattenSeq(w)
      BY <2>3
    <2>5. ss \o u = Append(ss \o w, e)
      BY <2>2
    <2>6. PICK x \in Seq(V) : x = ss \o w
      BY ConcatProperties
    <2>7. FlattenSeq(ss \o u) = FlattenSeq(ss \o w) \o e
      BY <2>5, <2>6, FlattenAppend
    <2>8. FlattenSeq(u) = FlattenSeq(w) \o e
      BY <2>2, FlattenAppend
    <2>9. FlattenSeq(ss) \in V /\ FlattenSeq(w) \in V
      BY FlattenType
    <2>10. PICK a \in V, b \in V : a = FlattenSeq(ss) /\ b = FlattenSeq(w)
      BY <2>9
    <2>11. a \o (b \o e) = (a \o b) \o e
      BY SMTT(30) DEF Strings
    <2>12. QED
      BY <2>4, <2>7, <2>8, <2>10, <2>11
  <1>3. Q \in SUBSET Nat
    OBVIOUS
  <1>4. Len(tt) \in Nat
    OBVIOUS
  <1> HIDE DEF Q
  <1>5. Len(tt) \in Q
    BY <1>1, <1>2, <1>3, <1>4, SetInduction
  <1>6. QED
    BY <1>5 DEF Q

\* The sequence before a place, at it and after it.
LEMMA SplitAt ==
    ASSUME NEW V, NEW ss \in Seq(V), NEW i \in 1..Len(ss)
    PROVE  /\ SubSeq(ss, 1, i - 1) \in Seq(V) /\ SubSeq(ss, i + 1, Len(ss)) \in Seq(V)
           /\ ss = Append(SubSeq(ss, 1, i - 1), ss[i]) \o SubSeq(ss, i + 1, Len(ss))
  <1>1. PICK a : a = SubSeq(ss, 1, i - 1)
    OBVIOUS
  <1>2. PICK b : b = SubSeq(ss, i + 1, Len(ss))
    OBVIOUS
  <1>3. PICK n \in Nat : n = Len(ss) /\ i \in 1..n /\ i \in Nat /\ \A j \in 1..n : ss[j] \in V
    OBVIOUS
  <1>4. a \in Seq(V) /\ Len(a) = i - 1 /\ \A j \in 1..(i - 1) : a[j] = ss[j]
    BY <1>1, <1>3, SubSeqProperties
  <1>5. b \in Seq(V) /\ Len(b) = n - i /\ \A j \in 1..(n - i) : b[j] = ss[i + j]
    <2>1. CASE i < n
      BY <1>2, <1>3, <2>1, SubSeqProperties
    <2>2. CASE i = n
      BY <1>2, <1>3, <2>2, SubSeqProperties
    <2>3. QED
      BY <1>3, <2>1, <2>2
  <1>6. PICK c : c = Append(a, ss[i])
    OBVIOUS
  <1>7. c \in Seq(V) /\ Len(c) = i /\ \A j \in 1..i : c[j] = ss[j]
    BY <1>3, <1>4, <1>6
  <1>8. PICK d : d = c \o b
    OBVIOUS
  <1>9. d \in Seq(V) /\ Len(d) = n /\ \A j \in 1..n : d[j] = ss[j]
    <2>0. d \in Seq(V) /\ Len(d) = Len(c) + Len(b)
      BY <1>5, <1>7, <1>8, ConcatProperties
    <2>1. d \in Seq(V) /\ Len(d) = n
      BY <1>3, <1>5, <1>7, <2>0
    <2>2. \A j \in 1..n : d[j] = IF j <= i THEN c[j] ELSE b[j - i]
      BY <1>3, <1>5, <1>7, <1>8, <2>1
    <2>3. QED
      BY <1>3, <1>5, <1>7, <2>1, <2>2
  <1>10. d = ss
    BY <1>3, <1>9, SeqEqual
  <1>11. QED
    BY <1>1, <1>2, <1>4, <1>5, <1>6, <1>8, <1>10

\* The strings before a place, at it and after it, joined.
LEMMA FlattenSplit ==
    ASSUME NEW V, Strings(V), NEW ss \in Seq(V), NEW i \in 1..Len(ss)
    PROVE  FlattenSeq(ss) = FlattenSeq(SubSeq(ss, 1, i - 1))
                                \o (ss[i] \o FlattenSeq(SubSeq(ss, i + 1, Len(ss))))
  <1>1. PICK a \in Seq(V) : a = SubSeq(ss, 1, i - 1)
    BY SplitAt
  <1>2. PICK b \in Seq(V) : b = SubSeq(ss, i + 1, Len(ss))
    BY SplitAt
  <1>3. PICK e \in V : e = ss[i]
    OBVIOUS
  <1>4. PICK c \in Seq(V) : c = Append(a, e)
    BY AppendFacts
  <1>5. ss = c \o b
    <2>1. ss = Append(SubSeq(ss, 1, i - 1), ss[i]) \o SubSeq(ss, i + 1, Len(ss))
      BY SplitAt
    <2>2. QED
      BY <1>1, <1>2, <1>3, <1>4, <2>1
  <1>6. FlattenSeq(ss) = FlattenSeq(c) \o FlattenSeq(b)
    BY <1>5, FlattenConcat
  <1>7. FlattenSeq(c) = FlattenSeq(a) \o e
    BY <1>4, FlattenAppend
  <1>8. FlattenSeq(a) \in V /\ FlattenSeq(b) \in V
    BY FlattenType
  <1>9. PICK x \in V, y \in V : x = FlattenSeq(a) /\ y = FlattenSeq(b)
    BY <1>8
  <1>10. x \o (e \o y) = (x \o e) \o y
    BY SMTT(30) DEF Strings
  <1>11. QED
    BY <1>1, <1>2, <1>3, <1>6, <1>7, <1>9, <1>10

-----------------------------------------------------------------------------
(* The order of keys *)

\* Two beginnings are the same if they are the same everywhere.
LEMMA PrefixPoints ==
    ASSUME NEW s \in Seq(Nat), NEW t \in Seq(Nat), NEW i \in Nat, i <= Len(s), i <= Len(t)
    PROVE  SubSeq(s, 1, i) = SubSeq(t, 1, i) <=> \A j \in 1..i : s[j] = t[j]
  <1>1. \A j \in 1..i : s[j] \in Nat /\ t[j] \in Nat
    OBVIOUS
  <1>2. /\ SubSeq(s, 1, i) \in Seq(Nat) /\ Len(SubSeq(s, 1, i)) = i
        /\ \A j \in 1..i : SubSeq(s, 1, i)[j] = s[j]
    BY <1>1, SubSeqProperties
  <1>3. /\ SubSeq(t, 1, i) \in Seq(Nat) /\ Len(SubSeq(t, 1, i)) = i
        /\ \A j \in 1..i : SubSeq(t, 1, i)[j] = t[j]
    BY <1>1, SubSeqProperties
  <1>4. PICK a \in Seq(Nat), b \in Seq(Nat) : a = SubSeq(s, 1, i) /\ b = SubSeq(t, 1, i)
    BY <1>2, <1>3
  <1>5. (\A j \in 1..i : a[j] = b[j]) => a = b
    BY <1>2, <1>3, <1>4, SeqEqual
  <1>6. QED
    BY <1>2, <1>3, <1>4, <1>5

\* A prefix, by its bytes.
LEMMA PrefixIff ==
    ASSUME NEW s \in Seq(Nat), NEW t \in Seq(Nat)
    PROVE  IsPrefix(t, s) <=> Len(t) <= Len(s) /\ \A j \in 1..Len(t) : s[j] = t[j]
  <1>1. Len(t) \in Nat /\ SubSeq(t, 1, Len(t)) = t
    OBVIOUS
  <1>2. PICK i \in Nat : i = Len(t)
    BY <1>1
  <1>3. CASE Len(t) <= Len(s)
    <2>1. SubSeq(s, 1, i) = SubSeq(t, 1, i) <=> \A j \in 1..i : s[j] = t[j]
      BY <1>2, <1>3, PrefixPoints
    <2>2. QED
      BY <1>1, <1>2, <1>3, <2>1 DEF IsPrefix
  <1>4. CASE ~(Len(t) <= Len(s))
    BY <1>4 DEF IsPrefix
  <1>5. QED
    BY <1>3, <1>4

\* s comes before t because of the place i: it ends there, or has a smaller digit.
LessAt(s, t, i) ==
    /\ i \in 1..Len(t) /\ i <= Len(s) + 1
    /\ \A j \in 1..(i - 1) : s[j] = t[j]
    /\ i = Len(s) + 1 \/ s[i] < t[i]

\* The order of keys, by the first byte that differs.
LEMMA LessIff ==
    ASSUME NEW s \in Seq(Nat), NEW t \in Seq(Nat)
    PROVE  Less(s, t) <=> \E i \in Nat : LessAt(s, t, i)
  <1>0. Len(s) \in Nat /\ Len(t) \in Nat /\ DOMAIN s = 1..Len(s) /\ DOMAIN t = 1..Len(t)
    OBVIOUS
  <1>1. ASSUME IsPrefix(s, t), s # t PROVE \E i \in Nat : LessAt(s, t, i)
    <2>1. Len(s) <= Len(t) /\ \A j \in 1..Len(s) : t[j] = s[j]
      BY <1>1, PrefixIff
    <2>2. Len(s) # Len(t)
      BY <1>1, <2>1, SeqEqual
    <2>3. PICK i \in Nat : i = Len(s) + 1 /\ i - 1 = Len(s)
      BY <1>0
    <2>4. i \in 1..Len(t) /\ i <= Len(s) + 1
      <3>1. PICK a \in Nat, b \in Nat : a = Len(s) /\ b = Len(t)
        BY <1>0
      <3>2. a <= b /\ a # b /\ i = a + 1
        BY <2>1, <2>2, <2>3, <3>1
      <3>3. i \in 1..b /\ i <= a + 1
        BY <3>2
      <3>4. QED
        BY <3>1, <3>3
    <2>5. \A j \in 1..(i - 1) : s[j] = t[j]
      BY <2>1, <2>3
    <2>6. LessAt(s, t, i)
      BY <2>3, <2>4, <2>5 DEF LessAt
    <2>7. QED
      BY <2>6
  <1>2. ASSUME NEW i \in DOMAIN s \cap DOMAIN t, SubSeq(s, 1, i - 1) = SubSeq(t, 1, i - 1), s[i] < t[i]
        PROVE  \E j \in Nat : LessAt(s, t, j)
    <2>1. i \in Nat /\ i - 1 \in Nat /\ i - 1 <= Len(s) /\ i - 1 <= Len(t) /\ i <= Len(s) + 1
      BY <1>0
    <2>2. PICK h \in Nat : h = i - 1
      BY <2>1
    <2>3. \A j \in 1..h : s[j] = t[j]
      BY <1>2, <2>1, <2>2, PrefixPoints
    <2>4. LessAt(s, t, i)
      BY <1>0, <1>2, <2>1, <2>2, <2>3 DEF LessAt
    <2>5. QED
      BY <2>1, <2>4
  <1>3. ASSUME NEW i \in Nat, LessAt(s, t, i) PROVE Less(s, t)
    <2>1. CASE i = Len(s) + 1
      <3>1. i - 1 = Len(s) /\ Len(s) < Len(t)
        BY <1>0, <1>3, <2>1 DEF LessAt
      <3>2. \A j \in 1..Len(s) : t[j] = s[j]
        BY <1>3, <3>1 DEF LessAt
      <3>3. IsPrefix(s, t) /\ s # t
        <4>1. Len(s) <= Len(t) /\ Len(s) # Len(t)
          <5>1. PICK a \in Nat, b \in Nat : a = Len(s) /\ b = Len(t) /\ a < b
            BY <1>0, <3>1
          <5>2. a <= b /\ a # b
            BY <5>1
          <5>3. QED
            BY <5>1, <5>2
        <4>2. IsPrefix(s, t)
          BY <3>2, <4>1, PrefixIff
        <4>3. QED
          BY <4>1, <4>2
      <3>4. QED
        BY <3>3 DEF Less, IsStrictPrefix
    <2>2. CASE i # Len(s) + 1
      <3>1. i \in DOMAIN s \cap DOMAIN t /\ s[i] < t[i]
        BY <1>0, <1>3, <2>2 DEF LessAt
      <3>2. i - 1 \in Nat /\ i - 1 <= Len(s) /\ i - 1 <= Len(t)
        BY <1>0, <3>1
      <3>3. PICK h \in Nat : h = i - 1
        BY <3>2
      <3>4. \A j \in 1..h : s[j] = t[j]
        BY <1>3, <3>3 DEF LessAt
      <3>5. SubSeq(s, 1, h) = SubSeq(t, 1, h)
        BY <3>2, <3>3, <3>4, PrefixPoints
      <3>6. QED
        BY <3>1, <3>3, <3>5 DEF Less, IsStrictPrefix
    <2>3. QED
      BY <2>1, <2>2
  <1>4. Less(s, t) => \E i \in Nat : LessAt(s, t, i)
    BY <1>1, <1>2 DEF Less, IsStrictPrefix
  <1>5. QED
    BY <1>3, <1>4

\* Of two different keys one is before the other.
LEMMA LessTotal ==
    ASSUME NEW s \in Seq(Nat), NEW t \in Seq(Nat), s # t
    PROVE  Less(s, t) \/ Less(t, s)
  <1>0. Len(s) \in Nat /\ Len(t) \in Nat
    OBVIOUS
  <1> DEFINE D == {i \in Nat : i \in 1..Len(s) /\ i \in 1..Len(t) /\ s[i] # t[i]}
  <1>1. CASE D = {}
    <2>1. \A i \in 1..Len(s) : i \in 1..Len(t) => s[i] = t[i]
      BY <1>1
    <2>2. CASE Len(s) <= Len(t)
      <3>1. IsPrefix(s, t)
        BY <1>0, <2>1, <2>2, PrefixIff
      <3>2. QED
        BY <3>1 DEF Less, IsStrictPrefix
    <2>3. CASE Len(t) <= Len(s)
      <3>1. IsPrefix(t, s)
        BY <1>0, <2>1, <2>3, PrefixIff
      <3>2. QED
        BY <3>1 DEF Less, IsStrictPrefix
    <2>4. QED
      BY <1>0, <2>2, <2>3
  <1>2. CASE D # {}
    <2>1. D \in SUBSET Nat
      OBVIOUS
    <2>2. PICK i \in D : \A m \in D : i <= m
      <3> HIDE DEF D
      <3>1. QED
        BY <1>2, <2>1, LeastOf
    <2>3. i \in Nat /\ i \in 1..Len(s) /\ i \in 1..Len(t) /\ s[i] # t[i] /\ s[i] \in Nat /\ t[i] \in Nat
      OBVIOUS
    <2>4. \A j \in 1..(i - 1) : s[j] = t[j]
      <3> SUFFICES ASSUME NEW j \in 1..(i - 1), s[j] # t[j] PROVE FALSE
        OBVIOUS
      <3>1. j \in Nat /\ j \in 1..Len(s) /\ j \in 1..Len(t) /\ j < i
        BY <1>0, <2>3
      <3>2. j \in D
        BY <3>1
      <3>3. QED
        BY <2>2, <2>3, <3>1, <3>2
    <2>5. LessAt(s, t, i) \/ LessAt(t, s, i)
      BY <1>0, <2>3, <2>4 DEF LessAt
    <2>6. QED
      BY <2>3, <2>5, LessIff
  <1>3. QED
    BY <1>1, <1>2

\* The order of keys is transitive.
LEMMA LessTransitive ==
    ASSUME NEW s \in Seq(Nat), NEW t \in Seq(Nat), NEW w \in Seq(Nat), Less(s, t), Less(t, w)
    PROVE  Less(s, w)
  <1>0. /\ Len(s) \in Nat /\ Len(t) \in Nat /\ Len(w) \in Nat
        /\ \A j \in 1..Len(s) : s[j] \in Nat
        /\ \A j \in 1..Len(t) : t[j] \in Nat
        /\ \A j \in 1..Len(w) : w[j] \in Nat
    OBVIOUS
  <1>1. PICK i \in Nat : LessAt(s, t, i)
    BY LessIff
  <1>2. PICK j \in Nat : LessAt(t, w, j)
    BY LessIff
  <1>3. CASE i < j
    <2>1. t[i] = w[i] /\ i \in 1..Len(w) /\ \A h \in 1..(i - 1) : s[h] = w[h]
      BY <1>0, <1>1, <1>2, <1>3, SMTT(30) DEF LessAt
    <2>2. LessAt(s, w, i)
      BY <1>0, <1>1, <2>1 DEF LessAt
    <2>3. QED
      BY <2>2, LessIff
  <1>4. CASE i = j
    <2>1. t[i] < w[i] /\ i \in 1..Len(w) /\ \A h \in 1..(i - 1) : s[h] = w[h]
      BY <1>0, <1>1, <1>2, <1>4 DEF LessAt
    <2>2. LessAt(s, w, i)
      BY <1>0, <1>1, <2>1, SMTT(30) DEF LessAt
    <2>3. QED
      BY <2>2, LessIff
  <1>5. CASE j < i
    <2>1. j \in 1..Len(s) /\ j \in 1..Len(t) /\ j \in 1..Len(w) /\ s[j] = t[j] /\ t[j] < w[j]
      <3>1. /\ i \in 1..Len(t) /\ i <= Len(s) + 1 /\ j \in 1..Len(w)
            /\ \A h \in 1..(i - 1) : s[h] = t[h]
            /\ j = Len(t) + 1 \/ t[j] < w[j]
        BY <1>1, <1>2 DEF LessAt
      <3>2. j \in 1..(i - 1) /\ j # Len(t) + 1 /\ j \in 1..Len(s) /\ j \in 1..Len(t)
        BY <1>0, <1>5, <3>1, SMTT(30)
      <3>3. QED
        BY <3>1, <3>2
    <2>2. \A h \in 1..(j - 1) : s[h] = w[h]
      BY <1>0, <1>1, <1>2, <1>5 DEF LessAt
    <2>3. LessAt(s, w, j)
      BY <1>0, <2>1, <2>2 DEF LessAt
    <2>4. QED
      BY <2>3, LessIff
  <1>6. QED
    BY <1>3, <1>4, <1>5

\* No key is before itself.
LEMMA LessIrreflexive == ASSUME NEW s \in Seq(Nat) PROVE ~Less(s, s)
  <1> SUFFICES ASSUME NEW i \in Nat, LessAt(s, s, i) PROVE FALSE
    BY LessIff
  <1>1. Len(s) \in Nat /\ \A j \in 1..Len(s) : s[j] \in Nat
    OBVIOUS
  <1>2. QED
    BY <1>1 DEF LessAt

\* The numbers of the bytes.
LEMMA ByteNumbers == /\ MaxFixed \in Nat /\ MaxFixed > 0 /\ ESCAPE \in Nat /\ Base \in Nat /\ Base = ESCAPE + 1
                     /\ Bytes \subseteq Nat /\ ESCAPE = 2 * MaxFixed + 13
  BY TupleAssumption DEF ESCAPE, POS_INT_9P, ZERO, NESTED, Base, Bytes

Str == Seq(Bytes)

\* A string of bytes is a sequence of numbers.
LEMMA StrNat == Str \subseteq Seq(Nat)
  BY ByteNumbers, SeqMonotonic DEF Str

\* Strings of bytes can be joined.
LEMMA StrConcat ==
    /\ <<>> \in Str
    /\ \A x, y \in Str : x \o y \in Str /\ <<>> \o x = x /\ x \o <<>> = x
    /\ \A x, y, z \in Str : x \o (y \o z) = (x \o y) \o z
  <1>1. <<>> \in Str
    BY DEF Str
  <1>2. \A x, y \in Str : x \o y \in Str
    BY ConcatProperties DEF Str
  <1>3. \A x \in Str : <<>> \o x = x /\ x \o <<>> = x
    BY ConcatEmptySeq DEF Str
  <1>4. \A x, y, z \in Str : x \o (y \o z) = (x \o y) \o z
    BY ConcatAssociative, SMTT(30) DEF Str
  <1>5. QED
    BY <1>1, <1>2, <1>3, <1>4

\* Concatenation as an operator that the provers do not expand.
Cat(s, t) == s \o t

\* Cat is associative, and the empty string its unit.
LEMMA CatStr ==
    /\ \A x, y \in Str : Cat(x, y) \in Str
    /\ \A x \in Str : Cat(<<>>, x) = x /\ Cat(x, <<>>) = x
    /\ \A x, y, z \in Str : Cat(Cat(x, y), z) = Cat(x, Cat(y, z))
  BY StrConcat DEF Cat

\* The same for four strings.
LEMMA CatAssociative4 ==
    ASSUME NEW a \in Str, NEW b \in Str, NEW c \in Str, NEW d \in Str
    PROVE  Cat(Cat(a, Cat(b, c)), d) = Cat(a, Cat(b, Cat(c, d)))
  BY CatStr

\* What FlattenSeq needs holds of strings of bytes.
LEMMA StrStrings == Strings(Str)
  BY StrConcat DEF Strings

\* The elements of joined sequences.
LEMMA ConcatPoints ==
    ASSUME NEW s \in Seq(Nat), NEW t \in Seq(Nat)
    PROVE  /\ s \o t \in Seq(Nat) /\ Len(s) \in Nat /\ Len(t) \in Nat
           /\ Len(s \o t) = Len(s) + Len(t)
           /\ \A i \in 1..Len(s) : (s \o t)[i] = s[i]
           /\ \A i \in 1..Len(t) : (s \o t)[Len(s) + i] = t[i]
  <1>1. s \o t \in Seq(Nat) /\ Len(s \o t) = Len(s) + Len(t) /\ Len(s) \in Nat /\ Len(t) \in Nat
    BY ConcatProperties
  <1>2. \A i \in 1..(Len(s) + Len(t)) : (s \o t)[i] = IF i <= Len(s) THEN s[i] ELSE t[i - Len(s)]
    BY <1>1, ConcatProperties
  <1>3. PICK m \in Nat, n \in Nat : m = Len(s) /\ n = Len(t)
    BY <1>1
  <1>4. \A i \in 1..m : i \in 1..(m + n) /\ i <= m
    OBVIOUS
  <1>5. \A i \in 1..n : m + i \in 1..(m + n) /\ ~(m + i <= m) /\ (m + i) - m = i
    OBVIOUS
  <1>6. \A i \in 1..m : (s \o t)[i] = s[i]
    BY <1>2, <1>3, <1>4
  <1>7. \A i \in 1..n : (s \o t)[m + i] = t[i]
    BY <1>2, <1>3, <1>5
  <1>8. QED
    BY <1>1, <1>3, <1>6, <1>7

\* The same beginning changes no order.
LEMMA LessConcat ==
    ASSUME NEW p \in Seq(Nat), NEW s \in Seq(Nat), NEW t \in Seq(Nat), Less(s, t)
    PROVE  Less(p \o s, p \o t)
  <1>1. PICK i \in Nat : LessAt(s, t, i)
    BY LessIff
  <1>2. PICK a \in Seq(Nat) : a = p \o s /\ Len(a) = Len(p) + Len(s)
            /\ (\A j \in 1..Len(p) : a[j] = p[j]) /\ \A j \in 1..Len(s) : a[Len(p) + j] = s[j]
    BY ConcatPoints
  <1>3. PICK b \in Seq(Nat) : b = p \o t /\ Len(b) = Len(p) + Len(t)
            /\ (\A j \in 1..Len(p) : b[j] = p[j]) /\ \A j \in 1..Len(t) : b[Len(p) + j] = t[j]
    BY ConcatPoints, ZenonT(30)
  <1>4. PICK m \in Nat, n \in Nat, k \in Nat : m = Len(p) /\ n = Len(s) /\ k = Len(t)
    OBVIOUS
  <1>5. /\ i \in 1..k /\ i <= n + 1 /\ \A j \in 1..(i - 1) : s[j] = t[j]
        /\ i = n + 1 \/ s[i] < t[i]
    BY <1>1, <1>4 DEF LessAt
  <1>6. m + i \in 1..Len(b) /\ m + i <= Len(a) + 1 /\ m + i \in Nat
    BY <1>2, <1>3, <1>4, <1>5
  <1>7. ASSUME NEW j \in 1..((m + i) - 1) PROVE a[j] = b[j]
    <2>1. CASE j <= m
      BY <1>2, <1>3, <1>4, <2>1
    <2>2. CASE j > m
      <3>1. PICK h \in 1..(i - 1) : j = m + h
        <4>1. j - m \in 1..(i - 1) /\ j = m + (j - m)
          BY <1>5, <2>2
        <4>2. QED
          BY <4>1
      <3>2. h \in 1..n /\ h \in 1..k /\ s[h] = t[h]
        BY <1>4, <1>5
      <3>3. QED
        BY <1>2, <1>3, <1>4, <3>1, <3>2
    <2>3. QED
      BY <2>1, <2>2
  <1>8. m + i = Len(a) + 1 \/ a[m + i] < b[m + i]
    <2>1. CASE i = n + 1
      BY <1>2, <1>4, <2>1
    <2>2. CASE i # n + 1
      <3>1. i \in 1..n /\ i \in 1..k /\ s[i] < t[i]
        BY <1>5, <2>2
      <3>2. a[m + i] = s[i] /\ b[m + i] = t[i]
        BY <1>2, <1>3, <1>4, <3>1
      <3>3. QED
        BY <3>1, <3>2
    <2>3. QED
      BY <2>1, <2>2
  <1>9. LessAt(a, b, m + i)
    BY <1>6, <1>7, <1>8 DEF LessAt
  <1>10. Less(a, b)
    BY <1>6, <1>9, LessIff
  <1>11. QED
    BY <1>2, <1>3, <1>10

\* The first bytes decide, if they differ.
LEMMA LessFirst ==
    ASSUME NEW s \in Seq(Nat), NEW t \in Seq(Nat), s # <<>>, t # <<>>, s[1] < t[1]
    PROVE  Less(s, t)
  <1>1. Len(s) \in Nat /\ Len(t) \in Nat /\ Len(s) # 0 /\ Len(t) # 0
    BY EmptySeq
  <1>2. LessAt(s, t, 1)
    BY <1>1 DEF LessAt
  <1>3. QED
    BY <1>2, LessIff

\* The empty key is the first.
LEMMA LessEmpty == ASSUME NEW t \in Seq(Nat), t # <<>> PROVE Less(<<>>, t)
  <1>1. <<>> \in Seq(Nat) /\ Len(<<>>) = 0
    OBVIOUS
  <1>2. Len(t) \in Nat /\ Len(t) # 0
    BY EmptySeq
  <1>3. LessAt(<<>>, t, 1)
    BY <1>1, <1>2 DEF LessAt
  <1>4. QED
    BY <1>1, <1>3, LessIff

\* The order of keys is strict.
LEMMA LessAsymmetric ==
    ASSUME NEW s \in Seq(Nat), NEW t \in Seq(Nat), Less(s, t)
    PROVE  ~Less(t, s) /\ s # t
  BY LessTransitive, LessIrreflexive

\* The same beginning changes no order.
LEMMA CatLess ==
    ASSUME NEW p \in Str, NEW s \in Str, NEW t \in Str, Less(s, t)
    PROVE  Less(Cat(p, s), Cat(p, t))
  <1>1. p \in Seq(Nat) /\ s \in Seq(Nat) /\ t \in Seq(Nat)
    BY StrNat
  <1>2. QED
    BY <1>1, LessConcat DEF Cat

\* s comes before t whatever follows them, as long as it is in C.
Sorted(C, s, t) == \A x, y \in C : Less(Cat(s, x), Cat(t, y))

\* A joined sequence, split at a place.
LEMMA FlattenAt ==
    ASSUME NEW ss \in Seq(Str), NEW i \in 1..Len(ss)
    PROVE  \E p \in Seq(Str), a \in Seq(Str) :
              /\ p = SubSeq(ss, 1, i - 1) /\ a = SubSeq(ss, i + 1, Len(ss)) /\ ss[i] \in Str
              /\ FlattenSeq(p) \in Str /\ FlattenSeq(a) \in Str
              /\ FlattenSeq(ss) = Cat(FlattenSeq(p), Cat(ss[i], FlattenSeq(a)))
  <1>1. PICK p \in Seq(Str) : p = SubSeq(ss, 1, i - 1)
    BY SplitAt
  <1>2. PICK a \in Seq(Str) : a = SubSeq(ss, i + 1, Len(ss))
    BY SplitAt
  <1>3. FlattenSeq(p) \in Str /\ FlattenSeq(a) \in Str
    BY StrStrings, FlattenType
  <1>4. FlattenSeq(ss) = FlattenSeq(SubSeq(ss, 1, i - 1))
                                \o (ss[i] \o FlattenSeq(SubSeq(ss, i + 1, Len(ss))))
    BY StrStrings, FlattenSplit
  <1>5. FlattenSeq(ss) = Cat(FlattenSeq(p), Cat(ss[i], FlattenSeq(a)))
    BY <1>1, <1>2, <1>4 DEF Cat
  <1>6. ss[i] \in Str
    OBVIOUS
  <1>7. QED
    BY <1>1, <1>2, <1>3, <1>5, <1>6

\* The first n elements of two sequences are the same.
LEMMA SameStart ==
    ASSUME NEW V, NEW ss \in Seq(V), NEW tt \in Seq(V), NEW n \in Nat,
           n <= Len(ss), n <= Len(tt), \A j \in 1..n : ss[j] = tt[j]
    PROVE  SubSeq(ss, 1, n) = SubSeq(tt, 1, n)
  <1>1. \A j \in 1..n : ss[j] \in V /\ tt[j] \in V
    OBVIOUS
  <1>2. PICK p : p = SubSeq(ss, 1, n)
    OBVIOUS
  <1>3. PICK q : q = SubSeq(tt, 1, n)
    OBVIOUS
  <1>4. p \in Seq(V) /\ Len(p) = n /\ \A j \in 1..n : p[j] = ss[j]
    BY <1>1, <1>2, SubSeqProperties
  <1>5. q \in Seq(V) /\ Len(q) = n /\ \A j \in 1..n : q[j] = tt[j]
    BY <1>1, <1>3, SubSeqProperties
  <1>6. p = q
    BY <1>4, <1>5, SeqEqual
  <1>7. QED
    BY <1>2, <1>3, <1>6

\* Joined sequences are in the order of the first that differ.
LEMMA FlattenLess ==
    ASSUME NEW ss \in Seq(Str), NEW tt \in Seq(Str), NEW i \in 1..Len(ss), i \in 1..Len(tt),
           \A j \in 1..(i - 1) : ss[j] = tt[j],
           NEW C, Sorted(C, ss[i], tt[i]), NEW x \in Str, NEW y \in Str,
           Cat(FlattenSeq(SubSeq(ss, i + 1, Len(ss))), x) \in C,
           Cat(FlattenSeq(SubSeq(tt, i + 1, Len(tt))), y) \in C
    PROVE  Less(Cat(FlattenSeq(ss), x), Cat(FlattenSeq(tt), y))
  <1>1. PICK p \in Seq(Str), a \in Seq(Str) :
            /\ p = SubSeq(ss, 1, i - 1) /\ a = SubSeq(ss, i + 1, Len(ss)) /\ ss[i] \in Str
            /\ FlattenSeq(p) \in Str /\ FlattenSeq(a) \in Str
            /\ FlattenSeq(ss) = Cat(FlattenSeq(p), Cat(ss[i], FlattenSeq(a)))
    BY FlattenAt
  <1>2. PICK q \in Seq(Str), b \in Seq(Str) :
            /\ q = SubSeq(tt, 1, i - 1) /\ b = SubSeq(tt, i + 1, Len(tt)) /\ tt[i] \in Str
            /\ FlattenSeq(q) \in Str /\ FlattenSeq(b) \in Str
            /\ FlattenSeq(tt) = Cat(FlattenSeq(q), Cat(tt[i], FlattenSeq(b)))
    BY FlattenAt
  <1>3. p = q
    <2>1. PICK h \in Nat : h = i - 1 /\ h <= Len(ss) /\ h <= Len(tt)
      OBVIOUS
    <2>2. SubSeq(ss, 1, h) = SubSeq(tt, 1, h)
      BY <2>1, SameStart
    <2>3. QED
      BY <1>1, <1>2, <2>1, <2>2
  <1>4. PICK fp \in Str, fa \in Str, fb \in Str, e \in Str, f \in Str :
            /\ fp = FlattenSeq(p) /\ fa = FlattenSeq(a) /\ fb = FlattenSeq(b)
            /\ e = ss[i] /\ f = tt[i]
    BY <1>1, <1>2
  <1>5. /\ Cat(FlattenSeq(ss), x) = Cat(fp, Cat(e, Cat(fa, x)))
        /\ Cat(FlattenSeq(tt), y) = Cat(fp, Cat(f, Cat(fb, y)))
    <2>1. FlattenSeq(ss) = Cat(fp, Cat(e, fa)) /\ FlattenSeq(tt) = Cat(fp, Cat(f, fb))
      BY <1>1, <1>2, <1>3, <1>4
    <2>2. /\ Cat(Cat(fp, Cat(e, fa)), x) = Cat(fp, Cat(e, Cat(fa, x)))
          /\ Cat(Cat(fp, Cat(f, fb)), y) = Cat(fp, Cat(f, Cat(fb, y)))
      BY CatAssociative4
    <2>3. QED
      BY <2>1, <2>2
  <1>6. Cat(fa, x) \in C /\ Cat(fb, y) \in C
    BY <1>1, <1>2, <1>4
  <1>7. Less(Cat(e, Cat(fa, x)), Cat(f, Cat(fb, y)))
    BY <1>4, <1>6 DEF Sorted
  <1>8. Cat(e, Cat(fa, x)) \in Str /\ Cat(f, Cat(fb, y)) \in Str
    BY CatStr
  <1>9. QED
    BY <1>5, <1>7, <1>8, CatLess

\* A joined sequence continues the joined sequence of its beginning.
LEMMA FlattenLonger ==
    ASSUME NEW ss \in Seq(Str), NEW tt \in Seq(Str), Len(ss) < Len(tt),
           \A j \in 1..Len(ss) : ss[j] = tt[j]
    PROVE  \E r \in Seq(Str) :
              /\ tt[Len(ss) + 1] \in Str /\ FlattenSeq(r) \in Str
              /\ r = SubSeq(tt, Len(ss) + 2, Len(tt))
              /\ FlattenSeq(tt) = Cat(FlattenSeq(ss), Cat(tt[Len(ss) + 1], FlattenSeq(r)))
  <1>1. PICK m \in Nat, n \in Nat : m = Len(ss) /\ n = Len(tt) /\ m < n
    OBVIOUS
  <1>2. PICK i \in 1..Len(tt) : i = m + 1 /\ i - 1 = m /\ i + 1 = m + 2
    BY <1>1
  <1>3. PICK q \in Seq(Str), b \in Seq(Str) :
            /\ q = SubSeq(tt, 1, i - 1) /\ b = SubSeq(tt, i + 1, Len(tt)) /\ tt[i] \in Str
            /\ FlattenSeq(q) \in Str /\ FlattenSeq(b) \in Str
            /\ FlattenSeq(tt) = Cat(FlattenSeq(q), Cat(tt[i], FlattenSeq(b)))
    BY FlattenAt
  <1>4. q = ss
    <2>1. SubSeq(ss, 1, m) = SubSeq(tt, 1, m)
      <3>1. m <= Len(ss) /\ m <= Len(tt) /\ \A j \in 1..m : ss[j] = tt[j]
        BY <1>1
      <3>2. QED
        BY <3>1, SameStart
    <2>2. SubSeq(ss, 1, m) = ss
      BY <1>1
    <2>3. QED
      BY <1>2, <1>3, <2>1, <2>2
  <1>5. QED
    BY <1>1, <1>2, <1>3, <1>4

-----------------------------------------------------------------------------
(* Numbers *)

\* Induction on all smaller numbers.
LEMMA StrongInduction ==
    ASSUME NEW S \in SUBSET Nat,
           \A n \in Nat : (\A m \in Nat : m < n => m \in S) => n \in S
    PROVE  \A n \in Nat : n \in S
  <1> SUFFICES ASSUME Nat \ S # {} PROVE FALSE
    OBVIOUS
  <1> DEFINE N == Nat \ S
  <1>1. N \in SUBSET Nat /\ N # {}
    OBVIOUS
  <1>2. PICK n \in N : \A m \in N : n <= m
    <2> HIDE DEF N
    <2>1. QED
      BY <1>1, LeastOf
  <1>3. \A m \in Nat : m < n => m \in S
    BY <1>2
  <1>4. QED
    BY <1>2, <1>3

\* A number, by its last digit and the others.
LEMMA Division ==
    ASSUME NEW n \in Nat
    PROVE  /\ n \div Base \in Nat /\ n % Base \in Bytes
           /\ n = (n \div Base) * Base + (n % Base)
           /\ n # 0 => n \div Base < n
           /\ Base <= n => n \div Base # 0
  <1>1. Base \in Nat /\ Base > 1 /\ Bytes = 0..(Base - 1)
    BY ByteNumbers DEF Bytes
  <1>2. n \div Base \in Nat /\ n % Base \in 0..(Base - 1)
    BY <1>1
  <1>3. n = Base * (n \div Base) + (n % Base)
    BY <1>1
  <1>4. n # 0 => n \div Base < n
    BY <1>1
  <1>5. Base <= n => n \div Base # 0
    BY <1>1
  <1>6. Base * (n \div Base) = (n \div Base) * Base
    BY <1>1, <1>2
  <1>7. n = (n \div Base) * Base + (n % Base)
    BY <1>3, <1>6
  <1>8. n % Base \in Bytes
    BY <1>1, <1>2
  <1>9. QED
    BY <1>2, <1>4, <1>5, <1>7, <1>8

\* A string with one more byte is a string.
LEMMA AppendStr == ASSUME NEW s \in Str, NEW b \in Bytes PROVE Append(s, b) \in Str
  BY DEF Str

\* A byte is a string.
LEMMA OneByte == ASSUME NEW b \in Bytes PROVE <<b>> \in Str /\ <<b>> # <<>> /\ <<b>>[1] = b
  BY DEF Str

\* binary:encode_unsigned/1 is defined for every number.
LEMMA EncodeUnsigned ==
    /\ encode_unsigned \in [Nat -> Str]
    /\ \A n \in Nat : encode_unsigned[n] =
          IF n < Base THEN <<n>> ELSE Append(encode_unsigned[n \div Base], n % Base)
  <1> DEFINE V == Str
             r == [n \in Nat |-> n]
             Is(g) == g = [n \in Nat |-> IF n < Base THEN <<n>> ELSE Append(g[n \div Base], n % Base)]
             F == [g \in [Nat -> V] |->
                      [n \in Nat |-> IF n < Base THEN <<n>> ELSE Append(g[n \div Base], n % Base)]]
  <1>1. \A n \in Nat : n < Base => <<n>> \in V
    <2>1. \A n \in Nat : n < Base => n \in Bytes
      BY ByteNumbers DEF Bytes
    <2>2. QED
      BY <2>1, OneByte
  <1>2. \A n \in Nat : ~(n < Base) => n \div Base \in Nat /\ n \div Base < n /\ n % Base \in Bytes
    <2> SUFFICES ASSUME NEW n \in Nat, ~(n < Base)
                 PROVE  n \div Base \in Nat /\ n \div Base < n /\ n % Base \in Bytes
      OBVIOUS
    <2>1. n # 0
      BY ByteNumbers
    <2>2. QED
      BY <2>1, Division
  <1>3. ASSUME NEW g, NEW n \in Nat, ~(n < Base) => g[n \div Base] \in V
        PROVE  (IF n < Base THEN <<n>> ELSE Append(g[n \div Base], n % Base)) \in V
    BY <1>1, <1>2, <1>3, AppendStr
  <1>4. F \in [[Nat -> V] -> [Nat -> V]]
    <2>1. \A g \in [Nat -> V], n \in Nat :
              (IF n < Base THEN <<n>> ELSE Append(g[n \div Base], n % Base)) \in V
      BY <1>2, <1>3
    <2> HIDE DEF V
    <2>2. QED
      BY <2>1
  <1>5. Smaller(Nat, V, r, F)
    <2> SUFFICES ASSUME NEW g \in [Nat -> V], NEW h \in [Nat -> V], NEW n \in Nat,
                        \A y \in Nat : r[y] < r[n] => g[y] = h[y]
                 PROVE  F[g][n] = F[h][n]
      BY DEF Smaller
    <2>1. ~(n < Base) => g[n \div Base] = h[n \div Base]
      BY <1>2
    <2>2. QED
      BY <2>1
  <1>6. Recursive(Nat, V, r, F)
    <2>1. V # {} /\ r \in [Nat -> Nat]
      BY StrConcat
    <2> HIDE DEF V, r, F
    <2>2. QED
      BY <1>4, <1>5, <2>1 DEF Recursive
  <1>7. \E g : Is(g)
    <2>1. \A g \in [Nat -> V] : g = F[g] => Is(g)
      OBVIOUS
    <2> HIDE DEF V, r, F, Is
    <2>2. PICK g \in [Nat -> V] : g = F[g]
      BY <1>6, Recursion
    <2>3. QED
      BY <2>1, <2>2
  <1>8. Is(encode_unsigned)
    <2>1. encode_unsigned = CHOOSE g : Is(g)
      BY DEF encode_unsigned
    <2> HIDE DEF Is
    <2>2. QED
      BY <1>7, <2>1, Zenon
  <1>9. \A n \in Nat : encode_unsigned[n] =
            IF n < Base THEN <<n>> ELSE Append(encode_unsigned[n \div Base], n % Base)
    BY <1>8
  <1>10. \A n \in Nat : encode_unsigned[n] \in V
    <2> DEFINE Q == {n \in Nat : encode_unsigned[n] \in V}
    <2>1. \A n \in Nat : (\A m \in Nat : m < n => m \in Q) => n \in Q
      BY <1>2, <1>3, <1>9
    <2>2. Q \in SUBSET Nat
      OBVIOUS
    <2> HIDE DEF Q
    <2>3. \A n \in Nat : n \in Q
      BY <2>1, <2>2, StrongInduction
    <2>4. QED
      BY <2>3 DEF Q
  <1>11. encode_unsigned \in [Nat -> V]
    <2>1. encode_unsigned = [n \in Nat |-> encode_unsigned[n]]
      BY <1>8
    <2> HIDE DEF V
    <2>2. QED
      BY <1>10, <2>1
  <1>12. QED
    BY <1>9, <1>11

\* A string that is not empty has a last byte.
LEMMA FrontLast ==
    ASSUME NEW s \in Str, s # <<>>
    PROVE  /\ Front(s) \in Str /\ Last(s) \in Bytes /\ Len(Front(s)) = Len(s) - 1
           /\ Len(s) \in Nat /\ Len(s) > 0 /\ s = Append(Front(s), Last(s))
  <1>1. Len(s) \in Nat /\ Len(s) > 0
    BY EmptySeq DEF Str
  <1>2. PICK n \in Nat : n = Len(s) - 1
    BY <1>1
  <1>3. PICK f : f = SubSeq(s, 1, n)
    OBVIOUS
  <1>4. f \in Str /\ Len(f) = n /\ \A i \in 1..n : f[i] = s[i]
    BY <1>1, <1>2, <1>3 DEF Str
  <1>5. s[n + 1] \in Bytes
    BY <1>1, <1>2 DEF Str
  <1>6. s = Append(f, s[n + 1])
    <2>1. PICK u : u = Append(f, s[n + 1])
      OBVIOUS
    <2>2. u \in Seq(Bytes) /\ Len(u) = n + 1 /\ u[n + 1] = s[n + 1] /\ \A i \in 1..n : u[i] = f[i]
      BY <1>4, <1>5, <2>1, AppendProperties DEF Str
    <2>3. \A i \in 1..(n + 1) : u[i] = s[i]
      BY <1>4, <2>2
    <2>4. u = s
      BY <1>1, <1>2, <2>2, <2>3, SeqEqual DEF Str
    <2>5. QED
      BY <2>1, <2>4
  <1>7. Front(s) = f /\ Last(s) = s[n + 1]
    BY <1>1, <1>2, <1>3 DEF Front, Last
  <1>8. QED
    BY <1>1, <1>2, <1>4, <1>5, <1>6, <1>7

\* The last byte of a string with one more byte.
LEMMA FrontAppend ==
    ASSUME NEW s \in Str, NEW b \in Bytes
    PROVE  /\ Append(s, b) \in Str /\ Append(s, b) # <<>> /\ Len(Append(s, b)) = Len(s) + 1
           /\ Front(Append(s, b)) = s /\ Last(Append(s, b)) = b
  <1>1. PICK u \in Str : u = Append(s, b)
    BY AppendStr
  <1>2. u # <<>> /\ Len(u) = Len(s) + 1 /\ Len(s) \in Nat
    BY <1>1, AppendProperties DEF Str
  <1>3. Front(u) \in Str /\ Last(u) \in Bytes /\ u = Append(Front(u), Last(u))
    BY <1>2, FrontLast
  <1>4. s = Front(u) /\ b = Last(u)
    <2>1. PICK f \in Str, l \in Bytes : f = Front(u) /\ l = Last(u)
      BY <1>3
    <2>2. Append(s, b) = Append(f, l)
      BY <1>1, <1>3, <2>1
    <2>3. s = f /\ b = l
      BY <2>2, AppendInjective DEF Str
    <2>4. QED
      BY <2>1, <2>3
  <1>5. QED
    BY <1>1, <1>2, <1>4

\* Every string is empty or ends with a byte.
LEMMA StrAppend ==
    ASSUME NEW s \in Str, s # <<>>
    PROVE  \E f \in Str, b \in Bytes : s = Append(f, b) /\ Len(f) = Len(s) - 1
  BY FrontLast

\* Induction on strings.
LEMMA StrInduction ==
    ASSUME NEW S \in SUBSET Str, <<>> \in S, \A s \in S, b \in Bytes : Append(s, b) \in S
    PROVE  \A s \in Str : s \in S
  <1> DEFINE Q == {n \in Nat : \A s \in Str : Len(s) = n => s \in S}
  <1>1. 0 \in Q
    <2>1. \A s \in Str : Len(s) = 0 => s = <<>>
      BY EmptySeq DEF Str
    <2>2. QED
      BY <2>1
  <1>2. ASSUME NEW n \in Q PROVE n + 1 \in Q
    <2> SUFFICES ASSUME NEW s \in Str, Len(s) = n + 1 PROVE s \in S
      OBVIOUS
    <2>1. s # <<>>
      <3>1. Len(s) # 0
        OBVIOUS
      <3>2. QED
        BY <3>1, EmptySeq DEF Str
    <2>2. PICK f \in Str, b \in Bytes : s = Append(f, b) /\ Len(f) = Len(s) - 1
      BY <2>1, StrAppend
    <2>3. Len(f) = n
      BY <2>2
    <2>4. QED
      BY <2>2, <2>3
  <1>3. Q \in SUBSET Nat
    OBVIOUS
  <1>4. \A n \in Nat : n \in Q
    <2> HIDE DEF Q
    <2>1. QED
      BY <1>1, <1>2, <1>3, SetInduction
  <1>5. \A s \in Str : Len(s) \in Nat
    BY LenProperties DEF Str
  <1>6. QED
    BY <1>4, <1>5

\* The number of some bytes is defined for every string.
LEMMA UnsignedFacts ==
    /\ Unsigned \in [Str -> Nat]
    /\ Unsigned[<<>>] = 0
    /\ \A s \in Str, b \in Bytes : Unsigned[Append(s, b)] = Unsigned[s] * Base + b
  <1> DEFINE r == [s \in Str |-> Len(s)]
             Is(g) == g = [s \in Str |-> IF s = <<>> THEN 0 ELSE g[Front(s)] * Base + Last(s)]
             F == [g \in [Str -> Nat] |->
                      [s \in Str |-> IF s = <<>> THEN 0 ELSE g[Front(s)] * Base + Last(s)]]
  <1>1. \A s \in Str : s # <<>> => Front(s) \in Str /\ Last(s) \in Nat /\ r[Front(s)] < r[s]
    <2> SUFFICES ASSUME NEW s \in Str, s # <<>>
                 PROVE  Front(s) \in Str /\ Last(s) \in Nat /\ r[Front(s)] < r[s]
      OBVIOUS
    <2>1. Front(s) \in Str /\ Last(s) \in Bytes /\ Len(Front(s)) = Len(s) - 1 /\ Len(s) \in Nat
      BY FrontLast
    <2>2. Len(Front(s)) < Len(s)
      BY <2>1
    <2>3. QED
      BY <2>1, <2>2, ByteNumbers
  <1>2. \A m, k \in Nat : m * Base + k \in Nat
    BY ByteNumbers
  <1>3. F \in [[Str -> Nat] -> [Str -> Nat]]
    <2>1. \A g \in [Str -> Nat], s \in Str :
             (IF s = <<>> THEN 0 ELSE g[Front(s)] * Base + Last(s)) \in Nat
      BY <1>1, <1>2
    <2>2. QED
      BY <2>1
  <1>4. Smaller(Str, Nat, r, F)
    <2> SUFFICES ASSUME NEW g \in [Str -> Nat], NEW h \in [Str -> Nat], NEW s \in Str,
                        \A y \in Str : r[y] < r[s] => g[y] = h[y]
                 PROVE  F[g][s] = F[h][s]
      BY DEF Smaller
    <2>1. s # <<>> => g[Front(s)] = h[Front(s)]
      BY <1>1
    <2>2. QED
      BY <2>1
  <1>5. Recursive(Str, Nat, r, F)
    <2>1. r \in [Str -> Nat]
      BY LenProperties DEF Str
    <2> HIDE DEF r, F
    <2>2. QED
      BY <1>3, <1>4, <2>1 DEF Recursive
  <1>6. \E g : Is(g)
    <2>1. \A g \in [Str -> Nat] : g = F[g] => Is(g)
      OBVIOUS
    <2> HIDE DEF r, F, Is
    <2>2. PICK g \in [Str -> Nat] : g = F[g]
      BY <1>5, Recursion
    <2>3. QED
      BY <2>1, <2>2
  <1>7. Is(Unsigned)
    <2>1. Unsigned = CHOOSE g : Is(g)
      BY DEF Unsigned, Str
    <2> HIDE DEF Is
    <2>2. QED
      BY <1>6, <2>1, Zenon
  <1>8. Unsigned[<<>>] = 0
    BY <1>7, StrConcat
  <1>9. ASSUME NEW s \in Str, NEW b \in Bytes
        PROVE  Unsigned[Append(s, b)] = Unsigned[s] * Base + b
    <2>1. PICK u \in Str : u = Append(s, b) /\ u # <<>> /\ Front(u) = s /\ Last(u) = b
      BY FrontAppend
    <2>2. Unsigned[u] = Unsigned[Front(u)] * Base + Last(u)
      BY <1>7, <2>1
    <2>3. QED
      BY <2>1, <2>2
  <1>10. \A s \in Str : Unsigned[s] \in Nat
    <2> DEFINE Q == {s \in Str : Unsigned[s] \in Nat}
    <2>1. <<>> \in Q
      BY <1>8, StrConcat
    <2>2. \A s \in Q, b \in Bytes : Append(s, b) \in Q
      BY <1>2, <1>9, AppendStr, ByteNumbers
    <2>3. Q \in SUBSET Str
      OBVIOUS
    <2> HIDE DEF Q
    <2>4. \A s \in Str : s \in Q
      BY <2>1, <2>2, <2>3, StrInduction
    <2>5. QED
      BY <2>4 DEF Q
  <1>11. Unsigned \in [Str -> Nat]
    <2>1. Unsigned = [s \in Str |-> Unsigned[s]]
      BY <1>7
    <2>2. QED
      BY <1>10, <2>1
  <1>12. QED
    BY <1>8, <1>9, <1>11

\* 1 bsl (Size * 8) is defined for every size.
LEMMA PowerFacts ==
    /\ Power \in [Nat -> Nat]
    /\ Power[0] = 1
    /\ \A n \in Nat : Power[n + 1] = Base * Power[n]
  <1> DEFINE V == Nat
             r == [n \in Nat |-> n]
             Is(g) == g = [n \in Nat |-> IF n = 0 THEN 1 ELSE Base * g[n - 1]]
             F == [g \in [Nat -> V] |-> [n \in Nat |-> IF n = 0 THEN 1 ELSE Base * g[n - 1]]]
  <1>1. \A m \in Nat : Base * m \in Nat
    BY ByteNumbers
  <1>2. F \in [[Nat -> V] -> [Nat -> V]]
    <2>1. \A g \in [Nat -> V], n \in Nat : (IF n = 0 THEN 1 ELSE Base * g[n - 1]) \in Nat
      BY <1>1
    <2>2. QED
      BY <2>1
  <1>3. Smaller(Nat, V, r, F)
    <2> SUFFICES ASSUME NEW g \in [Nat -> V], NEW h \in [Nat -> V], NEW n \in Nat,
                        \A y \in Nat : r[y] < r[n] => g[y] = h[y]
                 PROVE  F[g][n] = F[h][n]
      BY DEF Smaller
    <2>1. n # 0 => n - 1 \in Nat /\ r[n - 1] < r[n]
      OBVIOUS
    <2>2. n # 0 => g[n - 1] = h[n - 1]
      BY <2>1
    <2>3. QED
      BY <2>2
  <1>4. Recursive(Nat, V, r, F)
    <2>1. V # {} /\ r \in [Nat -> Nat]
      OBVIOUS
    <2> HIDE DEF V, r, F
    <2>2. QED
      BY <1>2, <1>3, <2>1 DEF Recursive
  <1>5. \E g : Is(g)
    <2>1. \A g \in [Nat -> V] : g = F[g] => Is(g)
      OBVIOUS
    <2> HIDE DEF V, r, F, Is
    <2>2. PICK g \in [Nat -> V] : g = F[g]
      BY <1>4, Recursion
    <2>3. QED
      BY <2>1, <2>2
  <1>6. Is(Power)
    <2>1. Power = CHOOSE g : Is(g)
      BY DEF Power
    <2> HIDE DEF Is
    <2>2. QED
      BY <1>5, <2>1, Zenon
  <1>7. Power[0] = 1 /\ \A n \in Nat : Power[n + 1] = Base * Power[n]
    BY <1>6
  <1>8. \A n \in Nat : Power[n] \in Nat
    <2> DEFINE Q == {n \in Nat : Power[n] \in Nat}
    <2>1. Q \in SUBSET Nat /\ 0 \in Q /\ \A n \in Q : n + 1 \in Q
      <3> HIDE DEF V
      <3>1. QED
        BY <1>1, <1>7
    <2> HIDE DEF Q
    <2>2. \A n \in Nat : n \in Q
      BY <2>1, SetInduction
    <2>3. QED
      BY <2>2 DEF Q
  <1>9. Power \in [Nat -> Nat]
    <2>1. Power = [n \in Nat |-> Power[n]]
      BY <1>6
    <2>2. QED
      BY <1>8, <2>1
  <1>10. QED
    BY <1>7, <1>9

\* The length and the bytes of a string.
LEMMA StrFacts ==
    ASSUME NEW s \in Str
    PROVE  /\ Len(s) \in Nat /\ s \in Seq(Nat) /\ s \in [1..Len(s) -> Bytes]
           /\ s = <<>> \/ (Len(s) > 0 /\ s[1] \in Bytes)
  <1>1. Len(s) \in Nat /\ s \in [1..Len(s) -> Bytes]
    BY DEF Str
  <1>2. s \in Seq(Nat)
    BY StrNat
  <1>3. s = <<>> \/ (Len(s) > 0 /\ s[1] \in Bytes)
    BY <1>1, EmptySeq DEF Str
  <1>4. QED
    BY <1>1, <1>2, <1>3

\* Of two strings of the same length, the first that differs decides, whatever follows.
LEMMA LessSame ==
    ASSUME NEW s \in Str, NEW t \in Str, Len(s) = Len(t), Less(s, t)
    PROVE  Sorted(Str, s, t)
  <1> SUFFICES ASSUME NEW x \in Str, NEW y \in Str PROVE Less(Cat(s, x), Cat(t, y))
    BY DEF Sorted
  <1>1. s \in Seq(Nat) /\ t \in Seq(Nat) /\ x \in Seq(Nat) /\ y \in Seq(Nat)
    BY StrFacts
  <1>2. PICK i \in Nat : LessAt(s, t, i)
    BY <1>1, LessIff
  <1>3. PICK n \in Nat : n = Len(s) /\ n = Len(t)
    BY <1>1
  <1>4. i \in 1..n /\ s[i] < t[i] /\ \A j \in 1..(i - 1) : s[j] = t[j]
    BY <1>2, <1>3 DEF LessAt
  <1>5. PICK u \in Seq(Nat) : u = s \o x /\ Len(u) = Len(s) + Len(x)
            /\ \A j \in 1..Len(s) : u[j] = s[j]
    BY <1>1, ConcatPoints, ZenonT(30)
  <1>6. PICK v \in Seq(Nat) : v = t \o y /\ Len(v) = Len(t) + Len(y)
            /\ \A j \in 1..Len(t) : v[j] = t[j]
    BY <1>1, ConcatPoints, ZenonT(30)
  <1>7. PICK h \in Nat, k \in Nat : h = Len(x) /\ k = Len(y)
    BY <1>1
  <1>8. i \in 1..Len(v) /\ i <= Len(u) + 1
    BY <1>3, <1>4, <1>5, <1>6, <1>7
  <1>9. u[i] < v[i] /\ \A j \in 1..(i - 1) : u[j] = v[j]
    BY <1>3, <1>4, <1>5, <1>6
  <1>10. LessAt(u, v, i)
    BY <1>8, <1>9 DEF LessAt
  <1>11. Less(u, v)
    BY <1>10, LessIff
  <1>12. QED
    BY <1>5, <1>6, <1>11 DEF Cat

\* One more byte, as strings that are joined.
LEMMA AppendCat == ASSUME NEW s \in Str, NEW b \in Bytes PROVE Append(s, b) = Cat(s, <<b>>)
  BY AppendIsConcat DEF Cat, Str

\* The sizes of encoded numbers.
LEMMA NumberLen ==
    ASSUME NEW n \in Nat
    PROVE  /\ encode_unsigned[n] \in Str /\ Len(encode_unsigned[n]) \in Nat
           /\ Len(encode_unsigned[n]) >= 1
           /\ n < Base => encode_unsigned[n] = <<n>> /\ Len(encode_unsigned[n]) = 1
           /\ ~(n < Base) =>
                /\ n \div Base \in Nat /\ n \div Base < n /\ n % Base \in Bytes
                /\ encode_unsigned[n] = Append(encode_unsigned[n \div Base], n % Base)
                /\ Len(encode_unsigned[n]) = Len(encode_unsigned[n \div Base]) + 1
                /\ Len(encode_unsigned[n]) >= 2
  <1>1. \A m \in Nat : ~(m < Base) =>
            /\ m \div Base \in Nat /\ m \div Base < m /\ m % Base \in Bytes
            /\ encode_unsigned[m] = Append(encode_unsigned[m \div Base], m % Base)
            /\ Len(encode_unsigned[m]) = Len(encode_unsigned[m \div Base]) + 1
    <2> SUFFICES ASSUME NEW m \in Nat, ~(m < Base)
                 PROVE  /\ m \div Base \in Nat /\ m \div Base < m /\ m % Base \in Bytes
                        /\ encode_unsigned[m] = Append(encode_unsigned[m \div Base], m % Base)
                        /\ Len(encode_unsigned[m]) = Len(encode_unsigned[m \div Base]) + 1
      OBVIOUS
    <2>1. m # 0
      BY ByteNumbers
    <2>2. m \div Base \in Nat /\ m \div Base < m /\ m % Base \in Bytes
      BY <2>1, Division
    <2>3. encode_unsigned[m] = Append(encode_unsigned[m \div Base], m % Base)
      BY EncodeUnsigned
    <2>4. encode_unsigned[m \div Base] \in Str
      BY <2>2, EncodeUnsigned
    <2>5. QED
      BY <2>2, <2>3, <2>4, FrontAppend
  <1>2. \A m \in Nat : encode_unsigned[m] \in Str /\ Len(encode_unsigned[m]) \in Nat
    BY EncodeUnsigned, StrFacts
  <1>3. \A m \in Nat : m < Base => encode_unsigned[m] = <<m>> /\ Len(encode_unsigned[m]) = 1
    BY EncodeUnsigned
  <1>4. \A m \in Nat : Len(encode_unsigned[m]) >= 1
    <2> SUFFICES ASSUME NEW m \in Nat PROVE Len(encode_unsigned[m]) >= 1
      OBVIOUS
    <2>1. CASE m < Base
      BY <1>3, <2>1
    <2>2. CASE ~(m < Base)
      <3>1. PICK k \in Nat : k = Len(encode_unsigned[m \div Base])
        BY <1>1, <1>2, <2>2
      <3>2. QED
        BY <1>1, <2>2, <3>1
    <2>3. QED
      BY <2>1, <2>2
  <1>5. ~(n < Base) => Len(encode_unsigned[n]) >= 2
    <2> SUFFICES ASSUME ~(n < Base) PROVE Len(encode_unsigned[n]) >= 2
      OBVIOUS
    <2>1. PICK k \in Nat : k = Len(encode_unsigned[n \div Base]) /\ k >= 1
      BY <1>1, <1>2, <1>4
    <2>2. QED
      BY <1>1, <2>1
  <1>6. QED
    BY <1>1, <1>2, <1>3, <1>4, <1>5

\* The digits before the last keep the order.
LEMMA DivMonotone ==
    ASSUME NEW n \in Nat, NEW m \in Nat, n <= m
    PROVE  /\ n \div Base <= m \div Base
           /\ n \div Base = m \div Base => n % Base <= m % Base
           /\ n \div Base = m \div Base /\ n < m => n % Base < m % Base
  <1>1. Base \in Nat /\ Base > 1
    BY ByteNumbers
  <1>2. PICK a \in Nat, x \in Nat : a = n \div Base /\ x = n % Base /\ n = a * Base + x /\ x < Base
    <2>1. n \div Base \in Nat /\ n % Base \in Bytes /\ n = (n \div Base) * Base + (n % Base)
      BY Division
    <2>2. n % Base \in Nat /\ n % Base < Base
      BY <2>1, ByteNumbers DEF Bytes
    <2>3. QED
      BY <2>1, <2>2
  <1>3. PICK b \in Nat, y \in Nat : b = m \div Base /\ y = m % Base /\ m = b * Base + y /\ y < Base
    <2>1. m \div Base \in Nat /\ m % Base \in Bytes /\ m = (m \div Base) * Base + (m % Base)
      BY Division
    <2>2. m % Base \in Nat /\ m % Base < Base
      BY <2>1, ByteNumbers DEF Bytes
    <2>3. QED
      BY <2>1, <2>2
  <1>4. PICK c \in Nat : c = Base /\ c > 1
    BY <1>1
  <1>5. a <= b
    <2> SUFFICES ASSUME ~(a <= b) PROVE FALSE
      OBVIOUS
    <2>1. PICK d \in Nat : a = b + d + 1
      <3>1. (a - b) - 1 \in Nat /\ a = b + ((a - b) - 1) + 1
        OBVIOUS
      <3>2. QED
        BY <3>1
    <2>2. a * c = b * c + d * c + c
      BY <2>1
    <2>3. d * c \in Nat /\ b * c \in Nat
      OBVIOUS
    <2>4. n = b * c + d * c + c + x /\ m = b * c + y /\ y < c
      BY <1>2, <1>3, <1>4, <2>2
    <2>5. QED
      BY <2>3, <2>4
  <1>6. a = b => x <= y /\ (n < m => x < y)
    <2> SUFFICES ASSUME a = b PROVE x <= y /\ (n < m => x < y)
      OBVIOUS
    <2>1. PICK e \in Nat : e = a * Base
      BY <1>1
    <2>2. n = e + x /\ m = e + y
      BY <1>2, <1>3, <2>1
    <2>3. QED
      BY <2>2
  <1>7. QED
    BY <1>2, <1>3, <1>5, <1>6

\* A larger number is not shorter.
LEMMA NumberLenMonotone ==
    \A m \in Nat : \A n \in Nat : n <= m => Len(encode_unsigned[n]) <= Len(encode_unsigned[m])
  <1> DEFINE S == {m \in Nat : \A n \in Nat : n <= m => Len(encode_unsigned[n]) <= Len(encode_unsigned[m])}
  <1>1. ASSUME NEW m \in Nat, \A k \in Nat : k < m => k \in S PROVE m \in S
    <2> SUFFICES ASSUME NEW n \in Nat, n <= m
                 PROVE  Len(encode_unsigned[n]) <= Len(encode_unsigned[m])
      OBVIOUS
    <2>1. CASE n < Base
      BY <2>1, NumberLen
    <2>2. CASE ~(n < Base)
      <3>1. ~(m < Base)
        BY <2>2, ByteNumbers
      <3>2. PICK a \in Nat : a = n \div Base
        BY <2>2, NumberLen
      <3>3. PICK b \in Nat : b = m \div Base /\ b < m
        BY <3>1, NumberLen
      <3>4. a <= b
        BY <3>2, <3>3, DivMonotone
      <3>5. Len(encode_unsigned[a]) <= Len(encode_unsigned[b])
        BY <1>1, <3>3, <3>4
      <3>6. PICK x \in Nat : x = Len(encode_unsigned[a]) /\ Len(encode_unsigned[n]) = x + 1
        BY <2>2, <3>2, NumberLen
      <3>7. PICK y \in Nat : y = Len(encode_unsigned[b]) /\ Len(encode_unsigned[m]) = y + 1
        BY <3>1, <3>3, NumberLen
      <3>8. QED
        BY <3>5, <3>6, <3>7
    <2>3. QED
      BY <2>1, <2>2
  <1>2. S \in SUBSET Nat
    OBVIOUS
  <1>3. \A m \in Nat : m \in S
    <2> HIDE DEF S
    <2>1. QED
      BY <1>1, <1>2, StrongInduction
  <1>4. QED
    BY <1>3

\* The last bytes decide, if they differ.
LEMMA LessByte ==
    ASSUME NEW a \in Bytes, NEW b \in Bytes, a < b, NEW s \in Str
    PROVE  Less(<<a>>, <<b>>) /\ Less(Append(s, a), Append(s, b))
  <1>1. <<a>> \in Str /\ <<b>> \in Str /\ <<a>> \in Seq(Nat) /\ <<b>> \in Seq(Nat)
    BY OneByte, StrFacts
  <1>2. Less(<<a>>, <<b>>)
    BY <1>1, OneByte, LessFirst
  <1>3. QED
    BY <1>1, <1>2, CatLess, AppendCat

\* Of two numbers of the same size, the larger one comes later.
LEMMA NumberOrder ==
    \A m \in Nat : \A n \in Nat :
        n < m /\ Len(encode_unsigned[n]) = Len(encode_unsigned[m])
            => Less(encode_unsigned[n], encode_unsigned[m])
  <1> DEFINE S == {m \in Nat : \A n \in Nat :
                      n < m /\ Len(encode_unsigned[n]) = Len(encode_unsigned[m])
                          => Less(encode_unsigned[n], encode_unsigned[m])}
  <1>1. ASSUME NEW m \in Nat, \A k \in Nat : k < m => k \in S PROVE m \in S
    <2> SUFFICES ASSUME NEW n \in Nat, n < m, Len(encode_unsigned[n]) = Len(encode_unsigned[m])
                 PROVE  Less(encode_unsigned[n], encode_unsigned[m])
      OBVIOUS
    <2>1. CASE m < Base
      <3>1. n < Base
        BY <2>1, ByteNumbers
      <3>2. n \in Bytes /\ m \in Bytes
        BY <2>1, <3>1, ByteNumbers DEF Bytes
      <3>3. QED
        BY <2>1, <3>1, <3>2, NumberLen, LessByte, StrConcat
    <2>2. CASE ~(m < Base)
      <3>1. ~(n < Base)
        BY <2>2, NumberLen
      <3>2. PICK a \in Nat, c \in Bytes, s \in Str :
                /\ a = n \div Base /\ c = n % Base /\ s = encode_unsigned[a] /\ Len(s) \in Nat
                /\ encode_unsigned[n] = Append(s, c) /\ Len(encode_unsigned[n]) = Len(s) + 1
        BY <3>1, NumberLen
      <3>3. PICK b \in Nat, d \in Bytes, t \in Str :
                /\ b = m \div Base /\ d = m % Base /\ t = encode_unsigned[b] /\ Len(t) \in Nat
                /\ encode_unsigned[m] = Append(t, d) /\ Len(encode_unsigned[m]) = Len(t) + 1
                /\ b < m
        BY <2>2, NumberLen
      <3>4. Len(s) = Len(t)
        BY <3>2, <3>3
      <3>5. a <= b /\ (a = b => c < d)
        BY <3>2, <3>3, DivMonotone
      <3>6. CASE a = b
        BY <3>2, <3>3, <3>5, <3>6, LessByte
      <3>7. CASE a < b
        <4>1. Less(s, t)
          BY <1>1, <3>2, <3>3, <3>4, <3>7
        <4>2. <<c>> \in Str /\ <<d>> \in Str
          BY OneByte
        <4>3. Less(Cat(s, <<c>>), Cat(t, <<d>>))
          BY <3>4, <4>1, <4>2, LessSame DEF Sorted
        <4>4. QED
          BY <3>2, <3>3, <4>3, AppendCat
      <3>8. QED
        BY <3>5, <3>6, <3>7
    <2>3. QED
      BY <2>1, <2>2
  <1>2. S \in SUBSET Nat
    OBVIOUS
  <1>3. \A m \in Nat : m \in S
    <2> HIDE DEF S
    <2>1. QED
      BY <1>1, <1>2, StrongInduction
  <1>4. QED
    BY <1>3

\* The bytes of a number are read back.
LEMMA NumberBack == \A n \in Nat : Unsigned[encode_unsigned[n]] = n
  <1> DEFINE S == {n \in Nat : Unsigned[encode_unsigned[n]] = n}
  <1>1. ASSUME NEW n \in Nat, \A k \in Nat : k < n => k \in S PROVE n \in S
    <2>1. CASE n < Base
      <3>1. n \in Bytes
        BY <2>1, ByteNumbers DEF Bytes
      <3>2. <<n>> = Append(<<>>, n)
        BY <3>1
      <3>3. Unsigned[Append(<<>>, n)] = 0 * Base + n
        BY <3>1, UnsignedFacts, StrConcat
      <3>4. 0 * Base + n = n
        BY ByteNumbers
      <3>5. QED
        BY <2>1, <3>2, <3>3, <3>4, NumberLen
    <2>2. CASE ~(n < Base)
      <3>0. PICK a \in Nat, c \in Bytes :
                a = n \div Base /\ c = n % Base /\ a < n
                    /\ encode_unsigned[n] = Append(encode_unsigned[a], c)
        BY <2>2, NumberLen
      <3>1. PICK s \in Str : s = encode_unsigned[a] /\ encode_unsigned[n] = Append(s, c)
        BY <3>0, NumberLen
      <3>2. Unsigned[s] = a
        BY <1>1, <3>0, <3>1
      <3>3. Unsigned[Append(s, c)] = a * Base + c
        BY <3>2, UnsignedFacts
      <3>4. n = a * Base + c
        BY <3>0, Division
      <3>5. QED
        BY <3>1, <3>3, <3>4
    <2>3. QED
      BY <2>1, <2>2
  <1>2. S \in SUBSET Nat
    OBVIOUS
  <1>3. \A n \in Nat : n \in S
    <2> HIDE DEF S
    <2>1. QED
      BY <1>1, <1>2, StrongInduction
  <1>4. QED
    BY <1>3

-----------------------------------------------------------------------------
(* Inverted bytes *)

\* bxor 16#FF is its own inverse, on a byte.
LEMMA InvertedByte == ASSUME NEW b \in Bytes PROVE ESCAPE - b \in Bytes /\ ESCAPE - (ESCAPE - b) = b
  BY ByteNumbers DEF Bytes

\* bxor 16#FF is its own inverse.
LEMMA InvertedStr ==
    ASSUME NEW s \in Str
    PROVE  /\ Inverted(s) \in Str /\ Len(Inverted(s)) = Len(s)
           /\ \A i \in 1..Len(s) : Inverted(s)[i] = ESCAPE - s[i]
           /\ Inverted(Inverted(s)) = s
  <1>1. PICK n \in Nat : n = Len(s) /\ DOMAIN s = 1..n /\ s \in [1..n -> Bytes]
    BY DEF Str
  <1>2. PICK t : t = Inverted(s)
    OBVIOUS
  <1>3. t \in [1..n -> Bytes] /\ \A i \in 1..n : t[i] = ESCAPE - s[i]
    <2>1. t = [i \in 1..n |-> ESCAPE - s[i]]
      BY <1>1, <1>2 DEF Inverted
    <2>2. \A i \in 1..n : ESCAPE - s[i] \in Bytes
      BY <1>1, InvertedByte
    <2>3. QED
      BY <2>1, <2>2
  <1>4. t \in Str /\ Len(t) = n /\ DOMAIN t = 1..n
    <2>1. t \in Seq(Bytes)
      BY <1>3, IsASeq
    <2>2. QED
      BY <1>3, <2>1, LenProperties DEF Str
  <1>5. Inverted(t) = s
    <2>1. Inverted(t) = [i \in 1..n |-> ESCAPE - t[i]]
      BY <1>4 DEF Inverted
    <2>2. \A i \in 1..n : ESCAPE - t[i] = s[i]
      BY <1>1, <1>3, InvertedByte
    <2>3. QED
      BY <1>1, <2>1, <2>2
  <1>6. QED
    BY <1>1, <1>2, <1>3, <1>4, <1>5

\* bxor 16#FF goes byte by byte.
LEMMA InvertedAppend ==
    ASSUME NEW s \in Str, NEW b \in Bytes
    PROVE  Inverted(Append(s, b)) = Append(Inverted(s), ESCAPE - b)
  <1>1. PICK u \in Str : u = Append(s, b) /\ Len(u) = Len(s) + 1
    BY FrontAppend
  <1>2. PICK n \in Nat : n = Len(s)
    BY StrFacts
  <1>3. u[n + 1] = b /\ \A i \in 1..n : u[i] = s[i]
    BY <1>1, <1>2, AppendProperties DEF Str
  <1>4. PICK v \in Str : v = Inverted(u) /\ Len(v) = n + 1 /\ \A i \in 1..(n + 1) : v[i] = ESCAPE - u[i]
    BY <1>1, <1>2, InvertedStr, ZenonT(30)
  <1>5. PICK t \in Str : t = Inverted(s) /\ Len(t) = n /\ \A i \in 1..n : t[i] = ESCAPE - s[i]
    BY <1>2, InvertedStr
  <1>6. PICK c \in Bytes : c = ESCAPE - b
    BY InvertedByte
  <1>7. PICK w \in Str : w = Append(t, c) /\ Len(w) = n + 1
    BY <1>5, FrontAppend
  <1>8. w[n + 1] = c /\ \A i \in 1..n : w[i] = t[i]
    BY <1>5, <1>7, AppendProperties DEF Str
  <1>9. \A i \in 1..(n + 1) : v[i] = w[i]
    <2> SUFFICES ASSUME NEW i \in 1..(n + 1) PROVE v[i] = w[i]
      OBVIOUS
    <2>1. CASE i = n + 1
      BY <1>3, <1>4, <1>6, <1>8, <2>1
    <2>2. CASE i # n + 1
      <3>1. i \in 1..n
        BY <2>2
      <3>2. QED
        BY <1>3, <1>4, <1>5, <1>8, <3>1
    <2>3. QED
      BY <2>1, <2>2
  <1>10. v = w
    BY <1>4, <1>7, <1>9, SeqEqual DEF Str
  <1>11. QED
    BY <1>1, <1>4, <1>5, <1>6, <1>7, <1>10

\* Bytes and the inverted bytes add up to the largest number of that size.
LEMMA InvertedNumber ==
    \A s \in Str : Unsigned[Inverted(s)] + Unsigned[s] = Power[Len(s)] - 1
  <1> DEFINE S == {s \in Str : Unsigned[Inverted(s)] + Unsigned[s] = Power[Len(s)] - 1}
  <1>1. <<>> \in S
    <2>1. <<>> \in Str /\ Len(<<>>) = 0
      BY StrConcat
    <2>2. Inverted(<<>>) = <<>>
      <3>1. Inverted(<<>>) \in Str /\ Len(Inverted(<<>>)) = 0
        BY <2>1, InvertedStr
      <3>2. QED
        BY <3>1, EmptySeq DEF Str
    <2>3. QED
      BY <2>1, <2>2, UnsignedFacts, PowerFacts
  <1>2. ASSUME NEW s \in S, NEW b \in Bytes PROVE Append(s, b) \in S
    <2>1. s \in Str /\ Len(s) \in Nat
      BY StrFacts
    <2>2. PICK t \in Str : t = Inverted(s)
      BY <2>1, InvertedStr
    <2>3. PICK c \in Bytes : c = ESCAPE - b
      BY InvertedByte
    <2>4. PICK x \in Nat : x = Unsigned[s]
      BY <2>1, UnsignedFacts
    <2>5. PICK y \in Nat : y = Unsigned[t]
      BY UnsignedFacts
    <2>6. PICK p \in Nat : p = Power[Len(s)]
      BY <2>1, PowerFacts
    <2>7. y + x = p - 1
      BY <2>2, <2>4, <2>5, <2>6
    <2>8. Unsigned[Append(s, b)] = x * Base + b
      BY <2>1, <2>4, UnsignedFacts
    <2>9. Unsigned[Inverted(Append(s, b))] = y * Base + c
      BY <2>1, <2>2, <2>3, <2>5, UnsignedFacts, InvertedAppend
    <2>10. Power[Len(Append(s, b))] = Base * p
      BY <2>1, <2>6, FrontAppend, PowerFacts
    <2>11. (y * Base + c) + (x * Base + b) = (Base * p) - 1
      <3>1. PICK k \in Nat : k = Base /\ b \in Nat /\ c \in Nat /\ c + b = k - 1
        BY <2>3, ByteNumbers DEF Bytes
      <3>2. p = x + y + 1
        BY <2>7
      <3>3. k * p = k * x + k * y + k
        BY <3>2
      <3>4. y * k = k * y /\ x * k = k * x /\ k * x \in Nat /\ k * y \in Nat
        OBVIOUS
      <3>5. (y * k + c) + (x * k + b) = (k * p) - 1
        BY <3>1, <3>3, <3>4
      <3>6. QED
        BY <3>1, <3>5
    <2>12. QED
      BY <2>1, <2>8, <2>9, <2>10, <2>11, AppendStr
  <1>3. S \in SUBSET Str
    OBVIOUS
  <1>4. \A s \in Str : s \in S
    <2> HIDE DEF S
    <2>1. QED
      BY <1>1, <1>2, <1>3, StrInduction
  <1>5. QED
    BY <1>4

\* The order of strings of the same length is turned around.
LEMMA InvertedOrder ==
    ASSUME NEW s \in Str, NEW t \in Str, Len(s) = Len(t), Less(s, t)
    PROVE  Less(Inverted(t), Inverted(s))
  <1>1. s \in Seq(Nat) /\ t \in Seq(Nat)
    BY StrFacts
  <1>2. PICK n \in Nat : n = Len(s) /\ n = Len(t)
    BY StrFacts
  <1>3. PICK i \in Nat : LessAt(s, t, i)
    BY <1>1, LessIff
  <1>4. i \in 1..n /\ s[i] < t[i] /\ \A j \in 1..(i - 1) : s[j] = t[j]
    BY <1>2, <1>3 DEF LessAt
  <1>5. PICK u \in Str : u = Inverted(s) /\ Len(u) = n /\ \A j \in 1..n : u[j] = ESCAPE - s[j]
    BY <1>2, InvertedStr
  <1>6. PICK v \in Str : v = Inverted(t) /\ Len(v) = n /\ \A j \in 1..n : v[j] = ESCAPE - t[j]
    BY <1>2, InvertedStr
  <1>7. \A j \in 1..n : s[j] \in Nat /\ t[j] \in Nat
    BY <1>1, <1>2
  <1>8. v[i] < u[i]
    BY <1>4, <1>5, <1>6, <1>7, ByteNumbers
  <1>9. \A j \in 1..(i - 1) : v[j] = u[j]
    BY <1>4, <1>5, <1>6
  <1>10. LessAt(v, u, i)
    BY <1>4, <1>5, <1>6, <1>8, <1>9 DEF LessAt
  <1>11. u \in Seq(Nat) /\ v \in Seq(Nat)
    BY StrFacts
  <1>12. QED
    BY <1>5, <1>6, <1>10, <1>11, LessIff

-----------------------------------------------------------------------------
(* Elements *)

\* The elements with tuples of the elements of A.
Deeper(A) == Flat \cup ({"tuple"} \X Seq(A))

\* h has the first levels of nesting.
Levels(k, h) == h = [n \in 0..k |-> IF n = 0 THEN Flat ELSE Deeper(h[n - 1])]

\* There is a function of the elements up to every depth.
LEMMA LevelsExist == \A k \in Nat : \E h : Levels(k, h)
  <1> DEFINE S == {n \in Nat : \E h : Levels(n, h)}
  <1>1. 0 \in S
    <2> DEFINE h == [i \in 0..0 |-> Flat]
    <2>1. h = [i \in 0..0 |-> IF i = 0 THEN Flat ELSE Deeper(h[i - 1])]
      OBVIOUS
    <2> HIDE DEF h
    <2>2. QED
      BY <2>1 DEF Levels
  <1>2. ASSUME NEW n \in S PROVE n + 1 \in S
    <2>1. n \in Nat /\ n + 1 \in Nat
      OBVIOUS
    <2>2. PICK h : Levels(n, h)
      OBVIOUS
    <2> DEFINE g == [i \in 0..(n + 1) |-> IF i <= n THEN h[i] ELSE Deeper(h[n])]
    <2>3. \A i \in 0..n : g[i] = h[i] /\ h[i] = IF i = 0 THEN Flat ELSE Deeper(h[i - 1])
      BY <2>1, <2>2 DEF Levels
    <2>4. g[n + 1] = Deeper(h[n]) /\ h[n] = g[n]
      BY <2>1
    <2>5. ASSUME NEW i \in 0..(n + 1)
          PROVE  g[i] = IF i = 0 THEN Flat ELSE Deeper(g[i - 1])
      <3> HIDE DEF g
      <3>1. CASE i = 0
        BY <2>1, <2>3, <3>1
      <3>2. CASE i \in 1..n
        <4>1. i \in 0..n /\ i - 1 \in 0..n /\ i # 0
          BY <2>1, <3>2
        <4>2. QED
          BY <2>3, <4>1
      <3>3. CASE i = n + 1
        <4>1. i # 0 /\ i - 1 = n
          BY <2>1, <3>3
        <4>2. QED
          BY <2>4, <3>3, <4>1
      <3>4. QED
        BY <2>1, <3>1, <3>2, <3>3
    <2>6. g = [i \in 0..(n + 1) |-> IF i = 0 THEN Flat ELSE Deeper(g[i - 1])]
      <3>1. g = [i \in 0..(n + 1) |-> g[i]]
        OBVIOUS
      <3> HIDE DEF g
      <3>2. QED
        BY <2>5, <3>1
    <2> HIDE DEF g
    <2>7. QED
      BY <2>1, <2>6 DEF Levels
  <1>3. S \in SUBSET Nat
    OBVIOUS
  <1> HIDE DEF S
  <1>4. \A k \in Nat : k \in S
    BY <1>1, <1>2, <1>3, SetInduction
  <1>5. QED
    BY <1>4 DEF S

\* There is only one.
LEMMA LevelsSame ==
    ASSUME NEW k \in Nat, NEW m \in Nat, k <= m, NEW g, NEW h, Levels(k, g), Levels(m, h)
    PROVE  \A n \in 0..k : g[n] = h[n]
  <1> DEFINE Q == {n \in Nat : n <= k => g[n] = h[n]}
  <1>1. /\ \A n \in 0..k : g[n] = IF n = 0 THEN Flat ELSE Deeper(g[n - 1])
        /\ \A n \in 0..m : h[n] = IF n = 0 THEN Flat ELSE Deeper(h[n - 1])
    BY DEF Levels
  <1>2. 0 \in Q
    BY <1>1
  <1>3. ASSUME NEW n \in Q PROVE n + 1 \in Q
    <2> SUFFICES ASSUME n + 1 <= k PROVE g[n + 1] = h[n + 1]
      OBVIOUS
    <2>1. n + 1 \in 0..k /\ n + 1 \in 0..m /\ n + 1 # 0 /\ (n + 1) - 1 = n /\ g[n] = h[n]
      OBVIOUS
    <2>2. QED
      BY <1>1, <2>1
  <1>4. Q \in SUBSET Nat
    OBVIOUS
  <1>5. \A n \in Nat : n \in Q
    <2> HIDE DEF Q
    <2>1. QED
      BY <1>2, <1>3, <1>4, SetInduction
  <1>6. QED
    BY <1>5

\* The elements up to every depth are defined.
LEMMA NestingFacts ==
    /\ Nesting[0] = Flat
    /\ \A n \in Nat : Nesting[n + 1] = Deeper(Nesting[n])
  <1> DEFINE Is(g) == g = [n \in Nat |-> IF n = 0 THEN Flat ELSE Deeper(g[n - 1])]
             G(k) == CHOOSE h : Levels(k, h)
  <1>1. \A k \in Nat : Levels(k, G(k))
    BY LevelsExist
  <1> DEFINE f == [k \in Nat |-> G(k)[k]]
  <1> HIDE DEF G
  <1>2. ASSUME NEW k \in Nat PROVE f[k] = IF k = 0 THEN Flat ELSE Deeper(f[k - 1])
    <2>1. CASE k = 0
      <3>1. f[0] = G(0)[0] /\ Levels(0, G(0))
        BY <1>1
      <3>2. QED
        BY <2>1, <3>1 DEF Levels
    <2>2. CASE k # 0
      <3>1. PICK m \in Nat : m = k - 1
        BY <2>2
      <3>2. f[k] = G(k)[k] /\ Levels(k, G(k)) /\ f[m] = G(m)[m] /\ Levels(m, G(m))
        BY <1>1
      <3>3. G(k)[k] = Deeper(G(k)[m])
        BY <2>2, <3>1, <3>2 DEF Levels
      <3>4. G(m)[m] = G(k)[m]
        <4>1. m <= k /\ m \in 0..m
          BY <3>1
        <4>2. PICK g, h : g = G(m) /\ h = G(k)
          OBVIOUS
        <4>3. \A n \in 0..m : g[n] = h[n]
          BY <3>2, <4>1, <4>2, LevelsSame
        <4>4. QED
          BY <4>1, <4>2, <4>3
      <3>5. QED
        BY <2>2, <3>1, <3>2, <3>3, <3>4
    <2>3. QED
      BY <2>1, <2>2
  <1>3. Is(f)
    <2>1. f = [k \in Nat |-> f[k]]
      OBVIOUS
    <2> HIDE DEF f
    <2>2. QED
      BY <1>2, <2>1
  <1>4. Is(Nesting)
    <2>1. Nesting = CHOOSE g : Is(g)
      BY DEF Nesting, Deeper
    <2>2. \E g : Is(g)
      BY <1>3
    <2> HIDE DEF Is
    <2>3. QED
      BY <2>1, <2>2, Zenon
  <1>5. QED
    BY <1>4

\* More elements make more nested tuples.
LEMMA DeeperMonotone == ASSUME NEW A, NEW B, A \subseteq B PROVE Deeper(A) \subseteq Deeper(B)
  <1>1. Seq(A) \subseteq Seq(B)
    BY SeqMonotonic
  <1>2. QED
    BY <1>1 DEF Deeper

\* Elements may be nested less deep.
LEMMA NestingMonotone == \A n \in Nat : Flat \subseteq Nesting[n] /\ Nesting[n] \subseteq Nesting[n + 1]
  <1> DEFINE Q == {n \in Nat : Flat \subseteq Nesting[n] /\ Nesting[n] \subseteq Nesting[n + 1]}
  <1>1. \A A : Flat \subseteq Deeper(A)
    BY DEF Deeper
  <1>2. 0 \in Q
    BY <1>1, NestingFacts
  <1>3. ASSUME NEW n \in Q PROVE n + 1 \in Q
    <2>1. n \in Nat /\ n + 1 \in Nat /\ Nesting[n] \subseteq Nesting[n + 1]
      OBVIOUS
    <2>2. Nesting[n + 1] = Deeper(Nesting[n]) /\ Nesting[(n + 1) + 1] = Deeper(Nesting[n + 1])
      BY <2>1, NestingFacts
    <2>3. Deeper(Nesting[n]) \subseteq Deeper(Nesting[n + 1])
      BY <2>1, DeeperMonotone
    <2>4. Nesting[n + 1] \subseteq Nesting[(n + 1) + 1] /\ Flat \subseteq Nesting[n + 1]
      BY <1>1, <2>2, <2>3
    <2>5. QED
      BY <2>1, <2>4
  <1>4. Q \in SUBSET Nat
    OBVIOUS
  <1>5. \A n \in Nat : n \in Q
    <2> HIDE DEF Q
    <2>1. QED
      BY <1>2, <1>3, <1>4, SetInduction
  <1>6. QED
    BY <1>5

\* All of them up to MaxDepth are elements.
LEMMA NestingElems == \A n \in Nat : n <= MaxDepth => Nesting[n] \subseteq Elems
  <1> DEFINE Q == {k \in Nat : k <= MaxDepth => Nesting[MaxDepth - k] \subseteq Elems}
  <1>0. MaxDepth \in Nat
    BY TupleAssumption
  <1>1. 0 \in Q
    BY <1>0 DEF Elems
  <1>2. ASSUME NEW k \in Q PROVE k + 1 \in Q
    <2> SUFFICES ASSUME k + 1 <= MaxDepth PROVE Nesting[MaxDepth - (k + 1)] \subseteq Elems
      OBVIOUS
    <2>1. PICK n \in Nat : n = MaxDepth - (k + 1) /\ n + 1 = MaxDepth - k /\ k <= MaxDepth
      BY <1>0
    <2>2. QED
      BY <2>1, NestingMonotone
  <1>3. Q \in SUBSET Nat
    OBVIOUS
  <1>4. \A k \in Nat : k \in Q
    <2> HIDE DEF Q
    <2>1. QED
      BY <1>1, <1>2, <1>3, SetInduction
  <1>5. ASSUME NEW n \in Nat, n <= MaxDepth PROVE Nesting[n] \subseteq Elems
    <2>1. PICK k \in Nat : k = MaxDepth - n /\ k <= MaxDepth /\ MaxDepth - k = n
      BY <1>0, <1>5
    <2>2. QED
      BY <1>4, <2>1
  <1>6. QED
    BY <1>5

\* The types of fixed length.
Fixeds == {"uuid", "id64", "vs80", "vs96"}

Size(t) == FixedLen(Fixed[t])

\* The codes and sizes of the types of fixed length.
LEMMA FixedFacts ==
    /\ DOMAIN Fixed = Fixeds
    /\ Fixed["uuid"] = UUID /\ Fixed["id64"] = ID64 /\ Fixed["vs80"] = VS80 /\ Fixed["vs96"] = VS96
    /\ \A t \in Fixeds : Size(t) \in Nat /\ Size(t) > 0 /\ Fixed[t] \in Bytes /\ Fixed[t] < ESCAPE
                            /\ Fixed[t] > POS_INT_9P + 2
    /\ Size("vs80") = StampLen /\ Size("vs96") = StampLen + 1
    /\ \A t, u \in Fixeds : Fixed[t] = Fixed[u] => t = u
  <1>0. POS_INT_9P \in Nat
    BY TupleAssumption DEF POS_INT_9P, ZERO, NESTED
  <1>1. DOMAIN Fixed = Fixeds
    BY DEF Fixed, Fixeds
  <1>2. Fixed["uuid"] = UUID /\ Fixed["id64"] = ID64 /\ Fixed["vs80"] = VS80 /\ Fixed["vs96"] = VS96
    BY DEF Fixed
  <1>3. PICK p \in Nat : p = POS_INT_9P
    BY <1>0
  <1>4. UUID = p + 3 /\ ID64 = p + 4 /\ VS80 = p + 5 /\ VS96 = p + 6 /\ ESCAPE = p + 7
    BY <1>3 DEF UUID, ID64, VS80, VS96, ESCAPE
  <1>5. FixedLen(UUID) = 2 /\ FixedLen(ID64) = 2 /\ FixedLen(VS80) = StampLen /\ FixedLen(VS96) = StampLen + 1
    BY <1>4 DEF FixedLen
  <1>6. \A t \in Fixeds : Fixed[t] \in Bytes /\ Fixed[t] < ESCAPE /\ Fixed[t] > POS_INT_9P + 2
    BY <1>2, <1>3, <1>4 DEF Fixeds, Bytes
  <1>7. \A t \in Fixeds : Size(t) \in Nat /\ Size(t) > 0
    BY <1>2, <1>5, TupleAssumption DEF Fixeds, Size
  <1>8. \A t, u \in Fixeds : Fixed[t] = Fixed[u] => t = u
    BY <1>2, <1>4 DEF Fixeds
  <1>9. Size("vs80") = StampLen /\ Size("vs96") = StampLen + 1
    BY <1>2, <1>5 DEF Size
  <1>10. QED
    BY <1>1, <1>2, <1>6, <1>7, <1>8, <1>9

\* The values of fixed length are strings.
LEMMA FixedStr ==
    ASSUME NEW n \in Nat, NEW s
    PROVE  s \in [1..n -> Bytes] <=> s \in Str /\ Len(s) = n
  <1>1. ASSUME s \in [1..n -> Bytes] PROVE s \in Str /\ Len(s) = n
    <2>1. s \in Seq(Bytes)
      BY <1>1, IsASeq
    <2>2. QED
      BY <1>1, <2>1, LenProperties DEF Str
  <1>2. ASSUME s \in Str, Len(s) = n PROVE s \in [1..n -> Bytes]
    BY <1>2, StrFacts
  <1>3. QED
    BY <1>1, <1>2

\* What an element is that is not nested.
FlatIs(e) ==
    \/ e = <<"null", 0>>
    \/ \E b \in BOOLEAN : e = <<"bool", b>>
    \/ \E n \in Ints : e = <<"int", n>>
    \/ \E s \in Str : e = <<"bytes", s>> \/ e = <<"utf8", s>>
    \/ \E t \in Fixeds : \E s \in Str : Len(s) = Size(t) /\ e = <<t, s>>

\* The elements that are not nested, by their types.
LEMMA FlatCases == \A e : e \in Flat <=> FlatIs(e)
  <1> SUFFICES ASSUME NEW e PROVE e \in Flat <=> FlatIs(e)
    OBVIOUS
  <1> DEFINE X == UNION {{t} \X [1..FixedLen(Fixed[t]) -> Bytes] : t \in DOMAIN Fixed}
  <1>1. e \in X <=> \E t \in Fixeds : e \in {t} \X [1..Size(t) -> Bytes]
    BY FixedFacts DEF Size
  <1>2. \A t \in Fixeds : e \in {t} \X [1..Size(t) -> Bytes]
            <=> \E s \in Str : Len(s) = Size(t) /\ e = <<t, s>>
    <2> SUFFICES ASSUME NEW t \in Fixeds
                 PROVE  e \in {t} \X [1..Size(t) -> Bytes]
                            <=> \E s \in Str : Len(s) = Size(t) /\ e = <<t, s>>
      OBVIOUS
    <2>1. PICK n \in Nat : n = Size(t)
      BY FixedFacts
    <2>2. e \in {t} \X [1..n -> Bytes] <=> \E s \in [1..n -> Bytes] : e = <<t, s>>
      OBVIOUS
    <2>3. QED
      BY <2>1, <2>2, FixedStr
  <1>3. e \in {"bytes", "utf8"} \X Str <=> \E s \in Str : e = <<"bytes", s>> \/ e = <<"utf8", s>>
    OBVIOUS
  <1>4. e \in {"int"} \X Ints <=> \E n \in Ints : e = <<"int", n>>
    OBVIOUS
  <1>5. e \in {"bool"} \X BOOLEAN <=> \E b \in BOOLEAN : e = <<"bool", b>>
    OBVIOUS
  <1>6. e \in Flat <=> \/ e \in {<<"null", 0>>} \/ e \in {"bool"} \X BOOLEAN \/ e \in {"int"} \X Ints
                       \/ e \in {"bytes", "utf8"} \X Str \/ e \in X
    <2>1. Flat = {<<"null", 0>>} \cup ({"bool"} \X BOOLEAN) \cup ({"int"} \X Ints)
                    \cup ({"bytes", "utf8"} \X Str) \cup X
      BY DEF Flat, Str
    <2> HIDE DEF X
    <2>2. QED
      BY <2>1
  <1> HIDE DEF X
  <1>7. QED
    BY <1>1, <1>2, <1>3, <1>4, <1>5, <1>6 DEF FlatIs

\* The type of an element that is not nested.
LEMMA FlatType == \A e \in Flat : e[1] # "tuple" /\ \A v : e # <<"tuple", v>>
  <1> SUFFICES ASSUME NEW e \in Flat PROVE e[1] # "tuple" /\ \A v : e # <<"tuple", v>>
    OBVIOUS
  <1>1. FlatIs(e)
    BY FlatCases
  <1>2. QED
    BY <1>1 DEF FlatIs, Fixeds

\* A nested tuple has elements that are less nested.
LEMMA NestedIn ==
    ASSUME NEW n \in Nat, NEW v, <<"tuple", v>> \in Nesting[n]
    PROVE  n # 0 /\ n - 1 \in Nat /\ v \in Seq(Nesting[n - 1])
  <1>1. <<"tuple", v>> \notin Flat
    BY FlatType
  <1>2. n # 0
    BY <1>1, NestingFacts
  <1>3. PICK m \in Nat : m = n - 1 /\ n = m + 1
    BY <1>2
  <1>4. Nesting[n] = Deeper(Nesting[m])
    BY <1>3, NestingFacts
  <1>5. v \in Seq(Nesting[m])
    BY <1>1, <1>4 DEF Deeper
  <1>6. QED
    BY <1>2, <1>3, <1>5

\* What is nested in an element is one.
LEMMA NestedElems == ASSUME NEW v, <<"tuple", v>> \in Elems PROVE v \in Seq(Elems)
  <1>1. MaxDepth \in Nat
    BY TupleAssumption
  <1>2. MaxDepth - 1 \in Nat /\ v \in Seq(Nesting[MaxDepth - 1])
    BY <1>1, NestedIn DEF Elems
  <1>3. Nesting[MaxDepth - 1] \subseteq Elems
    BY <1>1, <1>2, NestingElems
  <1>4. QED
    BY <1>2, <1>3, SeqMonotonic

\* What is not nested is an element.
LEMMA FlatElems == Flat \subseteq Elems
  BY NestingMonotone, TupleAssumption DEF Elems

\* An element is not nested, or a tuple of elements.
LEMMA ElemCases ==
    ASSUME NEW e \in Elems
    PROVE  FlatIs(e) \/ \E v \in Seq(Elems) : e = <<"tuple", v>>
  <1>1. MaxDepth \in Nat
    BY TupleAssumption
  <1>2. CASE MaxDepth = 0
    BY <1>2, NestingFacts, FlatCases DEF Elems
  <1>3. CASE MaxDepth # 0
    <2>1. PICK m \in Nat : MaxDepth = m + 1
      <3>1. MaxDepth - 1 \in Nat /\ MaxDepth = (MaxDepth - 1) + 1
        BY <1>1, <1>3
      <3>2. QED
        BY <3>1
    <2>2. e \in Deeper(Nesting[m])
      BY <2>1, NestingFacts DEF Elems
    <2>3. CASE e \in Flat
      BY <2>3, FlatCases
    <2>4. CASE e \notin Flat
      <3>1. PICK v \in Seq(Nesting[m]) : e = <<"tuple", v>>
        BY <2>2, <2>4 DEF Deeper
      <3>2. v \in Seq(Elems)
        BY <3>1, NestedElems
      <3>3. QED
        BY <3>1, <3>2
    <2>5. QED
      BY <2>3, <2>4
  <1>4. QED
    BY <1>2, <1>3

\* Induction on elements.
LEMMA ElemInduction ==
    ASSUME NEW S, \A e \in Flat : e \in S,
           \A v \in Seq(Elems) : <<"tuple", v>> \in Elems /\ v \in Seq(S) => <<"tuple", v>> \in S
    PROVE  \A e \in Elems : e \in S
  <1> DEFINE Q == {n \in Nat : n <= MaxDepth => Nesting[n] \subseteq S}
  <1>0. MaxDepth \in Nat
    BY TupleAssumption
  <1>1. 0 \in Q
    BY NestingFacts
  <1>2. ASSUME NEW n \in Q PROVE n + 1 \in Q
    <2> SUFFICES ASSUME n + 1 <= MaxDepth, NEW e \in Nesting[n + 1] PROVE e \in S
      OBVIOUS
    <2>1. n \in Nat /\ n + 1 \in Nat /\ n <= MaxDepth
      BY <1>0
    <2>2. Nesting[n] \subseteq S
      BY <2>1
    <2>3. e \in Deeper(Nesting[n]) /\ e \in Elems
      BY <2>1, NestingFacts, NestingElems
    <2>4. CASE e \in Flat
      BY <2>4
    <2>5. CASE e \notin Flat
      <3>1. PICK v \in Seq(Nesting[n]) : e = <<"tuple", v>>
        BY <2>3, <2>5 DEF Deeper
      <3>2. v \in Seq(S) /\ v \in Seq(Elems)
        BY <2>2, <2>3, <3>1, NestedElems, SeqMonotonic
      <3>3. QED
        BY <2>3, <3>1, <3>2
    <2>6. QED
      BY <2>4, <2>5
  <1>3. Q \in SUBSET Nat
    OBVIOUS
  <1>4. \A n \in Nat : n \in Q
    <2> HIDE DEF Q
    <2>1. QED
      BY <1>1, <1>2, <1>3, SetInduction
  <1>5. Nesting[MaxDepth] \subseteq S
    BY <1>0, <1>4
  <1>6. QED
    BY <1>5 DEF Elems

\* How deep an element is nested.
Rank == [e \in Elems |-> CHOOSE n \in Nat : e \in Nesting[n] /\ \A m \in Nat : e \in Nesting[m] => n <= m]

\* The rank is the least depth of an element.
LEMMA RankFacts ==
    /\ Rank \in [Elems -> Nat]
    /\ \A e \in Elems : e \in Nesting[Rank[e]]
    /\ \A e \in Elems, m \in Nat : e \in Nesting[m] => Rank[e] <= m
  <1> DEFINE P(e, n) == e \in Nesting[n] /\ \A m \in Nat : e \in Nesting[m] => n <= m
  <1>1. ASSUME NEW e \in Elems PROVE \E n \in Nat : P(e, n)
    <2> DEFINE N == {n \in Nat : e \in Nesting[n]}
    <2>1. N \in SUBSET Nat /\ N # {}
      BY TupleAssumption DEF Elems
    <2>2. PICK n \in N : \A m \in N : n <= m
      <3> HIDE DEF N
      <3>1. QED
        BY <2>1, LeastOf
    <2>3. QED
      BY <2>2
  <1>2. \A e \in Elems : Rank[e] = CHOOSE n \in Nat : P(e, n)
    BY DEF Rank
  <1>3. Rank = [e \in Elems |-> Rank[e]]
    BY DEF Rank
  <1>4. \A e \in Elems : Rank[e] \in Nat /\ P(e, Rank[e])
    <2> HIDE DEF P
    <2>1. QED
      BY <1>1, <1>2
  <1>5. QED
    BY <1>3, <1>4

\* The elements of a nested tuple have a smaller rank.
LEMMA RankNested ==
    ASSUME NEW v \in Seq(Elems), <<"tuple", v>> \in Elems, NEW i \in 1..Len(v)
    PROVE  v[i] \in Elems /\ Rank[v[i]] < Rank[<<"tuple", v>>]
  <1>1. PICK e \in Elems : e = <<"tuple", v>>
    OBVIOUS
  <1>2. PICK n \in Nat : n = Rank[e] /\ <<"tuple", v>> \in Nesting[n]
    BY <1>1, RankFacts
  <1>3. n - 1 \in Nat /\ v \in Seq(Nesting[n - 1])
    BY <1>2, NestedIn
  <1>4. v[i] \in Nesting[n - 1] /\ v[i] \in Elems
    BY <1>3
  <1>5. PICK k \in Nat : k = Rank[v[i]] /\ k <= n - 1
    BY <1>3, <1>4, RankFacts
  <1>6. k < n
    BY <1>5
  <1>7. QED
    BY <1>1, <1>2, <1>4, <1>5, <1>6

-----------------------------------------------------------------------------
(* encode *)

\* The codes, as numbers.
LEMMA Codes ==
    /\ NULL \in Bytes /\ BYTES \in Bytes /\ UTF8 \in Bytes /\ NESTED \in Bytes /\ ZERO \in Bytes
    /\ NEG_INT_9P \in Bytes /\ POS_INT_9P \in Bytes /\ FALSE_ \in Bytes /\ TRUE_ \in Bytes
    /\ ESCAPE \in Bytes
    /\ NULL = 0 /\ BYTES = 1 /\ UTF8 = 2 /\ NESTED = 3 /\ ZERO = MaxFixed + 5
    /\ NEG_INT_9P = 4 /\ POS_INT_9P = 2 * MaxFixed + 6
    /\ FALSE_ = 2 * MaxFixed + 7 /\ TRUE_ = 2 * MaxFixed + 8
    /\ ESCAPE = 2 * MaxFixed + 13
  <1>1. MaxFixed \in Nat /\ MaxFixed > 0
    BY ByteNumbers
  <1>2. /\ NULL = 0 /\ BYTES = 1 /\ UTF8 = 2 /\ NESTED = 3 /\ ZERO = MaxFixed + 5
        /\ NEG_INT_9P = 4 /\ POS_INT_9P = 2 * MaxFixed + 6
        /\ FALSE_ = 2 * MaxFixed + 7 /\ TRUE_ = 2 * MaxFixed + 8
        /\ ESCAPE = 2 * MaxFixed + 13
    BY <1>1 DEF NULL, BYTES, UTF8, NESTED, ZERO, NEG_INT_9P, POS_INT_9P, FALSE_, TRUE_, ESCAPE
  <1>3. QED
    BY <1>1, <1>2 DEF Bytes

\* A string of one byte, as an operator that the provers do not expand.
One(b) == <<b>>

\* A byte, as a string.
LEMMA OneStr ==
    ASSUME NEW b \in Bytes
    PROVE  One(b) \in Str /\ One(b) # <<>> /\ Len(One(b)) = 1 /\ One(b)[1] = b
  BY DEF One, Str

\* Two bytes, as strings that are joined.
LEMMA TwoBytes ==
    ASSUME NEW a \in Bytes, NEW b \in Bytes
    PROVE  <<a, b>> \in Str /\ <<a, b>> = Cat(One(a), One(b))
  <1>1. <<a, b>> \in Str
    BY DEF Str
  <1>2. PICK x : x = One(a)
    OBVIOUS
  <1>3. PICK y : y = One(b)
    OBVIOUS
  <1>4. x \in Seq(Bytes) /\ Len(x) = 1 /\ x[1] = a /\ y \in Seq(Bytes) /\ Len(y) = 1 /\ y[1] = b
    BY <1>2, <1>3, OneStr DEF Str
  <1>5. PICK u : u = x \o y
    OBVIOUS
  <1>6. u \in Seq(Bytes) /\ Len(u) = 2 /\ u[1] = a /\ u[2] = b
    BY <1>4, <1>5, ConcatProperties
  <1>7. PICK w : w = <<a, b>>
    OBVIOUS
  <1>8. w \in Seq(Bytes) /\ Len(w) = 2 /\ w[1] = a /\ w[2] = b
    BY <1>7
  <1>9. \A i \in 1..2 : w[i] = u[i]
    BY <1>6, <1>8
  <1>10. w = u
    BY <1>6, <1>8, <1>9, SeqEqual
  <1>11. QED
    BY <1>1, <1>2, <1>3, <1>5, <1>7, <1>10 DEF Cat

\* A byte that is escaped if it is zero.
Esc(b) == IF b = NULL THEN <<NULL, ESCAPE>> ELSE <<b>>

Escs(s) == [i \in DOMAIN s |-> Esc(s[i])]

\* A byte, escaped.
LEMMA EscStr == \A b \in Bytes : Esc(b) \in Str /\ Esc(b) # <<>>
  BY OneByte, TwoBytes, Codes DEF Esc

\* enc_null_terminated/1 gives a string.
LEMMA EscsStr ==
    ASSUME NEW s \in Str
    PROVE  /\ Escs(s) \in Seq(Str) /\ Len(Escs(s)) = Len(s)
           /\ \A i \in 1..Len(s) : Escs(s)[i] = Esc(s[i]) /\ s[i] \in Bytes
           /\ FlattenSeq(Escs(s)) \in Str
           /\ enc_null_terminated(s) = Cat(FlattenSeq(Escs(s)), One(NULL))
           /\ enc_null_terminated(s) \in Str
  <1>1. PICK n \in Nat : n = Len(s) /\ DOMAIN s = 1..n /\ \A i \in 1..n : s[i] \in Bytes
    BY StrFacts
  <1>2. PICK w : w = Escs(s)
    OBVIOUS
  <1>3. w \in [1..n -> Str] /\ \A i \in 1..n : w[i] = Esc(s[i])
    <2>1. w = [i \in 1..n |-> Esc(s[i])]
      BY <1>1, <1>2 DEF Escs
    <2>2. \A i \in 1..n : Esc(s[i]) \in Str
      BY <1>1, EscStr
    <2>3. QED
      BY <2>1, <2>2
  <1>4. w \in Seq(Str) /\ Len(w) = n
    <2>1. w \in Seq(Str)
      BY <1>3, IsASeq
    <2>2. QED
      BY <1>3, <2>1, LenProperties
  <1>5. FlattenSeq(w) \in Str
    BY <1>4, FlattenType, StrStrings
  <1>6. enc_null_terminated(s) = FlattenSeq(w) \o <<NULL>>
    BY <1>2 DEF enc_null_terminated, Escs, Esc
  <1>7. enc_null_terminated(s) = Cat(FlattenSeq(w), One(NULL))
    BY <1>6 DEF Cat, One
  <1>8. Cat(FlattenSeq(w), One(NULL)) \in Str
    BY <1>5, CatStr, OneStr, Codes
  <1>9. QED
    BY <1>1, <1>2, <1>3, <1>4, <1>5, <1>7, <1>8

\* The bytes of the absolute value of an integer.
Bin(n) == encode_unsigned[Abs(n)]

\* The bytes of an integer, and how many there are.
LEMMA BinFacts ==
    ASSUME NEW n \in Ints
    PROVE  /\ n \in Int /\ Abs(n) \in Nat /\ Bin(n) \in Str /\ Len(Bin(n)) \in Nat
           /\ Len(Bin(n)) >= 1 /\ Len(Bin(n)) <= ESCAPE
  <1>1. n \in Int /\ Len(encode_unsigned[Abs(n)]) <= ESCAPE
    BY DEF Ints
  <1>2. Abs(n) \in Nat
    BY <1>1 DEF Abs
  <1>3. QED
    BY <1>1, <1>2, NumberLen DEF Bin

\* encode/2 of integers, by sign and size.
LEMMA IntCases ==
    ASSUME NEW n \in Ints, NEW k, k = Len(Bin(n))
    PROVE  /\ n = 0 => encode_int(n) = One(ZERO)
           /\ n > 0 /\ k <= MaxFixed => ZERO + k \in Bytes /\ encode_int(n) = Cat(One(ZERO + k), Bin(n))
           /\ n > 0 /\ k > MaxFixed =>
                k \in Bytes /\ encode_int(n) = Cat(One(POS_INT_9P), Cat(One(k), Bin(n)))
           /\ n < 0 /\ k <= MaxFixed =>
                ZERO - k \in Bytes /\ encode_int(n) = Cat(One(ZERO - k), Inverted(Bin(n)))
           /\ n < 0 /\ k > MaxFixed =>
                ESCAPE - k \in Bytes
                    /\ encode_int(n) = Cat(One(NEG_INT_9P), Cat(One(ESCAPE - k), Inverted(Bin(n))))
           /\ encode_int(n) \in Str
  <1>1. /\ n \in Int /\ Bin(n) \in Str /\ Inverted(Bin(n)) \in Str /\ k \in Nat
        /\ k >= 1 /\ k <= ESCAPE
    BY BinFacts, InvertedStr
  <1>2. PICK s \in Str, t \in Str : s = Bin(n) /\ t = Inverted(Bin(n))
    BY <1>1
  <1>3. /\ n = 0 => encode_int(n) = <<ZERO>>
        /\ n > 0 /\ k <= MaxFixed => encode_int(n) = <<ZERO + k>> \o s
        /\ n > 0 /\ k > MaxFixed  => encode_int(n) = <<POS_INT_9P, k>> \o s
        /\ n < 0 /\ k <= MaxFixed => encode_int(n) = <<ZERO - k>> \o t
        /\ n < 0 /\ k > MaxFixed  => encode_int(n) = <<NEG_INT_9P, ESCAPE - k>> \o t
    <2>1. encode_int(n) =
              CASE n = 0 -> <<ZERO>>
                [] n > 0 /\ k <= MaxFixed -> <<ZERO + k>> \o s
                [] n > 0 /\ k > MaxFixed  -> <<POS_INT_9P, k>> \o s
                [] n < 0 /\ k <= MaxFixed -> <<ZERO - k>> \o t
                [] n < 0 /\ k > MaxFixed  -> <<NEG_INT_9P, ESCAPE - k>> \o t
      BY <1>2 DEF encode_int, Bin, NegSize
    <2> DEFINE a == <<ZERO + k>> \o s
               b == <<POS_INT_9P, k>> \o s
               c == <<ZERO - k>> \o t
               d == <<NEG_INT_9P, ESCAPE - k>> \o t
               z == <<ZERO>>
               e == encode_int(n)
    <2>2. e = CASE n = 0 -> z
                [] n > 0 /\ k <= MaxFixed -> a
                [] n > 0 /\ k > MaxFixed  -> b
                [] n < 0 /\ k <= MaxFixed -> c
                [] n < 0 /\ k > MaxFixed  -> d
      BY <2>1
    <2> HIDE DEF a, b, c, d, z, e
    <2>3. /\ n = 0 => e = z
          /\ n > 0 /\ k <= MaxFixed => e = a
          /\ n > 0 /\ k > MaxFixed  => e = b
          /\ n < 0 /\ k <= MaxFixed => e = c
          /\ n < 0 /\ k > MaxFixed  => e = d
      BY <1>1, <2>2, ByteNumbers
    <2>4. QED
      BY <2>3 DEF a, b, c, d, z, e
  <1>4. /\ k <= MaxFixed => ZERO + k \in Bytes /\ ZERO - k \in Bytes
        /\ k \in Bytes /\ ESCAPE - k \in Bytes
    BY <1>1, Codes, ByteNumbers DEF Bytes
  <1>5. \A x, y \in Bytes, u \in Str : <<x, y>> \o u = Cat(One(x), Cat(One(y), u))
    <2> SUFFICES ASSUME NEW x \in Bytes, NEW y \in Bytes, NEW u \in Str
                 PROVE  <<x, y>> \o u = Cat(One(x), Cat(One(y), u))
      OBVIOUS
    <2>0. <<x, y>> \o u = Cat(<<x, y>>, u)
      BY DEF Cat
    <2>1. <<x, y>> \o u = Cat(Cat(One(x), One(y)), u)
      BY <2>0, TwoBytes
    <2>2. PICK a \in Str, b \in Str : a = One(x) /\ b = One(y)
      BY OneStr
    <2>3. Cat(Cat(a, b), u) = Cat(a, Cat(b, u))
      BY CatStr
    <2>4. QED
      BY <2>1, <2>2, <2>3
  <1>6. \A x \in Bytes, u \in Str : <<x>> \o u = Cat(One(x), u) /\ Cat(One(x), u) \in Str
    <2> SUFFICES ASSUME NEW x \in Bytes, NEW u \in Str
                 PROVE  <<x>> \o u = Cat(One(x), u) /\ Cat(One(x), u) \in Str
      OBVIOUS
    <2>1. <<x>> \o u = Cat(One(x), u)
      BY DEF Cat, One
    <2>2. QED
      BY <2>1, OneStr, CatStr
  <1>7. \A x, y \in Bytes, u \in Str : Cat(One(x), Cat(One(y), u)) \in Str
    BY OneStr, CatStr
  <1>8. n = 0 \/ (n > 0 /\ k <= MaxFixed) \/ (n > 0 /\ k > MaxFixed)
            \/ (n < 0 /\ k <= MaxFixed) \/ (n < 0 /\ k > MaxFixed)
    BY <1>1, ByteNumbers
  <1>9. CASE n = 0
    BY <1>1, <1>3, <1>9, OneStr, Codes, ByteNumbers DEF One
  <1>10. CASE n > 0 /\ k <= MaxFixed
    <2>1. encode_int(n) = Cat(One(ZERO + k), s) /\ Cat(One(ZERO + k), s) \in Str /\ ZERO + k \in Bytes
      BY <1>3, <1>4, <1>6, <1>10
    <2>2. n # 0 /\ ~(n < 0) /\ ~(k > MaxFixed)
      BY <1>1, <1>10, ByteNumbers
    <2>3. QED
      BY <1>2, <2>1, <2>2
  <1>11. CASE n > 0 /\ k > MaxFixed
    <2>1. /\ encode_int(n) = Cat(One(POS_INT_9P), Cat(One(k), s)) /\ k \in Bytes
          /\ Cat(One(POS_INT_9P), Cat(One(k), s)) \in Str
      <3>1. POS_INT_9P \in Bytes /\ k \in Bytes
        BY <1>4, Codes
      <3>2. encode_int(n) = <<POS_INT_9P, k>> \o s
        BY <1>3, <1>11
      <3>3. QED
        BY <1>5, <1>7, <3>1, <3>2
    <2>2. n # 0 /\ ~(n < 0) /\ ~(k <= MaxFixed)
      BY <1>1, <1>11, ByteNumbers
    <2>3. QED
      BY <1>2, <2>1, <2>2
  <1>12. CASE n < 0 /\ k <= MaxFixed
    <2>1. encode_int(n) = Cat(One(ZERO - k), t) /\ Cat(One(ZERO - k), t) \in Str /\ ZERO - k \in Bytes
      BY <1>3, <1>4, <1>6, <1>12
    <2>2. n # 0 /\ ~(n > 0) /\ ~(k > MaxFixed)
      BY <1>1, <1>12, ByteNumbers
    <2>3. QED
      BY <1>2, <2>1, <2>2
  <1>13. CASE n < 0 /\ k > MaxFixed
    <2>1. /\ encode_int(n) = Cat(One(NEG_INT_9P), Cat(One(ESCAPE - k), t)) /\ ESCAPE - k \in Bytes
          /\ Cat(One(NEG_INT_9P), Cat(One(ESCAPE - k), t)) \in Str
      <3>1. NEG_INT_9P \in Bytes /\ ESCAPE - k \in Bytes
        BY <1>4, Codes
      <3>2. encode_int(n) = <<NEG_INT_9P, ESCAPE - k>> \o t
        BY <1>3, <1>13
      <3>3. QED
        BY <1>5, <1>7, <3>1, <3>2
    <2>2. n # 0 /\ ~(n > 0) /\ ~(k <= MaxFixed)
      BY <1>1, <1>13, ByteNumbers
    <2>3. QED
      BY <1>2, <2>1, <2>2
  <1>14. QED
    BY <1>8, <1>9, <1>10, <1>11, <1>12, <1>13

\* The encodings of the elements of v.
Parts(v, depth, g) == [i \in DOMAIN v |-> g[v[i]][depth]]

Encoders == [Elems -> [Nat -> Str]]

\* The encodings of the elements of a tuple are strings.
LEMMA PartsStr ==
    ASSUME NEW v \in Seq(Elems), NEW d \in Nat, NEW g \in Encoders
    PROVE  /\ Parts(v, d, g) \in Seq(Str) /\ Len(Parts(v, d, g)) = Len(v)
           /\ \A i \in 1..Len(v) : Parts(v, d, g)[i] = g[v[i]][d]
           /\ FlattenSeq(Parts(v, d, g)) \in Str
  <1>1. PICK n \in Nat : n = Len(v) /\ DOMAIN v = 1..n /\ \A i \in 1..n : v[i] \in Elems
    OBVIOUS
  <1>2. PICK w : w = Parts(v, d, g)
    OBVIOUS
  <1>3. w \in [1..n -> Str] /\ \A i \in 1..n : w[i] = g[v[i]][d]
    <2>1. w = [i \in 1..n |-> g[v[i]][d]]
      BY <1>1, <1>2 DEF Parts
    <2>2. \A i \in 1..n : g[v[i]][d] \in Str
      BY <1>1 DEF Encoders
    <2>3. QED
      BY <2>1, <2>2
  <1>4. w \in Seq(Str) /\ Len(w) = n
    <2>1. w \in Seq(Str)
      BY <1>3, IsASeq
    <2>2. QED
      BY <1>3, <2>1, LenProperties
  <1>5. FlattenSeq(w) \in Str
    BY <1>4, FlattenType, StrStrings
  <1>6. QED
    BY <1>1, <1>2, <1>3, <1>4, <1>5

\* The encodings by the type of the element.
LEMMA EncNull ==
    ASSUME NEW d \in Nat, NEW g
    PROVE  /\ encode_elem(<<"null", 0>>, d, g) = IF d = 0 THEN One(NULL) ELSE Cat(One(NULL), One(ESCAPE))
           /\ encode_elem(<<"null", 0>>, d, g) \in Str
  <1>1. encode_elem(<<"null", 0>>, d, g) = IF d = 0 THEN <<NULL>> ELSE <<NULL, ESCAPE>>
    BY DEF encode_elem
  <1>2. <<NULL, ESCAPE>> = Cat(One(NULL), One(ESCAPE)) /\ <<NULL, ESCAPE>> \in Str
    BY TwoBytes, Codes
  <1>3. <<NULL>> = One(NULL) /\ One(NULL) \in Str
    BY OneStr, Codes DEF One
  <1>4. QED
    BY <1>1, <1>2, <1>3

\* encode/2 of the atoms true and false.
LEMMA EncBool ==
    ASSUME NEW b \in BOOLEAN, NEW d \in Nat, NEW g
    PROVE  /\ encode_elem(<<"bool", b>>, d, g) = One(IF b THEN TRUE_ ELSE FALSE_)
           /\ encode_elem(<<"bool", b>>, d, g) \in Str
  <1>1. encode_elem(<<"bool", b>>, d, g) = <<IF b THEN TRUE_ ELSE FALSE_>>
    BY DEF encode_elem
  <1>2. (IF b THEN TRUE_ ELSE FALSE_) \in Bytes
    BY Codes
  <1>3. QED
    BY <1>1, <1>2, OneStr DEF One

\* A code before a string.
LEMMA OneCat == ASSUME NEW b \in Bytes, NEW s \in Str PROVE <<b>> \o s = Cat(One(b), s) /\ Cat(One(b), s) \in Str
  <1>1. <<b>> \o s = Cat(One(b), s)
    BY DEF Cat, One
  <1>2. QED
    BY <1>1, OneStr, CatStr

\* encode/2 of binaries and of utf8.
LEMMA EncBytes ==
    ASSUME NEW s \in Str, NEW d \in Nat, NEW g
    PROVE  /\ encode_elem(<<"bytes", s>>, d, g) = Cat(One(BYTES), enc_null_terminated(s))
           /\ encode_elem(<<"utf8", s>>, d, g) = Cat(One(UTF8), enc_null_terminated(s))
           /\ encode_elem(<<"bytes", s>>, d, g) \in Str /\ encode_elem(<<"utf8", s>>, d, g) \in Str
  <1>1. encode_elem(<<"bytes", s>>, d, g) = <<BYTES>> \o enc_null_terminated(s)
    BY DEF encode_elem
  <1>2. encode_elem(<<"utf8", s>>, d, g) = <<UTF8>> \o enc_null_terminated(s)
    BY DEF encode_elem
  <1>3. PICK w \in Str : w = enc_null_terminated(s)
    BY EscsStr
  <1>4. BYTES \in Bytes /\ UTF8 \in Bytes
    BY Codes
  <1>5. /\ <<BYTES>> \o w = Cat(One(BYTES), w) /\ Cat(One(BYTES), w) \in Str
        /\ <<UTF8>> \o w = Cat(One(UTF8), w) /\ Cat(One(UTF8), w) \in Str
    BY <1>4, OneCat
  <1>6. QED
    BY <1>1, <1>2, <1>3, <1>5

\* encode/2 of integers.
LEMMA EncInt ==
    ASSUME NEW n \in Ints, NEW d \in Nat, NEW g
    PROVE  encode_elem(<<"int", n>>, d, g) = encode_int(n) /\ encode_elem(<<"int", n>>, d, g) \in Str
  <1>1. encode_elem(<<"int", n>>, d, g) = encode_int(n)
    BY DEF encode_elem
  <1>2. QED
    BY <1>1, IntCases

\* encode/2 of the types of fixed length.
LEMMA EncFixed ==
    ASSUME NEW t \in Fixeds, NEW s \in Str, NEW d \in Nat, NEW g
    PROVE  /\ encode_elem(<<t, s>>, d, g) = Cat(One(Fixed[t]), s)
           /\ encode_elem(<<t, s>>, d, g) \in Str
  <1>1. t \notin {"null", "bool", "bytes", "utf8", "int", "tuple"}
    BY DEF Fixeds
  <1>2. encode_elem(<<t, s>>, d, g) = <<Fixed[t]>> \o s
    BY <1>1 DEF encode_elem
  <1>3. QED
    BY <1>2, FixedFacts, OneCat

\* encode/2 of a nested tuple.
LEMMA EncTuple ==
    ASSUME NEW v \in Seq(Elems), NEW d \in Nat, NEW g \in Encoders
    PROVE  /\ encode_elem(<<"tuple", v>>, d, g)
                  = Cat(One(NESTED), Cat(FlattenSeq(Parts(v, d + 1, g)), One(NULL)))
           /\ encode_elem(<<"tuple", v>>, d, g) \in Str
  <1>1. PICK w : w = FlattenSeq(Parts(v, d + 1, g))
    OBVIOUS
  <1>2. w \in Str
    <2>1. d + 1 \in Nat
      OBVIOUS
    <2>2. QED
      BY <1>1, <2>1, PartsStr
  <1>3. encode_elem(<<"tuple", v>>, d, g) = (<<NESTED>> \o w) \o <<NULL>>
    <2>1. encode_elem(<<"tuple", v>>, d, g) = <<NESTED>> \o FlattenSeq(Parts(v, d + 1, g)) \o <<NULL>>
      BY DEF encode_elem, Parts
    <2>2. QED
      BY <1>1, <2>1
  <1>4. PICK a \in Str, z \in Str : a = One(NESTED) /\ z = One(NULL)
    BY OneStr, Codes
  <1>5. (<<NESTED>> \o w) \o <<NULL>> = Cat(Cat(a, w), z)
    BY <1>4 DEF Cat, One
  <1>6. Cat(Cat(a, w), z) = Cat(a, Cat(w, z)) /\ Cat(a, Cat(w, z)) \in Str
    BY <1>2, CatStr
  <1>7. QED
    BY <1>1, <1>3, <1>4, <1>5, <1>6

\* encode/2 gives a string.
LEMMA EncType ==
    ASSUME NEW e \in Elems, NEW d \in Nat, NEW g \in Encoders
    PROVE  encode_elem(e, d, g) \in Str
  <1>1. CASE e = <<"null", 0>>
    BY <1>1, EncNull
  <1>2. CASE \E b \in BOOLEAN : e = <<"bool", b>>
    BY <1>2, EncBool
  <1>3. CASE \E n \in Ints : e = <<"int", n>>
    BY <1>3, EncInt
  <1>4. CASE \E s \in Str : e = <<"bytes", s>> \/ e = <<"utf8", s>>
    BY <1>4, EncBytes
  <1>5. CASE \E t \in Fixeds : \E s \in Str : Len(s) = Size(t) /\ e = <<t, s>>
    BY <1>5, EncFixed
  <1>6. CASE \E v \in Seq(Elems) : e = <<"tuple", v>>
    BY <1>6, EncTuple
  <1>7. QED
    BY <1>1, <1>2, <1>3, <1>4, <1>5, <1>6, ElemCases DEF FlatIs

\* encode/2 of an element needs only those nested in it.
LEMMA EncSame ==
    ASSUME NEW e \in Elems, NEW d \in Nat, NEW g, NEW h,
           \A v \in Seq(Elems) : e = <<"tuple", v>> => \A i \in 1..Len(v) : g[v[i]] = h[v[i]]
    PROVE  encode_elem(e, d, g) = encode_elem(e, d, h)
  <1>1. CASE FlatIs(e)
    <2>1. e[1] # "tuple"
      BY <1>1, FlatCases, FlatType
    <2>2. QED
      BY <2>1 DEF encode_elem
  <1>2. CASE \E v \in Seq(Elems) : e = <<"tuple", v>>
    <2>1. PICK v \in Seq(Elems) : e = <<"tuple", v>>
      BY <1>2
    <2>2. \A i \in 1..Len(v) : g[v[i]] = h[v[i]]
      BY <2>1
    <2>3. Parts(v, d + 1, g) = Parts(v, d + 1, h)
      BY <2>2 DEF Parts
    <2>4. \A k : encode_elem(<<"tuple", v>>, d, k) = <<NESTED>> \o FlattenSeq(Parts(v, d + 1, k)) \o <<NULL>>
      BY DEF encode_elem, Parts
    <2>5. QED
      BY <2>1, <2>3, <2>4
  <1>3. QED
    BY <1>1, <1>2, ElemCases

\* encode/2 is defined for every element and depth.
LEMMA EncodeFunction ==
    encode \in Encoders /\ \A e \in Elems, d \in Nat : encode[e][d] = encode_elem(e, d, encode)
  <1> DEFINE V == [Nat -> Str]
             Is(g) == g = [e \in Elems |-> [d \in Nat |-> encode_elem(e, d, g)]]
             F == [g \in [Elems -> V] |-> [e \in Elems |-> [d \in Nat |-> encode_elem(e, d, g)]]]
  <1>1. Encoders = [Elems -> V]
    BY DEF Encoders
  <1>2. ASSUME NEW g \in [Elems -> V] PROVE [e \in Elems |-> [d \in Nat |-> encode_elem(e, d, g)]] \in [Elems -> V]
    <2>1. \A e \in Elems, d \in Nat : encode_elem(e, d, g) \in Str
      BY <1>1, EncType
    <2>2. QED
      BY <2>1
  <1>3. F \in [[Elems -> V] -> [Elems -> V]]
    <2> HIDE DEF V
    <2>1. QED
      BY <1>2
  <1>4. Smaller(Elems, V, Rank, F)
    <2> SUFFICES ASSUME NEW g \in [Elems -> V], NEW h \in [Elems -> V], NEW e \in Elems,
                        \A y \in Elems : Rank[y] < Rank[e] => g[y] = h[y]
                 PROVE  F[g][e] = F[h][e]
      BY DEF Smaller
    <2>1. \A d \in Nat : encode_elem(e, d, g) = encode_elem(e, d, h)
      <3>1. \A v \in Seq(Elems) : e = <<"tuple", v>> => \A i \in 1..Len(v) : g[v[i]] = h[v[i]]
        BY RankNested
      <3>2. QED
        BY <3>1, EncSame
    <2> HIDE DEF V
    <2>2. F[g][e] = [d \in Nat |-> encode_elem(e, d, g)] /\ F[h][e] = [d \in Nat |-> encode_elem(e, d, h)]
      OBVIOUS
    <2>3. QED
      BY <2>1, <2>2
  <1>5. Recursive(Elems, V, Rank, F)
    <2>1. V # {}
      <3>1. [n \in Nat |-> <<>>] \in V
        BY StrConcat
      <3>2. QED
        BY <3>1
    <2> HIDE DEF V, F
    <2>2. QED
      BY <1>3, <1>4, <2>1, RankFacts DEF Recursive
  <1>0. encode = CHOOSE g : Is(g)
    BY DEF encode
  <1>6. PICK g \in [Elems -> V] : Is(g)
    <2>1. \A g \in [Elems -> V] : g = F[g] => Is(g)
      <3> HIDE DEF V
      <3>1. QED
        OBVIOUS
    <2> HIDE DEF V, F, Is
    <2>2. PICK g \in [Elems -> V] : g = F[g]
      BY <1>5, Recursion
    <2>3. QED
      BY <2>1, <2>2
  <1>7. Is(encode)
    <2> HIDE DEF Is
    <2>1. QED
      BY <1>0, <1>6, Zenon
  <1>8. \A e \in Elems, d \in Nat : encode[e][d] = encode_elem(e, d, encode)
    BY <1>7, ZenonT(30)
  <1>9. \A e \in Elems : encode[e] = g[e]
    <2> DEFINE S == {e \in Elems : encode[e] = g[e]}
    <2>1. ASSUME NEW e \in Elems,
                 \A v \in Seq(Elems) : e = <<"tuple", v>> => \A i \in 1..Len(v) : v[i] \in S
          PROVE  e \in S
      <3>1. \A v \in Seq(Elems) : e = <<"tuple", v>> => \A i \in 1..Len(v) : encode[v[i]] = g[v[i]]
        BY <2>1
      <3>2. \A d \in Nat : encode_elem(e, d, encode) = encode_elem(e, d, g)
        <4> HIDE DEF S, V
        <4> SUFFICES ASSUME NEW d \in Nat PROVE encode_elem(e, d, encode) = encode_elem(e, d, g)
          OBVIOUS
        <4>1. PICK h : h = encode
          OBVIOUS
        <4>2. \A v \in Seq(Elems) : e = <<"tuple", v>> => \A i \in 1..Len(v) : h[v[i]] = g[v[i]]
          BY <3>1, <4>1
        <4>3. encode_elem(e, d, h) = encode_elem(e, d, g)
          BY <4>2, EncSame
        <4>4. QED
          BY <4>1, <4>3
      <3>3. encode[e] = [d \in Nat |-> encode_elem(e, d, encode)] /\ g[e] = [d \in Nat |-> encode_elem(e, d, g)]
        <4> HIDE DEF V
        <4>1. QED
          BY <1>6, <1>7
      <3>4. QED
        BY <3>2, <3>3
    <2>2. \A e \in Flat : e \in S
      <3> SUFFICES ASSUME NEW e \in Flat PROVE e \in S
        OBVIOUS
      <3>1. e \in Elems /\ \A v : e # <<"tuple", v>>
        BY FlatElems, FlatType
      <3> HIDE DEF S
      <3>2. QED
        BY <2>1, <3>1
    <2>3. \A v \in Seq(Elems) : <<"tuple", v>> \in Elems /\ v \in Seq(S) => <<"tuple", v>> \in S
      <3> HIDE DEF S
      <3> SUFFICES ASSUME NEW v \in Seq(Elems), <<"tuple", v>> \in Elems, v \in Seq(S)
                   PROVE  <<"tuple", v>> \in S
        OBVIOUS
      <3>1. \A i \in 1..Len(v) : v[i] \in S
        OBVIOUS
      <3>2. PICK e \in Elems : e = <<"tuple", v>>
        OBVIOUS
      <3>3. \A u \in Seq(Elems) : e = <<"tuple", u>> => u = v
        BY <3>2
      <3>4. e \in S
        BY <2>1, <3>1, <3>3
      <3>5. QED
        BY <3>2, <3>4
    <2> HIDE DEF S
    <2>4. \A e \in Elems : e \in S
      BY <2>2, <2>3, ElemInduction
    <2>5. QED
      BY <2>4 DEF S
  <1>10. encode \in [Elems -> V]
    <2>1. encode = [e \in Elems |-> encode[e]]
      BY <1>7
    <2> HIDE DEF V
    <2>2. QED
      BY <1>9, <2>1
  <1>11. QED
    BY <1>1, <1>8, <1>10

-----------------------------------------------------------------------------
(* The order of encoded elements *)

\* What can follow an element: the end, or a byte that is not ESCAPE.
Conts == {x \in Str : x = <<>> \/ x[1] # ESCAPE}

\* A string that begins with a byte.
LEMMA OneCatPoints ==
    ASSUME NEW b \in Bytes, NEW s \in Str
    PROVE  /\ Cat(One(b), s) \in Str /\ Cat(One(b), s) # <<>> /\ Cat(One(b), s)[1] = b
           /\ Len(Cat(One(b), s)) = Len(s) + 1
  <1>1. PICK u : u = One(b)
    OBVIOUS
  <1>2. u \in Seq(Nat) /\ u \in Str /\ Len(u) = 1 /\ u[1] = b
    BY <1>1, OneStr, StrFacts
  <1>3. s \in Seq(Nat) /\ Len(s) \in Nat
    BY StrFacts
  <1>4. PICK w : w = u \o s
    OBVIOUS
  <1>5. w \in Seq(Nat) /\ Len(w) = Len(u) + Len(s) /\ \A i \in 1..Len(u) : w[i] = u[i]
    BY <1>2, <1>3, <1>4, ConcatPoints
  <1>6. Len(w) = Len(s) + 1 /\ w[1] = b
    BY <1>2, <1>3, <1>5
  <1>7. w # <<>>
    BY <1>3, <1>6
  <1>8. w = Cat(One(b), s)
    BY <1>1, <1>4 DEF Cat
  <1>9. Cat(One(b), s) \in Str
    BY OneStr, CatStr
  <1>10. QED
    BY <1>6, <1>7, <1>8, <1>9

\* What may follow a zero byte that ends a string.
LEMMA ContsFacts ==
    /\ Conts \subseteq Str /\ <<>> \in Conts
    /\ \A b \in Bytes, s \in Str : b # ESCAPE => Cat(One(b), s) \in Conts
  BY StrConcat, OneCatPoints DEF Conts

\* The first bytes decide.
LEMMA SortedFirst ==
    ASSUME NEW a \in Bytes, NEW b \in Bytes, a < b, NEW s \in Str, NEW t \in Str
    PROVE  /\ Sorted(Str, Cat(One(a), s), Cat(One(b), t))
           /\ Less(Cat(One(a), s), Cat(One(b), t))
  <1>1. ASSUME NEW u \in Str, NEW w \in Str PROVE Less(Cat(One(a), u), Cat(One(b), w))
    <2>1. PICK x \in Str, y \in Str : x = Cat(One(a), u) /\ y = Cat(One(b), w)
              /\ x # <<>> /\ y # <<>> /\ x[1] = a /\ y[1] = b
      BY OneCatPoints
    <2>2. x \in Seq(Nat) /\ y \in Seq(Nat)
      BY StrFacts
    <2>3. Less(x, y)
      BY <2>1, <2>2, LessFirst
    <2>4. QED
      BY <2>1, <2>3
  <1>2. ASSUME NEW x \in Str, NEW y \in Str
        PROVE  Less(Cat(Cat(One(a), s), x), Cat(Cat(One(b), t), y))
    <2>1. PICK u \in Str, w \in Str : u = Cat(s, x) /\ w = Cat(t, y)
      BY CatStr
    <2>2. PICK p \in Str, q \in Str : p = One(a) /\ q = One(b)
      BY OneStr
    <2>3. Cat(Cat(p, s), x) = Cat(p, u) /\ Cat(Cat(q, t), y) = Cat(q, w)
      BY <2>1, CatStr
    <2>4. QED
      BY <1>1, <2>2, <2>3
  <1>3. QED
    BY <1>1, <1>2 DEF Sorted

\* The same before them.
LEMMA SortedAfter ==
    ASSUME NEW C, C \subseteq Str, NEW p \in Str, NEW s \in Str, NEW t \in Str, Sorted(C, s, t)
    PROVE  Sorted(C, Cat(p, s), Cat(p, t))
  <1> SUFFICES ASSUME NEW x \in C, NEW y \in C
               PROVE  Less(Cat(Cat(p, s), x), Cat(Cat(p, t), y))
    BY DEF Sorted
  <1>1. x \in Str /\ y \in Str
    OBVIOUS
  <1>2. Less(Cat(s, x), Cat(t, y))
    BY DEF Sorted
  <1>3. PICK u \in Str, w \in Str : u = Cat(s, x) /\ w = Cat(t, y)
    BY <1>1, CatStr
  <1>4. Cat(Cat(p, s), x) = Cat(p, u) /\ Cat(Cat(p, t), y) = Cat(p, w)
    BY <1>1, <1>3, CatStr
  <1>5. QED
    BY <1>2, <1>3, <1>4, CatLess

\* Keys that are in order with more endings are with fewer.
LEMMA SortedSub ==
    ASSUME NEW C, NEW D, C \subseteq D, NEW s, NEW t, Sorted(D, s, t)
    PROVE  Sorted(C, s, t)
  BY DEF Sorted

-----------------------------------------------------------------------------
(* Integers *)

\* The absolute values of two integers, with the sizes of their bytes.
LEMMA BinOrder ==
    ASSUME NEW a \in Ints, NEW b \in Ints, Abs(a) < Abs(b)
    PROVE  /\ Len(Bin(a)) <= Len(Bin(b))
           /\ Len(Bin(a)) = Len(Bin(b)) =>
                Sorted(Str, Bin(a), Bin(b)) /\ Sorted(Str, Inverted(Bin(b)), Inverted(Bin(a)))
  <1>1. PICK m \in Nat : m = Abs(a)
    BY BinFacts
  <1>2. PICK n \in Nat : n = Abs(b)
    BY BinFacts
  <1>3. m < n /\ m <= n
    BY <1>1, <1>2
  <1>4. PICK s \in Str : s = Bin(a) /\ s = encode_unsigned[m]
    BY <1>1, BinFacts DEF Bin
  <1>5. PICK t \in Str : t = Bin(b) /\ t = encode_unsigned[n]
    BY <1>2, BinFacts DEF Bin
  <1>6. Len(s) <= Len(t)
    BY <1>3, <1>4, <1>5, NumberLenMonotone
  <1>7. ASSUME Len(s) = Len(t)
        PROVE  Sorted(Str, s, t) /\ Sorted(Str, Inverted(t), Inverted(s))
    <2>1. Less(s, t)
      BY <1>3, <1>4, <1>5, <1>7, NumberOrder
    <2>2. PICK x \in Str, y \in Str : x = Inverted(s) /\ y = Inverted(t)
              /\ Len(x) = Len(s) /\ Len(y) = Len(t)
      BY InvertedStr
    <2>3. Less(y, x)
      BY <1>7, <2>1, <2>2, InvertedOrder
    <2>4. QED
      BY <1>7, <2>1, <2>2, <2>3, LessSame
  <1>8. QED
    BY <1>4, <1>5, <1>6, <1>7

\* The first byte of an integer.
LEMMA IntFirst ==
    ASSUME NEW n \in Ints
    PROVE  \E c \in Bytes, r \in Str :
              /\ encode_int(n) = Cat(One(c), r) /\ 4 <= c /\ c <= POS_INT_9P
              /\ n < 0 => c < ZERO
              /\ n = 0 => c = ZERO
              /\ n > 0 => ZERO < c
  <1>1. PICK k \in Nat : k = Len(Bin(n)) /\ k >= 1 /\ k <= ESCAPE
    BY BinFacts
  <1>2. n \in Int /\ Bin(n) \in Str /\ Inverted(Bin(n)) \in Str
    BY BinFacts, InvertedStr
  <1>3. PICK m \in Nat : m = MaxFixed /\ m > 0
    BY ByteNumbers
  <1>4. ZERO = m + 5 /\ POS_INT_9P = 2 * m + 6 /\ NEG_INT_9P = 4
    BY <1>3, Codes
  <1>5. CASE n = 0
    <2>1. encode_int(n) = Cat(One(ZERO), <<>>)
      <3>1. One(ZERO) \in Str
        BY Codes, OneStr
      <3>2. QED
        BY <1>1, <1>5, <3>1, IntCases, CatStr
    <2>2. ZERO \in Bytes /\ <<>> \in Str /\ 4 <= ZERO /\ ZERO <= POS_INT_9P
      BY <1>4, Codes, StrConcat
    <2>3. QED
      BY <1>5, <2>1, <2>2
  <1>6. CASE n > 0 /\ k <= MaxFixed
    <2>1. ZERO + k \in Bytes /\ encode_int(n) = Cat(One(ZERO + k), Bin(n))
      BY <1>1, <1>6, IntCases
    <2>2. 4 <= ZERO + k /\ ZERO + k <= POS_INT_9P /\ ZERO < ZERO + k
      BY <1>1, <1>3, <1>4, <1>6
    <2>3. n # 0 /\ ~(n < 0)
      BY <1>2, <1>6
    <2>4. QED
      BY <1>2, <2>1, <2>2, <2>3
  <1>7. CASE n > 0 /\ k > MaxFixed
    <2>1. k \in Bytes /\ encode_int(n) = Cat(One(POS_INT_9P), Cat(One(k), Bin(n)))
      BY <1>1, <1>7, IntCases
    <2>2. 4 <= POS_INT_9P /\ POS_INT_9P <= POS_INT_9P /\ ZERO < POS_INT_9P /\ POS_INT_9P \in Bytes
      BY <1>3, <1>4, Codes
    <2>3. n # 0 /\ ~(n < 0)
      BY <1>2, <1>7
    <2>4. PICK r \in Str : r = Cat(One(k), Bin(n))
      BY <1>2, <2>1, OneStr, CatStr
    <2>5. QED
      BY <2>1, <2>2, <2>3, <2>4
  <1>8. CASE n < 0 /\ k <= MaxFixed
    <2>1. ZERO - k \in Bytes /\ encode_int(n) = Cat(One(ZERO - k), Inverted(Bin(n)))
      BY <1>1, <1>8, IntCases
    <2>2. 4 <= ZERO - k /\ ZERO - k <= POS_INT_9P /\ ZERO - k < ZERO
      BY <1>1, <1>3, <1>4, <1>8
    <2>3. n # 0 /\ ~(n > 0)
      BY <1>2, <1>8
    <2>4. QED
      BY <1>2, <2>1, <2>2, <2>3
  <1>9. CASE n < 0 /\ k > MaxFixed
    <2>1. ESCAPE - k \in Bytes
            /\ encode_int(n) = Cat(One(NEG_INT_9P), Cat(One(ESCAPE - k), Inverted(Bin(n))))
      BY <1>1, <1>9, IntCases
    <2>2. 4 <= NEG_INT_9P /\ NEG_INT_9P <= POS_INT_9P /\ NEG_INT_9P < ZERO /\ NEG_INT_9P \in Bytes
      BY <1>3, <1>4, Codes
    <2>3. n # 0 /\ ~(n > 0)
      BY <1>2, <1>9
    <2>4. PICK r \in Str : r = Cat(One(ESCAPE - k), Inverted(Bin(n)))
      BY <1>2, <2>1, OneStr, CatStr
    <2>5. QED
      BY <2>1, <2>2, <2>3, <2>4
  <1>10. QED
    BY <1>1, <1>2, <1>3, <1>5, <1>6, <1>7, <1>8, <1>9

\* The order of integers is the order of their encodings.
LEMMA IntOrder ==
    ASSUME NEW a \in Ints, NEW b \in Ints, a < b
    PROVE  Sorted(Str, encode_int(a), encode_int(b))
  <1>1. a \in Int /\ b \in Int
    BY BinFacts
  <1>2. PICK m \in Nat : m = MaxFixed /\ m > 0 /\ ZERO = m + 5 /\ POS_INT_9P = 2 * m + 6
            /\ NEG_INT_9P = 4 /\ ESCAPE = 2 * m + 13
    BY ByteNumbers, Codes
  <1>3. CASE (a < 0 /\ ~(b < 0)) \/ (a = 0)
    <2>1. PICK c \in Bytes, r \in Str : encode_int(a) = Cat(One(c), r)
              /\ (a < 0 => c < ZERO) /\ (a = 0 => c = ZERO)
      BY IntFirst
    <2>2. PICK d \in Bytes, s \in Str : encode_int(b) = Cat(One(d), s)
              /\ (b = 0 => d = ZERO) /\ (b > 0 => ZERO < d)
      BY IntFirst
    <2>3. c \in Nat /\ d \in Nat
      BY ByteNumbers
    <2>4. c < d
      BY <1>1, <1>2, <1>3, <2>1, <2>2, <2>3
    <2>5. QED
      BY <2>1, <2>2, <2>4, SortedFirst
  <1>4. PICK j \in Nat : j = Len(Bin(a)) /\ j >= 1 /\ j <= ESCAPE
    BY BinFacts
  <1>5. PICK k \in Nat : k = Len(Bin(b)) /\ k >= 1 /\ k <= ESCAPE
    BY BinFacts
  <1>6. PICK s \in Str, t \in Str : s = Bin(a) /\ t = Bin(b)
    BY BinFacts
  <1>7. PICK x \in Str, y \in Str : x = Inverted(s) /\ y = Inverted(t)
    BY InvertedStr
  <1>8. CASE a > 0
    <2>1. b > 0 /\ Abs(a) < Abs(b)
      BY <1>1, <1>8 DEF Abs
    <2>2. j <= k /\ (j = k => Sorted(Str, s, t))
      BY <1>4, <1>5, <1>6, <2>1, BinOrder
    <2>3. CASE k <= MaxFixed
      <3>1. j <= MaxFixed
        BY <1>2, <2>2, <2>3
      <3>2. PICK c \in Bytes, d \in Bytes : c = ZERO + j /\ d = ZERO + k
                /\ encode_int(a) = Cat(One(c), s) /\ encode_int(b) = Cat(One(d), t)
        BY <1>4, <1>5, <1>6, <1>8, <2>1, <2>3, <3>1, IntCases
      <3>3. CASE j = k
        BY <2>2, <3>2, <3>3, OneStr, SortedAfter
      <3>4. CASE j # k
        <4>1. c < d
          BY <1>2, <2>2, <3>2, <3>4
        <4>2. QED
          BY <3>2, <4>1, SortedFirst
      <3>5. QED
        BY <3>3, <3>4
    <2>4. CASE j > MaxFixed
      <3>1. k > MaxFixed
        BY <1>2, <2>2, <2>4
      <3>2. PICK c \in Bytes, d \in Bytes : c = j /\ d = k
                /\ encode_int(a) = Cat(One(POS_INT_9P), Cat(One(c), s))
                /\ encode_int(b) = Cat(One(POS_INT_9P), Cat(One(d), t))
        BY <1>4, <1>5, <1>6, <1>8, <2>1, <2>4, <3>1, IntCases
      <3>3. PICK g \in Str, h \in Str : g = Cat(One(c), s) /\ h = Cat(One(d), t)
        BY OneCatPoints
      <3>4. Sorted(Str, g, h)
        <4>1. CASE j = k
          BY <2>2, <3>2, <3>3, <4>1, OneStr, SortedAfter
        <4>2. CASE j # k
          <5>1. c < d
            BY <2>2, <3>2, <4>2
          <5>2. QED
            BY <3>3, <5>1, SortedFirst
        <4>3. QED
          BY <4>1, <4>2
      <3>5. One(POS_INT_9P) \in Str
        BY OneStr, Codes
      <3>6. Sorted(Str, Cat(One(POS_INT_9P), g), Cat(One(POS_INT_9P), h))
        BY <3>4, <3>5, SortedAfter
      <3>7. QED
        BY <3>2, <3>3, <3>6
    <2>5. CASE j <= MaxFixed /\ k > MaxFixed
      <3>1. ZERO + j \in Bytes /\ encode_int(a) = Cat(One(ZERO + j), s)
        BY <1>4, <1>6, <1>8, <2>5, IntCases
      <3>2. k \in Bytes /\ encode_int(b) = Cat(One(POS_INT_9P), Cat(One(k), t))
        BY <1>5, <1>6, <2>1, <2>5, IntCases
      <3>3. PICK h \in Str : h = Cat(One(k), t)
        BY <3>2, OneCatPoints
      <3>4. ZERO + j < POS_INT_9P /\ POS_INT_9P \in Bytes
        BY <1>2, <2>5, Codes
      <3>5. QED
        BY <3>1, <3>2, <3>3, <3>4, SortedFirst
    <2>6. QED
      BY <1>2, <2>3, <2>4, <2>5
  <1>9. CASE b < 0
    <2>1. a < 0 /\ Abs(b) < Abs(a)
      BY <1>1, <1>9 DEF Abs
    <2>2. k <= j /\ (j = k => Sorted(Str, x, y))
      BY <1>4, <1>5, <1>6, <1>7, <2>1, BinOrder
    <2>3. CASE j <= MaxFixed
      <3>1. k <= MaxFixed
        BY <1>2, <2>2, <2>3
      <3>2. PICK c \in Bytes, d \in Bytes : c = ZERO - j /\ d = ZERO - k
                /\ encode_int(a) = Cat(One(c), x) /\ encode_int(b) = Cat(One(d), y)
        BY <1>4, <1>5, <1>6, <1>7, <1>9, <2>1, <2>3, <3>1, IntCases
      <3>3. CASE j = k
        BY <2>2, <3>2, <3>3, OneStr, SortedAfter
      <3>4. CASE j # k
        <4>1. c < d
          BY <1>2, <2>2, <3>2, <3>4
        <4>2. QED
          BY <3>2, <4>1, SortedFirst
      <3>5. QED
        BY <3>3, <3>4
    <2>4. CASE k > MaxFixed
      <3>1. j > MaxFixed
        BY <1>2, <2>2, <2>4
      <3>2. PICK c \in Bytes, d \in Bytes : c = ESCAPE - j /\ d = ESCAPE - k
                /\ encode_int(a) = Cat(One(NEG_INT_9P), Cat(One(c), x))
                /\ encode_int(b) = Cat(One(NEG_INT_9P), Cat(One(d), y))
        BY <1>4, <1>5, <1>6, <1>7, <1>9, <2>1, <2>4, <3>1, IntCases
      <3>3. PICK g \in Str, h \in Str : g = Cat(One(c), x) /\ h = Cat(One(d), y)
        BY OneCatPoints
      <3>4. Sorted(Str, g, h)
        <4>1. CASE j = k
          BY <2>2, <3>2, <3>3, <4>1, OneStr, SortedAfter
        <4>2. CASE j # k
          <5>1. c < d
            BY <1>2, <2>2, <3>2, <4>2
          <5>2. QED
            BY <3>3, <5>1, SortedFirst
        <4>3. QED
          BY <4>1, <4>2
      <3>5. One(NEG_INT_9P) \in Str
        BY OneStr, Codes
      <3>6. Sorted(Str, Cat(One(NEG_INT_9P), g), Cat(One(NEG_INT_9P), h))
        BY <3>4, <3>5, SortedAfter
      <3>7. QED
        BY <3>2, <3>3, <3>6
    <2>5. CASE j > MaxFixed /\ k <= MaxFixed
      <3>1. ESCAPE - j \in Bytes /\ encode_int(a) = Cat(One(NEG_INT_9P), Cat(One(ESCAPE - j), x))
        BY <1>4, <1>6, <1>7, <2>1, <2>5, IntCases
      <3>2. ZERO - k \in Bytes /\ encode_int(b) = Cat(One(ZERO - k), y)
        BY <1>5, <1>6, <1>7, <1>9, <2>5, IntCases
      <3>3. PICK g \in Str : g = Cat(One(ESCAPE - j), x)
        BY <3>1, OneCatPoints
      <3>4. NEG_INT_9P < ZERO - k /\ NEG_INT_9P \in Bytes
        BY <1>2, <2>5, Codes
      <3>5. QED
        BY <3>1, <3>2, <3>3, <3>4, SortedFirst
    <2>6. QED
      BY <1>2, <2>3, <2>4, <2>5
  <1>10. QED
    BY <1>1, <1>3, <1>8, <1>9

-----------------------------------------------------------------------------
(* Strings that end with a zero byte *)

\* An escaped byte begins with the byte.
LEMMA EscFirst ==
    ASSUME NEW b \in Bytes
    PROVE  \E r \in Str : Esc(b) = Cat(One(b), r) /\ (b = NULL => r = One(ESCAPE))
  <1>1. CASE b = NULL
    <2>1. Esc(b) = Cat(One(b), One(ESCAPE)) /\ One(ESCAPE) \in Str
      BY <1>1, TwoBytes, OneStr, Codes DEF Esc
    <2>2. QED
      BY <1>1, <2>1
  <1>2. CASE b # NULL
    <2>1. Esc(b) = Cat(One(b), <<>>) /\ <<>> \in Str
      <3>1. Esc(b) = One(b) /\ One(b) \in Str
        BY <1>2, OneStr DEF Esc, One
      <3>2. QED
        BY <3>1, CatStr, StrConcat
    <2>2. QED
      BY <1>2, <2>1
  <1>3. QED
    BY <1>1, <1>2

\* A zero byte that is not escaped comes before everything that goes on.
Ends(s) == \A x \in Conts, y \in Str : Less(Cat(One(NULL), x), Cat(s, y))

\* An escaped zero is after the end.
LEMMA EndsEscaped == ASSUME NEW r \in Str PROVE Ends(Cat(One(NULL), Cat(One(ESCAPE), r)))
  <1> SUFFICES ASSUME NEW x \in Conts, NEW y \in Str
               PROVE  Less(Cat(One(NULL), x), Cat(Cat(One(NULL), Cat(One(ESCAPE), r)), y))
    BY DEF Ends
  <1>1. PICK z \in Str, f \in Str : z = One(NULL) /\ f = One(ESCAPE)
    BY OneStr, Codes
  <1>2. PICK u \in Str : u = Cat(r, y)
    BY CatStr
  <1>3. Cat(Cat(z, Cat(f, r)), y) = Cat(z, Cat(f, u))
    BY <1>2, CatAssociative4
  <1>4. PICK w \in Str : w = Cat(f, u) /\ w # <<>> /\ w[1] = ESCAPE
    BY <1>1, OneCatPoints, Codes
  <1>5. x \in Str /\ x \in Seq(Nat) /\ w \in Seq(Nat) /\ (x = <<>> \/ x[1] # ESCAPE)
    BY StrFacts DEF Conts
  <1>6. Less(x, w)
    <2>1. CASE x = <<>>
      BY <1>4, <1>5, <2>1, LessEmpty
    <2>2. CASE x # <<>>
      <3>1. x[1] \in Bytes
        BY <1>5, <2>2, StrFacts
      <3>2. x[1] < w[1]
        BY <1>4, <1>5, <2>2, <3>1, ByteNumbers DEF Bytes
      <3>3. QED
        BY <1>4, <1>5, <2>2, <3>2, LessFirst
    <2>3. QED
      BY <2>1, <2>2
  <1>7. Less(Cat(z, x), Cat(z, w))
    BY <1>5, <1>6, CatLess
  <1>8. QED
    BY <1>1, <1>3, <1>4, <1>7

\* A byte that is not zero is after the end.
LEMMA EndsByte ==
    ASSUME NEW b \in Bytes, b # NULL, NEW r \in Str
    PROVE  Ends(Cat(One(b), r))
  <1>1. NULL \in Bytes /\ NULL < b
    BY Codes, ByteNumbers DEF Bytes
  <1>2. PICK z \in Str : z = One(NULL) /\ Cat(z, <<>>) = z
    BY <1>1, OneStr, CatStr
  <1>3. Sorted(Str, Cat(One(NULL), <<>>), Cat(One(b), r))
    BY <1>1, StrConcat, SortedFirst
  <1>4. Sorted(Str, One(NULL), Cat(One(b), r))
    BY <1>2, <1>3
  <1>5. QED
    BY <1>4, ContsFacts DEF Sorted, Ends

\* So is every byte of a string.
LEMMA EndsEsc == ASSUME NEW b \in Bytes PROVE Ends(Esc(b))
  <1>1. PICK r \in Str : Esc(b) = Cat(One(b), r) /\ (b = NULL => r = One(ESCAPE))
    BY EscFirst
  <1>2. CASE b = NULL
    <2>1. One(ESCAPE) \in Str /\ Cat(One(ESCAPE), <<>>) = One(ESCAPE) /\ <<>> \in Str
      BY OneStr, CatStr, StrConcat, Codes
    <2>2. Ends(Cat(One(NULL), Cat(One(ESCAPE), <<>>)))
      BY <2>1, EndsEscaped
    <2>3. QED
      BY <1>1, <1>2, <2>1, <2>2
  <1>3. CASE b # NULL
    BY <1>1, <1>3, EndsByte
  <1>4. QED
    BY <1>2, <1>3

\* A joined sequence that ends comes before one that goes on.
LEMMA FlattenEnds ==
    ASSUME NEW ss \in Seq(Str), NEW tt \in Seq(Str), Len(ss) < Len(tt),
           \A j \in 1..Len(ss) : ss[j] = tt[j], Ends(tt[Len(ss) + 1])
    PROVE  Sorted(Conts, Cat(FlattenSeq(ss), One(NULL)), Cat(FlattenSeq(tt), One(NULL)))
  <1> SUFFICES ASSUME NEW x \in Conts, NEW y \in Conts
               PROVE  Less(Cat(Cat(FlattenSeq(ss), One(NULL)), x), Cat(Cat(FlattenSeq(tt), One(NULL)), y))
    BY DEF Sorted
  <1>1. PICK r \in Seq(Str) :
            /\ tt[Len(ss) + 1] \in Str /\ FlattenSeq(r) \in Str
            /\ FlattenSeq(tt) = Cat(FlattenSeq(ss), Cat(tt[Len(ss) + 1], FlattenSeq(r)))
    BY FlattenLonger
  <1>2. PICK p \in Str : p = FlattenSeq(ss)
    BY FlattenType, StrStrings
  <1>3. PICK e \in Str, g \in Str : e = tt[Len(ss) + 1] /\ g = FlattenSeq(r)
    BY <1>1
  <1>4. PICK z \in Str : z = One(NULL)
    BY OneStr, Codes
  <1>5. x \in Str /\ y \in Str
    BY ContsFacts
  <1>6. PICK w \in Str : w = Cat(z, y)
    BY <1>5, CatStr
  <1>7. PICK u \in Str : u = Cat(g, w)
    BY CatStr
  <1>8. Cat(Cat(p, z), x) = Cat(p, Cat(z, x))
    BY <1>5, CatStr
  <1>9. Cat(Cat(Cat(p, Cat(e, g)), z), y) = Cat(p, Cat(e, u))
    <2>1. PICK q \in Str : q = Cat(p, Cat(e, g))
      BY CatStr
    <2>2. Cat(Cat(q, z), y) = Cat(q, w)
      BY <1>5, <1>6, CatStr
    <2>3. Cat(q, w) = Cat(p, Cat(e, Cat(g, w)))
      BY <2>1, CatAssociative4
    <2>4. QED
      BY <1>7, <2>1, <2>2, <2>3
  <1>10. Less(Cat(z, x), Cat(e, u))
    BY <1>3, <1>4 DEF Ends
  <1>11. Cat(z, x) \in Str /\ Cat(e, u) \in Str
    BY <1>5, CatStr
  <1>12. Less(Cat(p, Cat(z, x)), Cat(p, Cat(e, u)))
    BY <1>10, <1>11, CatLess
  <1>13. QED
    BY <1>1, <1>2, <1>3, <1>4, <1>8, <1>9, <1>12

\* The order of strings is the order of their encodings.
LEMMA StringOrder ==
    ASSUME NEW s \in Str, NEW t \in Str, Less(s, t)
    PROVE  Sorted(Conts, enc_null_terminated(s), enc_null_terminated(t))
  <1>1. s \in Seq(Nat) /\ t \in Seq(Nat)
    BY StrFacts
  <1>2. PICK i \in Nat : LessAt(s, t, i)
    BY <1>1, LessIff
  <1>3. PICK m \in Nat, n \in Nat : m = Len(s) /\ n = Len(t)
    BY <1>1
  <1>4. /\ i \in 1..n /\ i <= m + 1 /\ \A j \in 1..(i - 1) : s[j] = t[j]
        /\ i = m + 1 \/ s[i] < t[i]
    BY <1>2, <1>3 DEF LessAt
  <1>5. PICK ss \in Seq(Str) : ss = Escs(s) /\ Len(ss) = m
            /\ \A j \in 1..m : ss[j] = Esc(s[j]) /\ s[j] \in Bytes
    BY <1>3, EscsStr
  <1>6. PICK tt \in Seq(Str) : tt = Escs(t) /\ Len(tt) = n
            /\ \A j \in 1..n : tt[j] = Esc(t[j]) /\ t[j] \in Bytes
    BY <1>3, EscsStr
  <1>7. \A j \in 1..(i - 1) : ss[j] = tt[j]
    BY <1>4, <1>5, <1>6
  <1>8. Sorted(Conts, Cat(FlattenSeq(ss), One(NULL)), Cat(FlattenSeq(tt), One(NULL)))
    <2>1. CASE i = m + 1
      <3>1. Len(ss) < Len(tt) /\ \A j \in 1..Len(ss) : ss[j] = tt[j]
        BY <1>4, <1>5, <1>6, <1>7, <2>1
      <3>2. Ends(tt[Len(ss) + 1])
        BY <1>4, <1>5, <1>6, <2>1, EndsEsc
      <3>3. QED
        BY <3>1, <3>2, FlattenEnds
    <2>2. CASE i # m + 1
      <3>1. i \in 1..m /\ s[i] < t[i]
        BY <1>4, <2>2
      <3>2. PICK b \in Bytes, c \in Bytes : b = s[i] /\ c = t[i] /\ b < c /\ ss[i] = Esc(b) /\ tt[i] = Esc(c)
        BY <1>4, <1>5, <1>6, <3>1
      <3>3. PICK r \in Str : Esc(b) = Cat(One(b), r)
        BY EscFirst
      <3>4. PICK q \in Str : Esc(c) = Cat(One(c), q)
        BY EscFirst
      <3>5. Sorted(Str, ss[i], tt[i])
        BY <3>2, <3>3, <3>4, SortedFirst
      <3> SUFFICES ASSUME NEW x \in Conts, NEW y \in Conts
                   PROVE  Less(Cat(Cat(FlattenSeq(ss), One(NULL)), x), Cat(Cat(FlattenSeq(tt), One(NULL)), y))
        BY DEF Sorted
      <3>6. PICK z \in Str : z = One(NULL)
        BY OneStr, Codes
      <3>7. x \in Str /\ y \in Str
        BY ContsFacts
      <3>8. PICK u \in Str, w \in Str : u = Cat(z, x) /\ w = Cat(z, y)
        BY <3>7, CatStr
      <3>9. i \in 1..Len(ss) /\ i \in 1..Len(tt)
        BY <1>4, <1>5, <1>6, <3>1
      <3>10. /\ Cat(FlattenSeq(SubSeq(ss, i + 1, Len(ss))), u) \in Str
             /\ Cat(FlattenSeq(SubSeq(tt, i + 1, Len(tt))), w) \in Str
        <4>1. SubSeq(ss, i + 1, Len(ss)) \in Seq(Str) /\ SubSeq(tt, i + 1, Len(tt)) \in Seq(Str)
          BY <3>9, SplitAt
        <4>2. /\ FlattenSeq(SubSeq(ss, i + 1, Len(ss))) \in Str
              /\ FlattenSeq(SubSeq(tt, i + 1, Len(tt))) \in Str
          BY <4>1, FlattenType, StrStrings
        <4>3. QED
          BY <4>2, CatStr
      <3>11. Less(Cat(FlattenSeq(ss), u), Cat(FlattenSeq(tt), w))
        BY <1>7, <3>5, <3>9, <3>10, FlattenLess
      <3>12. FlattenSeq(ss) \in Str /\ FlattenSeq(tt) \in Str
        BY FlattenType, StrStrings
      <3>13. /\ Cat(Cat(FlattenSeq(ss), z), x) = Cat(FlattenSeq(ss), u)
             /\ Cat(Cat(FlattenSeq(tt), z), y) = Cat(FlattenSeq(tt), w)
        BY <3>7, <3>8, <3>12, CatStr
      <3>14. QED
        BY <3>6, <3>11, <3>13
    <2>3. QED
      BY <2>1, <2>2
  <1>9. QED
    BY <1>5, <1>6, <1>8, EscsStr

-----------------------------------------------------------------------------
(* Elements by their codes *)

\* code_for/1, by the types of elements.
LEMMA CodeFor ==
    ASSUME NEW e \in Elems
    PROVE  \/ e = <<"null", 0>> /\ code_for(e) = NULL
           \/ \E b \in BOOLEAN : e = <<"bool", b>> /\ code_for(e) = IF b THEN TRUE_ ELSE FALSE_
           \/ \E n \in Ints : e = <<"int", n>> /\ code_for(e) = ZERO
           \/ \E s \in Str : e = <<"bytes", s>> /\ code_for(e) = BYTES
           \/ \E s \in Str : e = <<"utf8", s>> /\ code_for(e) = UTF8
           \/ \E t \in Fixeds : \E s \in Str : Len(s) = Size(t) /\ e = <<t, s>> /\ code_for(e) = Fixed[t]
           \/ \E v \in Seq(Elems) : e = <<"tuple", v>> /\ code_for(e) = NESTED
  <1>1. CASE e = <<"null", 0>>
    BY <1>1 DEF code_for
  <1>2. CASE \E b \in BOOLEAN : e = <<"bool", b>>
    BY <1>2 DEF code_for
  <1>3. CASE \E n \in Ints : e = <<"int", n>>
    BY <1>3 DEF code_for
  <1>4. CASE \E s \in Str : e = <<"bytes", s>> \/ e = <<"utf8", s>>
    BY <1>4 DEF code_for
  <1>5. CASE \E t \in Fixeds : \E s \in Str : Len(s) = Size(t) /\ e = <<t, s>>
    <2>1. PICK t \in Fixeds, s \in Str : Len(s) = Size(t) /\ e = <<t, s>>
      BY <1>5
    <2>2. t \notin {"null", "bool", "bytes", "utf8", "int", "tuple"}
      BY DEF Fixeds
    <2>3. code_for(e) = Fixed[t]
      BY <2>1, <2>2 DEF code_for
    <2>4. QED
      BY <2>1, <2>3
  <1>6. CASE \E v \in Seq(Elems) : e = <<"tuple", v>>
    BY <1>6 DEF code_for
  <1>7. QED
    BY <1>1, <1>2, <1>3, <1>4, <1>5, <1>6, ElemCases DEF FlatIs

\* The code of an element by its type.
CodeOf(e) ==
    /\ e[1] = "null"  => code_for(e) = 0
    /\ e[1] = "bytes" => code_for(e) = 1
    /\ e[1] = "utf8"  => code_for(e) = 2
    /\ e[1] = "tuple" => code_for(e) = 3
    /\ e[1] = "int"   => code_for(e) = ZERO
    /\ e[1] = "bool"  => e[2] \in BOOLEAN /\ code_for(e) = IF e[2] THEN TRUE_ ELSE FALSE_
    /\ e[1] \in Fixeds => code_for(e) = Fixed[e[1]]
    /\ e[1] \in {"null", "bytes", "utf8", "tuple", "int", "bool"} \cup Fixeds

\* code_for/1 of elements.
LEMMA CodeOfElem == ASSUME NEW e \in Elems PROVE CodeOf(e)
  BY CodeFor, Codes DEF CodeOf, Fixeds

\* Elements with the same code are of the same type.
LEMMA CodeType ==
    ASSUME NEW a \in Elems, NEW b \in Elems, code_for(a) = code_for(b)
    PROVE  a[1] = b[1] /\ (a[1] = "bool" => a[2] = b[2])
  <1>1. PICK m \in Nat : m = MaxFixed /\ m > 0 /\ ZERO = m + 5 /\ POS_INT_9P = 2 * m + 6
            /\ FALSE_ = 2 * m + 7 /\ TRUE_ = 2 * m + 8
    BY ByteNumbers, Codes
  <1>2. \A t \in Fixeds : Fixed[t] \in Nat /\ Fixed[t] > 2 * m + 8
    <2> SUFFICES ASSUME NEW t \in Fixeds PROVE Fixed[t] \in Nat /\ Fixed[t] > 2 * m + 8
      OBVIOUS
    <2>1. PICK c \in Bytes : c = Fixed[t] /\ c > POS_INT_9P + 2
      BY FixedFacts
    <2>2. c \in Nat
      BY ByteNumbers
    <2>3. QED
      BY <1>1, <2>1, <2>2
  <1>3. CodeOf(a) /\ CodeOf(b)
    BY CodeOfElem
  <1>4. CASE a[1] \in Fixeds
    <2>1. code_for(a) = Fixed[a[1]] /\ code_for(a) > 2 * m + 8
      BY <1>2, <1>3, <1>4 DEF CodeOf
    <2>2. b[1] \in Fixeds
      BY <1>1, <1>3, <2>1 DEF CodeOf
    <2>3. Fixed[a[1]] = Fixed[b[1]]
      BY <1>3, <2>1, <2>2 DEF CodeOf
    <2>4. a[1] = b[1]
      BY <1>4, <2>2, <2>3, FixedFacts
    <2>5. a[1] # "bool"
      BY <1>4 DEF Fixeds
    <2>6. QED
      BY <2>4, <2>5
  <1>5. CASE a[1] \notin Fixeds
    <2>1. code_for(a) \in Nat /\ code_for(a) <= 2 * m + 8
      BY <1>1, <1>3, <1>5 DEF CodeOf
    <2>2. b[1] \notin Fixeds
      BY <1>1, <1>2, <1>3, <2>1 DEF CodeOf
    <2>3. QED
      BY <1>1, <1>3, <1>5, <2>2 DEF CodeOf
  <1>6. QED
    BY <1>4, <1>5

\* How the encoding of an element begins.
Begins(e, s) ==
    \E c \in Bytes, r \in Str :
        /\ s = Cat(One(c), r) /\ c # ESCAPE
        /\ e[1] # "int" => c = code_for(e) /\ (c <= 3 \/ c > POS_INT_9P)
        /\ e[1] = "int" => 4 <= c /\ c <= POS_INT_9P

\* An encoding begins with the element's code, and never with 16#FF.
LEMMA EncodeBegins ==
    ASSUME NEW e \in Elems, NEW d \in Nat
    PROVE  encode[e][d] \in Str /\ Begins(e, encode[e][d])
  <1>0. encode \in Encoders /\ encode[e][d] = encode_elem(e, d, encode)
    BY EncodeFunction
  <1>1. PICK g \in Encoders : g = encode
    BY <1>0
  <1>2. encode[e][d] \in Str
    BY <1>0, <1>1, EncType
  <1>3. PICK m \in Nat : m = MaxFixed /\ m > 0 /\ ZERO = m + 5 /\ POS_INT_9P = 2 * m + 6
            /\ FALSE_ = 2 * m + 7 /\ TRUE_ = 2 * m + 8 /\ ESCAPE = 2 * m + 13
    BY ByteNumbers, Codes
  <1>4. CodeOf(e)
    BY CodeOfElem
  <1>5. ASSUME NEW c \in Bytes, NEW r \in Str, encode[e][d] = Cat(One(c), r), e[1] # "int",
               c = code_for(e), c # ESCAPE, c <= 3 \/ c > POS_INT_9P
        PROVE  Begins(e, encode[e][d])
    BY <1>5 DEF Begins
  <1>6. \A c \in Bytes : Cat(One(c), <<>>) = One(c) /\ <<>> \in Str
    BY OneStr, CatStr, StrConcat
  <1>7. CASE e = <<"null", 0>>
    <2>1. PICK c \in Bytes : c = NULL /\ c = code_for(e) /\ c # ESCAPE /\ c <= 3 /\ e[1] # "int"
      BY <1>3, <1>4, <1>7, Codes DEF CodeOf
    <2>2. encode[e][d] = IF d = 0 THEN One(c) ELSE Cat(One(c), One(ESCAPE))
      BY <1>0, <1>7, <2>1, EncNull
    <2>3. One(ESCAPE) \in Str /\ One(c) = Cat(One(c), <<>>) /\ <<>> \in Str
      BY <1>6, OneStr, Codes
    <2>4. PICK r \in Str : encode[e][d] = Cat(One(c), r)
      BY <2>2, <2>3
    <2>5. QED
      BY <1>2, <1>5, <2>1, <2>4
  <1>8. CASE \E b \in BOOLEAN : e = <<"bool", b>>
    <2>1. PICK b \in BOOLEAN : e = <<"bool", b>>
      BY <1>8
    <2>2. PICK c \in Bytes : c = (IF b THEN TRUE_ ELSE FALSE_) /\ c = code_for(e)
      BY <1>4, <2>1, Codes DEF CodeOf
    <2>3. c # ESCAPE /\ c > POS_INT_9P /\ e[1] # "int"
      BY <1>3, <2>1, <2>2
    <2>4. encode[e][d] = Cat(One(c), <<>>) /\ <<>> \in Str
      BY <1>0, <1>6, <2>1, <2>2, EncBool
    <2>5. QED
      BY <1>2, <1>5, <2>2, <2>3, <2>4
  <1>9. CASE \E n \in Ints : e = <<"int", n>>
    <2>1. PICK n \in Ints : e = <<"int", n>>
      BY <1>9
    <2>2. PICK c \in Bytes, r \in Str : encode_int(n) = Cat(One(c), r) /\ 4 <= c /\ c <= POS_INT_9P
      BY IntFirst
    <2>3. encode[e][d] = Cat(One(c), r)
      BY <1>0, <2>1, <2>2, EncInt
    <2>4. c # ESCAPE /\ e[1] = "int"
      BY <1>3, <2>1, <2>2
    <2>5. QED
      BY <1>2, <2>2, <2>3, <2>4 DEF Begins
  <1>10. CASE \E s \in Str : e = <<"bytes", s>> \/ e = <<"utf8", s>>
    <2>1. PICK s \in Str : e = <<"bytes", s>> \/ e = <<"utf8", s>>
      BY <1>10
    <2>2. PICK r \in Str : r = enc_null_terminated(s)
      BY EscsStr
    <2>3. PICK c \in Bytes : c = code_for(e) /\ encode[e][d] = Cat(One(c), r) /\ c <= 3
      <3>1. CASE e = <<"bytes", s>>
        <4>1. encode[e][d] = Cat(One(BYTES), r)
          BY <1>0, <2>2, <3>1, EncBytes
        <4>2. code_for(e) = BYTES /\ BYTES \in Bytes /\ BYTES <= 3
          BY <1>4, <3>1, Codes DEF CodeOf
        <4>3. QED
          BY <4>1, <4>2
      <3>2. CASE e = <<"utf8", s>>
        <4>1. encode[e][d] = Cat(One(UTF8), r)
          BY <1>0, <2>2, <3>2, EncBytes
        <4>2. code_for(e) = UTF8 /\ UTF8 \in Bytes /\ UTF8 <= 3
          BY <1>4, <3>2, Codes DEF CodeOf
        <4>3. QED
          BY <4>1, <4>2
      <3>3. QED
        BY <2>1, <3>1, <3>2
    <2>4. c # ESCAPE /\ e[1] # "int"
      BY <1>3, <2>1, <2>3
    <2>5. QED
      BY <1>2, <1>5, <2>3, <2>4
  <1>11. CASE \E t \in Fixeds : \E s \in Str : Len(s) = Size(t) /\ e = <<t, s>>
    <2>1. PICK t \in Fixeds, s \in Str : e = <<t, s>>
      BY <1>11
    <2>2. PICK c \in Bytes : c = Fixed[t] /\ c = code_for(e) /\ c < ESCAPE /\ c > POS_INT_9P + 2
      BY <1>4, <2>1, FixedFacts DEF CodeOf
    <2>3. c # ESCAPE /\ c > POS_INT_9P
      BY <1>3, <2>2, ByteNumbers
    <2>4. encode[e][d] = Cat(One(c), s)
      BY <1>0, <2>1, <2>2, EncFixed
    <2>5. e[1] # "int"
      BY <2>1 DEF Fixeds
    <2>6. QED
      BY <1>2, <1>5, <2>2, <2>3, <2>4, <2>5
  <1>12. CASE \E v \in Seq(Elems) : e = <<"tuple", v>>
    <2>1. PICK v \in Seq(Elems) : e = <<"tuple", v>>
      BY <1>12
    <2>2. PICK w \in Str : w = FlattenSeq(Parts(v, d + 1, g))
      <3>1. d + 1 \in Nat
        OBVIOUS
      <3>2. QED
        BY <3>1, PartsStr
    <2>3. PICK r \in Str : r = Cat(w, One(NULL))
      BY OneStr, CatStr, Codes
    <2>4. encode[e][d] = Cat(One(NESTED), r)
      BY <1>0, <1>1, <2>1, <2>2, <2>3, EncTuple
    <2>5. PICK c \in Bytes : c = NESTED /\ c = code_for(e) /\ c <= 3
      BY <1>4, <2>1, Codes DEF CodeOf
    <2>6. c # ESCAPE /\ e[1] # "int"
      BY <1>3, <2>1, <2>5
    <2>7. QED
      BY <1>2, <1>5, <2>4, <2>5, <2>6
  <1>13. QED
    BY <1>2, <1>7, <1>8, <1>9, <1>10, <1>11, <1>12, ElemCases DEF FlatIs

\* In a nested tuple, the end comes before every element.
LEMMA EncodeEnds ==
    ASSUME NEW e \in Elems, NEW d \in Nat, d # 0
    PROVE  Ends(encode[e][d])
  <1>1. CASE e = <<"null", 0>>
    <2>1. encode[e][d] = Cat(One(NULL), One(ESCAPE))
      BY <1>1, EncodeFunction, EncNull
    <2>2. One(ESCAPE) = Cat(One(ESCAPE), <<>>) /\ <<>> \in Str
      BY OneStr, CatStr, StrConcat, Codes
    <2>3. Ends(Cat(One(NULL), Cat(One(ESCAPE), <<>>)))
      BY <2>2, EndsEscaped
    <2>4. QED
      BY <2>1, <2>2, <2>3
  <1>2. CASE e # <<"null", 0>>
    <2>1. PICK c \in Bytes, r \in Str :
              /\ encode[e][d] = Cat(One(c), r)
              /\ e[1] # "int" => c = code_for(e)
              /\ e[1] = "int" => 4 <= c
      BY EncodeBegins DEF Begins
    <2>2. e[1] # "null"
      BY <1>2, CodeFor DEF Fixeds
    <2>3. c # 0
      <3>1. CASE e[1] = "int"
        BY <2>1, <3>1
      <3>2. CASE e[1] # "int"
        <4>1. PICK m \in Nat : m = MaxFixed /\ FALSE_ = 2 * m + 7 /\ TRUE_ = 2 * m + 8
                  /\ POS_INT_9P = 2 * m + 6
          BY ByteNumbers, Codes
        <4>2. \A t \in Fixeds : Fixed[t] # 0
          BY <4>1, FixedFacts, ByteNumbers
        <4>3. CodeOf(e)
          BY CodeOfElem
        <4>4. code_for(e) # 0
          BY <2>2, <3>2, <4>1, <4>2, <4>3 DEF CodeOf
        <4>5. QED
          BY <2>1, <3>2, <4>4
      <3>3. QED
        BY <3>1, <3>2
    <2>4. c # NULL
      BY <2>3, Codes
    <2>5. QED
      BY <2>1, <2>4, EndsByte
  <1>3. QED
    BY <1>1, <1>2

\* Different codes decide the order.
LEMMA CodeOrder ==
    ASSUME NEW a \in Elems, NEW b \in Elems, NEW d \in Nat, code_for(a) < code_for(b)
    PROVE  Sorted(Str, encode[a][d], encode[b][d])
  <1>1. PICK m \in Nat : m = MaxFixed /\ m > 0 /\ ZERO = m + 5 /\ POS_INT_9P = 2 * m + 6
    BY ByteNumbers, Codes
  <1>2. PICK c \in Bytes, r \in Str :
            /\ encode[a][d] = Cat(One(c), r)
            /\ a[1] # "int" => c = code_for(a) /\ (c <= 3 \/ c > POS_INT_9P)
            /\ a[1] = "int" => 4 <= c /\ c <= POS_INT_9P
    BY EncodeBegins DEF Begins
  <1>3. PICK k \in Bytes, q \in Str :
            /\ encode[b][d] = Cat(One(k), q)
            /\ b[1] # "int" => k = code_for(b) /\ (k <= 3 \/ k > POS_INT_9P)
            /\ b[1] = "int" => 4 <= k /\ k <= POS_INT_9P
    BY EncodeBegins DEF Begins
  <1>4. (a[1] = "int" => code_for(a) = ZERO) /\ (b[1] = "int" => code_for(b) = ZERO)
    BY CodeOfElem DEF CodeOf
  <1>5. c \in Nat /\ k \in Nat
    BY ByteNumbers
  <1>6. c < k
    BY <1>1, <1>2, <1>3, <1>4, <1>5
  <1>7. QED
    BY <1>2, <1>3, <1>6, SortedFirst

-----------------------------------------------------------------------------
(* compare *)

Signs == {-1, 0, 1}

\* What Sign returns.
LEMMA SignFacts ==
    ASSUME NEW p \in BOOLEAN, NEW q \in BOOLEAN
    PROVE  /\ Sign(p, q) \in Signs
           /\ p => Sign(p, q) = -1
           /\ ~p /\ q => Sign(p, q) = 1
           /\ ~p /\ ~q => Sign(p, q) = 0
           /\ Sign(p, q) = -1 => p
           /\ Sign(p, q) = 1 => q
           /\ Sign(p, q) = 0 => ~p /\ ~q
  BY DEF Sign, Signs

\* How two tuples are compared: by the first elements that differ, or by their lengths.
ByElem(v, w, g, i) ==
    /\ i \in 1..Len(v) /\ i \in 1..Len(w) /\ g[v[i]][w[i]] # 0
    /\ \A j \in 1..(i - 1) : g[v[j]][w[j]] = 0
    /\ compare_impl(v, w, g) = g[v[i]][w[i]]

ByLen(v, w, g) ==
    /\ \A j \in 1..Len(v) : j \in 1..Len(w) => g[v[j]][w[j]] = 0
    /\ compare_impl(v, w, g) = Sign(Len(v) < Len(w), Len(v) > Len(w))

\* compare_impl/2 decides by the first elements that differ, or by the lengths.
LEMMA CompareImpl ==
    ASSUME NEW v \in Seq(Elems), NEW w \in Seq(Elems), NEW g
    PROVE  ByLen(v, w, g) \/ \E i \in 1..Len(v) : ByElem(v, w, g, i)
  <1>1. PICK m \in Nat, n \in Nat : m = Len(v) /\ n = Len(w) /\ DOMAIN v = 1..m /\ DOMAIN w = 1..n
    OBVIOUS
  <1> DEFINE D == {i \in 1..m \cap 1..n : g[v[i]][w[i]] # 0}
  <1>2. compare_impl(v, w, g) = IF D = {} THEN Sign(Len(v) < Len(w), Len(v) > Len(w))
                                ELSE g[v[Min(D)]][w[Min(D)]]
    BY <1>1 DEF compare_impl
  <1>3. CASE D = {}
    BY <1>1, <1>2, <1>3 DEF ByLen
  <1>4. CASE D # {}
    <2>1. D \in SUBSET Nat
      OBVIOUS
    <2>2. Min(D) \in D /\ \A j \in D : Min(D) <= j
      <3> HIDE DEF D
      <3>1. \E i \in D : \A j \in D : i <= j
        BY <1>4, <2>1, LeastOf
      <3>2. QED
        BY <3>1 DEF Min
    <2>3. PICK i \in D : i = Min(D)
      BY <2>2
    <2>4. i \in 1..m /\ i \in 1..n /\ g[v[i]][w[i]] # 0
      OBVIOUS
    <2>5. \A j \in 1..(i - 1) : g[v[j]][w[j]] = 0
      <3> SUFFICES ASSUME NEW j \in 1..(i - 1), g[v[j]][w[j]] # 0 PROVE FALSE
        OBVIOUS
      <3>1. j \in D /\ ~(i <= j)
        BY <1>1, <2>4
      <3>2. QED
        BY <2>2, <2>3, <3>1
    <2>6. compare_impl(v, w, g) = g[v[i]][w[i]]
      BY <1>2, <1>4, <2>3
    <2>7. ByElem(v, w, g, i)
      BY <1>1, <2>4, <2>5, <2>6 DEF ByElem
    <2>8. QED
      BY <1>1, <2>4, <2>7
  <1>5. QED
    BY <1>3, <1>4

Comparers == [Elems -> [Elems -> Signs]]

\* compare_impl/2 returns -1, 0 or 1.
LEMMA CompareImplType ==
    ASSUME NEW v \in Seq(Elems), NEW w \in Seq(Elems), NEW g \in Comparers
    PROVE  compare_impl(v, w, g) \in Signs
  <1>1. CASE ByLen(v, w, g)
    BY <1>1 DEF ByLen, Sign, Signs
  <1>2. CASE \E i \in 1..Len(v) : ByElem(v, w, g, i)
    <2>1. PICK i \in 1..Len(v) : ByElem(v, w, g, i)
      BY <1>2
    <2>2. v[i] \in Elems /\ w[i] \in Elems
      BY <2>1 DEF ByElem
    <2>3. g[v[i]][w[i]] \in Signs
      BY <2>2 DEF Comparers
    <2>4. QED
      BY <2>1, <2>3 DEF ByElem
  <1>3. QED
    BY <1>1, <1>2, CompareImpl

\* An element of type "tuple".
LEMMA TupleElem ==
    ASSUME NEW e \in Elems, e[1] = "tuple"
    PROVE  e = <<"tuple", e[2]>> /\ e[2] \in Seq(Elems)
  <1>1. ~FlatIs(e)
    BY FlatCases, FlatType
  <1>2. PICK v \in Seq(Elems) : e = <<"tuple", v>>
    BY <1>1, ElemCases
  <1>3. QED
    BY <1>2

\* compare_elem by the type of its arguments.
LEMMA CompareElem ==
    ASSUME NEW a \in Elems, NEW b \in Elems, NEW g
    PROVE  /\ code_for(a) # code_for(b) =>
                compare_elem(a, b, g) = Sign(code_for(a) < code_for(b), code_for(a) > code_for(b))
           /\ code_for(a) = code_for(b) /\ a[1] = "tuple" =>
                compare_elem(a, b, g) = compare_impl(a[2], b[2], g)
           /\ code_for(a) = code_for(b) /\ a[1] = "int" =>
                compare_elem(a, b, g) = Sign(a[2] < b[2], a[2] > b[2])
           /\ code_for(a) = code_for(b) /\ a[1] \in {"null", "bool"} => compare_elem(a, b, g) = 0
           /\ code_for(a) = code_for(b) /\ a[1] \notin {"tuple", "int", "null", "bool"} =>
                compare_elem(a, b, g) = Sign(Less(a[2], b[2]), Less(b[2], a[2]))
  <1> DEFINE x == code_for(a) = code_for(b)
             r == Sign(code_for(a) < code_for(b), code_for(a) > code_for(b))
             s == compare_impl(a[2], b[2], g)
             t == Sign(a[2] < b[2], a[2] > b[2])
             u == Sign(Less(a[2], b[2]), Less(b[2], a[2]))
             y == compare_elem(a, b, g)
             z == a[1]
  <1>1. y = CASE ~x -> r
              [] x /\ z = "tuple" -> s
              [] x /\ z = "int" -> t
              [] x /\ z \in {"null", "bool"} -> 0
              [] OTHER -> u
    BY DEF compare_elem
  <1>2. x \in BOOLEAN
    OBVIOUS
  <1>3. /\ ~x => y = r
        /\ x /\ z = "tuple" => y = s
        /\ x /\ z = "int" => y = t
        /\ x /\ z \in {"null", "bool"} => y = 0
        /\ x /\ z \notin {"tuple", "int", "null", "bool"} => y = u
    <2> HIDE DEF x, r, s, t, u, y, z
    <2>1. QED
      BY <1>1, <1>2
  <1>4. QED
    BY <1>3

\* compare_elems/2 returns -1, 0 or 1.
LEMMA CompareElemType ==
    ASSUME NEW a \in Elems, NEW b \in Elems, NEW g \in Comparers
    PROVE  compare_elem(a, b, g) \in Signs
  <1>1. CASE code_for(a) # code_for(b)
    BY <1>1, CompareElem DEF Sign, Signs
  <1>2. CASE code_for(a) = code_for(b) /\ a[1] = "tuple"
    <2>1. b[1] = "tuple"
      BY <1>2, CodeType
    <2>2. a[2] \in Seq(Elems) /\ b[2] \in Seq(Elems)
      BY <1>2, <2>1, TupleElem
    <2>3. QED
      BY <1>2, <2>2, CompareElem, CompareImplType
  <1>3. CASE code_for(a) = code_for(b) /\ a[1] = "int"
    BY <1>3, CompareElem DEF Sign, Signs
  <1>4. CASE code_for(a) = code_for(b) /\ a[1] \in {"null", "bool"}
    BY <1>4, CompareElem DEF Signs
  <1>5. CASE code_for(a) = code_for(b) /\ a[1] \notin {"tuple", "int", "null", "bool"}
    <2>1. Less(a[2], b[2]) \in BOOLEAN /\ Less(b[2], a[2]) \in BOOLEAN
      BY DEF Less
    <2>2. QED
      BY <1>5, <2>1, CompareElem, SignFacts
  <1>6. QED
    BY <1>1, <1>2, <1>3, <1>4, <1>5

\* compare_elems/2 needs only the elements nested in its arguments.
LEMMA CompareElemSame ==
    ASSUME NEW a \in Elems, NEW b \in Elems, NEW g, NEW h,
           \A v \in Seq(Elems) : a = <<"tuple", v>> => \A i \in 1..Len(v) : g[v[i]] = h[v[i]]
    PROVE  compare_elem(a, b, g) = compare_elem(a, b, h)
  <1>1. CASE code_for(a) = code_for(b) /\ a[1] = "tuple"
    <2>1. b[1] = "tuple"
      BY <1>1, CodeType
    <2>2. PICK v \in Seq(Elems), w \in Seq(Elems) : v = a[2] /\ w = b[2] /\ a = <<"tuple", v>>
      BY <1>1, <2>1, TupleElem
    <2>3. \A i \in 1..Len(v) : g[v[i]] = h[v[i]]
      BY <2>2
    <2>4. compare_impl(v, w, g) = compare_impl(v, w, h)
      <3>1. PICK m \in Nat, n \in Nat : m = Len(v) /\ n = Len(w) /\ DOMAIN v = 1..m /\ DOMAIN w = 1..n
        OBVIOUS
      <3> DEFINE D(k) == {i \in 1..m \cap 1..n : k[v[i]][w[i]] # 0}
      <3>2. D(g) = D(h)
        BY <2>3, <3>1
      <3>3. D(g) # {} => Min(D(g)) \in 1..m
        <4> SUFFICES ASSUME D(g) # {} PROVE Min(D(g)) \in 1..m
          OBVIOUS
        <4>1. D(g) \in SUBSET Nat /\ D(g) \subseteq 1..m
          OBVIOUS
        <4> HIDE DEF D
        <4>2. \E i \in D(g) : \A j \in D(g) : i <= j
          BY <4>1, LeastOf
        <4>3. Min(D(g)) \in D(g)
          BY <4>2 DEF Min
        <4>4. QED
          BY <4>1, <4>3
      <3>4. \A k : compare_impl(v, w, k) = IF D(k) = {} THEN Sign(Len(v) < Len(w), Len(v) > Len(w))
                                           ELSE k[v[Min(D(k))]][w[Min(D(k))]]
        BY <3>1 DEF compare_impl
      <3> HIDE DEF D
      <3>5. QED
        BY <2>3, <3>1, <3>2, <3>3, <3>4
    <2>5. QED
      BY <1>1, <2>2, <2>4, CompareElem
  <1>2. CASE ~(code_for(a) = code_for(b) /\ a[1] = "tuple")
    BY <1>2, CompareElem
  <1>3. QED
    BY <1>1, <1>2

\* compare_elems/2 is defined for all elements.
LEMMA CompareFunction ==
    /\ compare_elems \in Comparers
    /\ \A a, b \in Elems : compare_elems[a][b] = compare_elem(a, b, compare_elems)
  <1> DEFINE V == [Elems -> Signs]
             Is(g) == g = [a \in Elems |-> [b \in Elems |-> compare_elem(a, b, g)]]
             F == [g \in [Elems -> V] |-> [a \in Elems |-> [b \in Elems |-> compare_elem(a, b, g)]]]
  <1>0. compare_elems = CHOOSE g : Is(g)
    BY DEF compare_elems
  <1>1. Comparers = [Elems -> V]
    BY DEF Comparers
  <1>2. ASSUME NEW g \in [Elems -> V]
        PROVE  [a \in Elems |-> [b \in Elems |-> compare_elem(a, b, g)]] \in [Elems -> V]
    <2>1. \A a, b \in Elems : compare_elem(a, b, g) \in Signs
      BY <1>1, CompareElemType
    <2>2. QED
      BY <2>1
  <1>3. F \in [[Elems -> V] -> [Elems -> V]]
    <2> HIDE DEF V
    <2>1. QED
      BY <1>2
  <1>4. Smaller(Elems, V, Rank, F)
    <2> SUFFICES ASSUME NEW g \in [Elems -> V], NEW h \in [Elems -> V], NEW a \in Elems,
                        \A y \in Elems : Rank[y] < Rank[a] => g[y] = h[y]
                 PROVE  F[g][a] = F[h][a]
      BY DEF Smaller
    <2>1. \A b \in Elems : compare_elem(a, b, g) = compare_elem(a, b, h)
      <3>1. \A v \in Seq(Elems) : a = <<"tuple", v>> => \A i \in 1..Len(v) : g[v[i]] = h[v[i]]
        BY RankNested
      <3>2. QED
        BY <3>1, CompareElemSame, ZenonT(30)
    <2> HIDE DEF V
    <2>2. /\ F[g][a] = [b \in Elems |-> compare_elem(a, b, g)]
          /\ F[h][a] = [b \in Elems |-> compare_elem(a, b, h)]
      OBVIOUS
    <2>3. QED
      BY <2>1, <2>2
  <1>5. Recursive(Elems, V, Rank, F)
    <2>1. V # {}
      <3>1. [e \in Elems |-> 0] \in V
        BY DEF Signs
      <3>2. QED
        BY <3>1
    <2> HIDE DEF V, F
    <2>2. QED
      BY <1>3, <1>4, <2>1, RankFacts DEF Recursive
  <1>6. PICK g \in [Elems -> V] : Is(g)
    <2>1. \A g \in [Elems -> V] : g = F[g] => Is(g)
      <3> HIDE DEF V
      <3>1. QED
        OBVIOUS
    <2> HIDE DEF V, F, Is
    <2>2. PICK g \in [Elems -> V] : g = F[g]
      BY <1>5, Recursion
    <2>3. QED
      BY <2>1, <2>2
  <1>7. Is(compare_elems)
    <2> HIDE DEF Is
    <2>1. QED
      BY <1>0, <1>6, Zenon
  <1>8. \A a, b \in Elems : compare_elems[a][b] = compare_elem(a, b, compare_elems)
    BY <1>7
  <1>9. \A a \in Elems : compare_elems[a] = g[a]
    <2> DEFINE S == {a \in Elems : compare_elems[a] = g[a]}
    <2>1. ASSUME NEW a \in Elems,
                 \A v \in Seq(Elems) : a = <<"tuple", v>> => \A i \in 1..Len(v) : v[i] \in S
          PROVE  a \in S
      <3>1. PICK h : h = compare_elems
        OBVIOUS
      <3>2. \A v \in Seq(Elems) : a = <<"tuple", v>> => \A i \in 1..Len(v) : h[v[i]] = g[v[i]]
        BY <2>1, <3>1
      <3>3. \A b \in Elems : compare_elem(a, b, h) = compare_elem(a, b, g)
        <4> HIDE DEF S, V
        <4>1. QED
          BY <3>2, CompareElemSame
      <3>4. compare_elems[a] = [b \in Elems |-> compare_elem(a, b, h)]
              /\ g[a] = [b \in Elems |-> compare_elem(a, b, g)]
        <4> HIDE DEF V
        <4>1. QED
          BY <1>6, <1>7, <3>1
      <3>5. QED
        BY <3>3, <3>4
    <2>2. \A e \in Flat : e \in S
      <3> SUFFICES ASSUME NEW e \in Flat PROVE e \in S
        OBVIOUS
      <3>1. e \in Elems /\ \A v : e # <<"tuple", v>>
        BY FlatElems, FlatType
      <3> HIDE DEF S
      <3>2. QED
        BY <2>1, <3>1
    <2>3. \A v \in Seq(Elems) : <<"tuple", v>> \in Elems /\ v \in Seq(S) => <<"tuple", v>> \in S
      <3> HIDE DEF S
      <3> SUFFICES ASSUME NEW v \in Seq(Elems), <<"tuple", v>> \in Elems, v \in Seq(S)
                   PROVE  <<"tuple", v>> \in S
        OBVIOUS
      <3>1. \A i \in 1..Len(v) : v[i] \in S
        OBVIOUS
      <3>2. PICK e \in Elems : e = <<"tuple", v>>
        OBVIOUS
      <3>3. \A u \in Seq(Elems) : e = <<"tuple", u>> => u = v
        BY <3>2
      <3>4. e \in S
        BY <2>1, <3>1, <3>3
      <3>5. QED
        BY <3>2, <3>4
    <2> HIDE DEF S
    <2>4. \A e \in Elems : e \in S
      BY <2>2, <2>3, ElemInduction
    <2>5. QED
      BY <2>4 DEF S
  <1>10. compare_elems \in [Elems -> V]
    <2>1. compare_elems = [a \in Elems |-> compare_elems[a]]
      BY <1>7
    <2> HIDE DEF V
    <2>2. QED
      BY <1>9, <2>1
  <1>11. QED
    BY <1>1, <1>8, <1>10

\* Every string begins with a byte that is not ESCAPE.
Starts(ss) == \A i \in 1..Len(ss) : \E c \in Bytes, r \in Str : ss[i] = Cat(One(c), r) /\ c # ESCAPE

\* Encodings in a row do not begin with 16#FF.
LEMMA FlattenConts ==
    ASSUME NEW ss \in Seq(Str), Starts(ss), NEW x \in Conts
    PROVE  Cat(FlattenSeq(ss), x) \in Conts
  <1>0. x \in Str
    BY ContsFacts
  <1>1. CASE Len(ss) = 0
    <2>1. ss = <<>>
      BY <1>1, EmptySeq
    <2>2. QED
      BY <1>0, <2>1, FlattenEmpty, CatStr
  <1>2. CASE Len(ss) # 0
    <2>1. PICK i \in 1..Len(ss) : i = 1
      BY <1>2
    <2>2. PICK p \in Seq(Str), a \in Seq(Str) :
              /\ p = SubSeq(ss, 1, i - 1) /\ ss[i] \in Str
              /\ FlattenSeq(p) \in Str /\ FlattenSeq(a) \in Str
              /\ FlattenSeq(ss) = Cat(FlattenSeq(p), Cat(ss[i], FlattenSeq(a)))
      BY FlattenAt
    <2>3. p = <<>>
      BY <2>1, <2>2
    <2>4. PICK c \in Bytes, r \in Str : ss[i] = Cat(One(c), r) /\ c # ESCAPE
      BY DEF Starts
    <2>5. PICK f \in Str : f = FlattenSeq(a)
      BY <2>2
    <2>6. FlattenSeq(ss) = Cat(Cat(One(c), r), f)
      <3>1. Cat(Cat(One(c), r), f) \in Str
        BY OneStr, CatStr
      <3>2. PICK u \in Str : u = Cat(ss[i], FlattenSeq(a))
        BY <2>2, CatStr
      <3>3. FlattenSeq(ss) = Cat(<<>>, u)
        BY <2>2, <2>3, <3>2, FlattenEmpty
      <3>4. QED
        BY <2>4, <2>5, <3>2, <3>3, CatStr
    <2>7. PICK o \in Str : o = One(c)
      BY OneStr
    <2>8. Cat(Cat(Cat(o, r), f), x) = Cat(o, Cat(r, Cat(f, x))) /\ Cat(r, Cat(f, x)) \in Str
      <3>1. Cat(Cat(o, r), f) = Cat(o, Cat(r, f))
        BY CatStr
      <3>2. QED
        BY <1>0, <3>1, CatAssociative4, CatStr
    <2>9. QED
      BY <2>4, <2>6, <2>7, <2>8, ContsFacts
  <1>3. QED
    BY <1>1, <1>2

\* Neither do those after a place.
LEMMA StartsAfter ==
    ASSUME NEW ss \in Seq(Str), Starts(ss), NEW i \in 1..Len(ss)
    PROVE  SubSeq(ss, i + 1, Len(ss)) \in Seq(Str) /\ Starts(SubSeq(ss, i + 1, Len(ss)))
  <1>1. PICK n \in Nat : n = Len(ss) /\ i \in 1..n
    OBVIOUS
  <1>2. PICK a \in Seq(Str) : a = SubSeq(ss, i + 1, Len(ss))
    BY SplitAt
  <1>3. \A j \in (i + 1)..n : ss[j] \in Str
    BY <1>1
  <1>4. Len(a) = n - i /\ \A j \in 1..(n - i) : a[j] = ss[i + j]
    <2>1. CASE i < n
      BY <1>1, <1>2, <1>3, <2>1, SubSeqProperties
    <2>2. CASE i = n
      BY <1>1, <1>2, <1>3, <2>2, SubSeqProperties
    <2>3. QED
      BY <1>1, <2>1, <2>2
  <1>5. ASSUME NEW j \in 1..Len(a) PROVE \E c \in Bytes, r \in Str : a[j] = Cat(One(c), r) /\ c # ESCAPE
    <2>1. PICK k \in 1..n : k = i + j /\ a[j] = ss[k]
      BY <1>1, <1>4
    <2>2. QED
      BY <1>1, <2>1 DEF Starts
  <1>6. QED
    BY <1>2, <1>5 DEF Starts

\* The encodings of the elements of a tuple.
Encs(v, d) == Parts(v, d, encode)

\* The encodings of the elements of a tuple.
LEMMA EncsFacts ==
    ASSUME NEW v \in Seq(Elems), NEW d \in Nat
    PROVE  /\ Encs(v, d) \in Seq(Str) /\ Len(Encs(v, d)) = Len(v) /\ Starts(Encs(v, d))
           /\ \A i \in 1..Len(v) : Encs(v, d)[i] = encode[v[i]][d] /\ v[i] \in Elems
           /\ FlattenSeq(Encs(v, d)) \in Str
           /\ encodes(v, d) = FlattenSeq(Encs(v, d))
  <1>1. PICK g \in Encoders : g = encode
    BY EncodeFunction
  <1>2. \A i \in 1..Len(v) : v[i] \in Elems
    OBVIOUS
  <1>3. PICK ss \in Seq(Str) : ss = Encs(v, d) /\ Len(ss) = Len(v) /\ FlattenSeq(ss) \in Str
            /\ \A i \in 1..Len(v) : ss[i] = encode[v[i]][d]
    BY <1>1, PartsStr DEF Encs
  <1>4. Starts(ss)
    <2> SUFFICES ASSUME NEW i \in 1..Len(ss)
                 PROVE  \E c \in Bytes, r \in Str : ss[i] = Cat(One(c), r) /\ c # ESCAPE
      BY DEF Starts
    <2>1. i \in 1..Len(v) /\ v[i] \in Elems /\ ss[i] = encode[v[i]][d]
      BY <1>2, <1>3
    <2>2. QED
      BY <2>1, EncodeBegins DEF Begins
  <1>5. encodes(v, d) = FlattenSeq(Encs(v, d))
    BY DEF encodes, Encs, Parts
  <1>6. QED
    BY <1>2, <1>3, <1>4, <1>5

\* The encoding of a nested tuple.
LEMMA EncodeTuple ==
    ASSUME NEW v \in Seq(Elems), <<"tuple", v>> \in Elems, NEW d \in Nat
    PROVE  encode[<<"tuple", v>>][d] = Cat(One(NESTED), Cat(FlattenSeq(Encs(v, d + 1)), One(NULL)))
  <1>1. PICK g \in Encoders : g = encode
    BY EncodeFunction
  <1>2. encode[<<"tuple", v>>][d] = encode_elem(<<"tuple", v>>, d, g)
    BY <1>1, EncodeFunction
  <1>3. QED
    BY <1>1, <1>2, EncTuple DEF Encs

\* The elements a and b are encoded in this order.
InOrder(a, b) == \A d \in Nat : Sorted(Conts, encode[a][d], encode[b][d])

\* One tuple comes before another: by the first elements that differ, or as its beginning.
Before(v, w) ==
    \/ \E i \in 1..Len(v) : /\ i \in 1..Len(w) /\ InOrder(v[i], w[i])
                            /\ \A j \in 1..(i - 1) : v[j] = w[j]
    \/ Len(v) < Len(w) /\ \A j \in 1..Len(v) : v[j] = w[j]

\* What follows the first elements that differ does not matter.
LEMMA BeforeAt ==
    ASSUME NEW v \in Seq(Elems), NEW w \in Seq(Elems), NEW d \in Nat, NEW i \in 1..Len(v),
           i \in 1..Len(w), InOrder(v[i], w[i]), \A j \in 1..(i - 1) : v[j] = w[j],
           NEW x \in Conts, NEW y \in Conts
    PROVE  Less(Cat(FlattenSeq(Encs(v, d)), x), Cat(FlattenSeq(Encs(w, d)), y))
  <1>1. PICK ss \in Seq(Str) : ss = Encs(v, d) /\ Len(ss) = Len(v) /\ Starts(ss)
            /\ \A j \in 1..Len(v) : ss[j] = encode[v[j]][d]
    BY EncsFacts
  <1>2. PICK tt \in Seq(Str) : tt = Encs(w, d) /\ Len(tt) = Len(w) /\ Starts(tt)
            /\ \A j \in 1..Len(w) : tt[j] = encode[w[j]][d]
    BY EncsFacts
  <1>3. ASSUME NEW j \in 1..(i - 1) PROVE ss[j] = tt[j]
    <2>1. PICK m \in Nat, n \in Nat : m = Len(v) /\ n = Len(w) /\ i \in 1..m /\ i \in 1..n
      OBVIOUS
    <2>2. j \in 1..m /\ j \in 1..n
      BY <2>1
    <2>3. QED
      BY <1>1, <1>2, <2>1, <2>2
  <1>4. i \in 1..Len(ss) /\ i \in 1..Len(tt) /\ Sorted(Conts, ss[i], tt[i])
    BY <1>1, <1>2 DEF InOrder
  <1>5. Cat(FlattenSeq(SubSeq(ss, i + 1, Len(ss))), x) \in Conts
    <2>1. PICK a \in Seq(Str) : a = SubSeq(ss, i + 1, Len(ss)) /\ Starts(a)
      BY <1>1, <1>4, StartsAfter
    <2>2. QED
      BY <2>1, FlattenConts
  <1>6. Cat(FlattenSeq(SubSeq(tt, i + 1, Len(tt))), y) \in Conts
    <2>1. PICK a \in Seq(Str) : a = SubSeq(tt, i + 1, Len(tt)) /\ Starts(a)
      BY <1>2, <1>4, StartsAfter
    <2>2. QED
      BY <2>1, FlattenConts
  <1>7. x \in Str /\ y \in Str
    BY ContsFacts
  <1>8. Less(Cat(FlattenSeq(ss), x), Cat(FlattenSeq(tt), y))
    BY <1>3, <1>4, <1>5, <1>6, <1>7, FlattenLess
  <1>9. QED
    BY <1>1, <1>2, <1>8

\* Nested tuples are encoded in their order.
LEMMA BeforeNested ==
    ASSUME NEW v \in Seq(Elems), NEW w \in Seq(Elems), Before(v, w), NEW d \in Nat, d # 0
    PROVE  Sorted(Conts, Cat(FlattenSeq(Encs(v, d)), One(NULL)), Cat(FlattenSeq(Encs(w, d)), One(NULL)))
  <1>1. CASE \E i \in 1..Len(v) : /\ i \in 1..Len(w) /\ InOrder(v[i], w[i])
                                  /\ \A j \in 1..(i - 1) : v[j] = w[j]
    <2>1. PICK i \in 1..Len(v) : /\ i \in 1..Len(w) /\ InOrder(v[i], w[i])
                                 /\ \A j \in 1..(i - 1) : v[j] = w[j]
      BY <1>1
    <2> SUFFICES ASSUME NEW x \in Conts, NEW y \in Conts
                 PROVE  Less(Cat(Cat(FlattenSeq(Encs(v, d)), One(NULL)), x),
                             Cat(Cat(FlattenSeq(Encs(w, d)), One(NULL)), y))
      BY DEF Sorted
    <2>2. x \in Str /\ y \in Str
      BY ContsFacts
    <2>3. NULL \in Bytes /\ NULL # ESCAPE
      BY Codes, ByteNumbers
    <2>4. PICK s \in Conts, t \in Conts : s = Cat(One(NULL), x) /\ t = Cat(One(NULL), y)
      BY <2>2, <2>3, ContsFacts
    <2>5. Less(Cat(FlattenSeq(Encs(v, d)), s), Cat(FlattenSeq(Encs(w, d)), t))
      BY <2>1, BeforeAt
    <2>6. PICK f \in Str, g \in Str : f = FlattenSeq(Encs(v, d)) /\ g = FlattenSeq(Encs(w, d))
      BY EncsFacts
    <2>7. PICK z \in Str : z = One(NULL)
      BY <2>3, OneStr
    <2>8. Cat(Cat(f, z), x) = Cat(f, Cat(z, x)) /\ Cat(Cat(g, z), y) = Cat(g, Cat(z, y))
      BY <2>2, CatStr
    <2>9. QED
      BY <2>4, <2>5, <2>6, <2>7, <2>8
  <1>2. CASE Len(v) < Len(w) /\ \A j \in 1..Len(v) : v[j] = w[j]
    <2>1. PICK ss \in Seq(Str) : ss = Encs(v, d) /\ Len(ss) = Len(v)
              /\ \A j \in 1..Len(v) : ss[j] = encode[v[j]][d]
      BY EncsFacts
    <2>2. PICK tt \in Seq(Str) : tt = Encs(w, d) /\ Len(tt) = Len(w)
              /\ \A j \in 1..Len(w) : tt[j] = encode[w[j]][d] /\ w[j] \in Elems
      BY EncsFacts
    <2>3. PICK m \in Nat, n \in Nat : m = Len(v) /\ n = Len(w) /\ m < n
      BY <1>2
    <2>4. Len(ss) < Len(tt) /\ \A j \in 1..Len(ss) : ss[j] = tt[j]
      BY <1>2, <2>1, <2>2, <2>3, SMTT(30)
    <2>5. Ends(tt[Len(ss) + 1])
      <3>1. m + 1 \in 1..n
        BY <2>3
      <3>2. tt[m + 1] = encode[w[m + 1]][d] /\ w[m + 1] \in Elems
        BY <2>2, <2>3, <3>1
      <3>3. QED
        BY <2>1, <2>3, <3>2, EncodeEnds
    <2>6. QED
      BY <2>1, <2>2, <2>4, <2>5, FlattenEnds
  <1>3. QED
    BY <1>1, <1>2 DEF Before

\* Tuples are packed in their order.
LEMMA BeforePacked ==
    ASSUME NEW v \in Seq(Elems), NEW w \in Seq(Elems), Before(v, w)
    PROVE  Less(pack(v), pack(w))
  <1>0. pack(v) = FlattenSeq(Encs(v, 0)) /\ pack(w) = FlattenSeq(Encs(w, 0))
    BY EncsFacts DEF pack
  <1>1. CASE \E i \in 1..Len(v) : /\ i \in 1..Len(w) /\ InOrder(v[i], w[i])
                                  /\ \A j \in 1..(i - 1) : v[j] = w[j]
    <2>1. PICK i \in 1..Len(v) : /\ i \in 1..Len(w) /\ InOrder(v[i], w[i])
                                 /\ \A j \in 1..(i - 1) : v[j] = w[j]
      BY <1>1
    <2>2. Less(Cat(FlattenSeq(Encs(v, 0)), <<>>), Cat(FlattenSeq(Encs(w, 0)), <<>>))
      BY <2>1, BeforeAt, ContsFacts
    <2>3. FlattenSeq(Encs(v, 0)) \in Str /\ FlattenSeq(Encs(w, 0)) \in Str
      BY EncsFacts
    <2>4. QED
      BY <1>0, <2>2, <2>3, CatStr
  <1>2. CASE Len(v) < Len(w) /\ \A j \in 1..Len(v) : v[j] = w[j]
    <2>1. PICK ss \in Seq(Str) : ss = Encs(v, 0) /\ Len(ss) = Len(v) /\ FlattenSeq(ss) \in Str
              /\ \A j \in 1..Len(v) : ss[j] = encode[v[j]][0]
      BY EncsFacts
    <2>2. PICK tt \in Seq(Str) : tt = Encs(w, 0) /\ Len(tt) = Len(w) /\ Starts(tt)
              /\ \A j \in 1..Len(w) : tt[j] = encode[w[j]][0] /\ w[j] \in Elems
      BY EncsFacts
    <2>3. PICK m \in Nat, n \in Nat : m = Len(v) /\ n = Len(w) /\ m < n
      BY <1>2
    <2>4. Len(ss) < Len(tt) /\ \A j \in 1..Len(ss) : ss[j] = tt[j]
      BY <1>2, <2>1, <2>2, <2>3
    <2>5. PICK r \in Seq(Str) :
              /\ tt[Len(ss) + 1] \in Str /\ FlattenSeq(r) \in Str
              /\ FlattenSeq(tt) = Cat(FlattenSeq(ss), Cat(tt[Len(ss) + 1], FlattenSeq(r)))
      BY <2>4, FlattenLonger
    <2>6. PICK c \in Bytes, q \in Str : tt[Len(ss) + 1] = Cat(One(c), q)
      <3>1. Len(ss) + 1 \in 1..Len(tt)
        BY <2>1, <2>2, <2>3
      <3>2. QED
        BY <2>2, <3>1 DEF Starts
    <2>7. PICK p \in Str, f \in Str : p = FlattenSeq(ss) /\ f = FlattenSeq(r)
      BY <2>1, <2>5
    <2>8. PICK u \in Str : u = Cat(Cat(One(c), q), f) /\ u # <<>>
      <3>1. Cat(q, f) \in Str
        BY CatStr
      <3>2. Cat(One(c), Cat(q, f)) \in Str /\ Cat(One(c), Cat(q, f)) # <<>>
        BY <3>1, OneCatPoints
      <3>3. Cat(Cat(One(c), q), f) = Cat(One(c), Cat(q, f))
        BY OneStr, CatStr
      <3>4. QED
        BY <3>2, <3>3
    <2>9. Less(<<>>, u)
      BY <2>8, StrFacts, LessEmpty
    <2>10. Less(Cat(p, <<>>), Cat(p, u))
      BY <2>9, CatLess, StrConcat
    <2>11. QED
      BY <1>0, <2>1, <2>2, <2>5, <2>6, <2>7, <2>8, <2>10, CatStr
  <1>3. QED
    BY <1>1, <1>2 DEF Before

\* compare_elem/2 answers the order of the encodings.
OrderedAt(a) ==
    \A b \in Elems : /\ compare_elems[a][b] \in Signs
                     /\ compare_elems[a][b] = 0  => a = b
                     /\ compare_elems[a][b] = -1 => InOrder(a, b)
                     /\ compare_elems[a][b] = 1  => InOrder(b, a)

\* compare_impl/2 answers the order of the tuples.
LEMMA ImplOrder ==
    ASSUME NEW v \in Seq(Elems), NEW w \in Seq(Elems), \A i \in 1..Len(v) : OrderedAt(v[i])
    PROVE  /\ compare(v, w) = 0  => v = w
           /\ compare(v, w) = -1 => Before(v, w)
           /\ compare(v, w) = 1  => Before(w, v)
           /\ compare(v, w) \in Signs
  <1>1. PICK g : g = compare_elems
    OBVIOUS
  <1>2. compare(v, w) = compare_impl(v, w, g)
    BY <1>1 DEF compare
  <1>3. PICK m \in Nat, n \in Nat : m = Len(v) /\ n = Len(w)
    OBVIOUS
  <1>4. \A j \in 1..m : OrderedAt(v[j])
    BY <1>3
  <1>5. \A j \in 1..n : w[j] \in Elems
    BY <1>3
  <1>6. CASE ByLen(v, w, g)
    <2>1. \A j \in 1..m : j \in 1..n => v[j] = w[j]
      BY <1>1, <1>3, <1>4, <1>5, <1>6 DEF ByLen, OrderedAt
    <2>2. compare(v, w) = Sign(m < n, m > n)
      BY <1>2, <1>3, <1>6 DEF ByLen
    <2>3. CASE m < n
      <3>1. compare(v, w) = -1
        BY <2>2, <2>3 DEF Sign
      <3>2. \A j \in 1..m : v[j] = w[j]
        BY <2>1, <2>3
      <3>3. QED
        BY <1>3, <2>3, <3>1, <3>2 DEF Before, Signs
    <2>4. CASE m > n
      <3>1. compare(v, w) = 1
        BY <2>2, <2>4 DEF Sign
      <3>2. \A j \in 1..n : w[j] = v[j]
        BY <2>1, <2>4
      <3>3. QED
        BY <1>3, <2>4, <3>1, <3>2 DEF Before, Signs
    <2>5. CASE m = n
      <3>1. compare(v, w) = 0
        BY <2>2, <2>5 DEF Sign
      <3>2. \A j \in 1..m : v[j] = w[j]
        BY <2>1, <2>5
      <3>3. v = w
        BY <1>3, <2>5, <3>2, SeqEqual
      <3>4. QED
        BY <3>1, <3>3 DEF Signs
    <2>6. QED
      BY <2>3, <2>4, <2>5
  <1>7. CASE \E i \in 1..Len(v) : ByElem(v, w, g, i)
    <2>1. PICK i \in 1..m : ByElem(v, w, g, i)
      BY <1>3, <1>7
    <2>2. i \in 1..n /\ g[v[i]][w[i]] # 0 /\ compare(v, w) = g[v[i]][w[i]]
      BY <1>2, <1>3, <2>1 DEF ByElem
    <2>3. ASSUME NEW j \in 1..(i - 1) PROVE v[j] = w[j]
      <3>1. g[v[j]][w[j]] = 0
        BY <2>1 DEF ByElem
      <3>2. j \in 1..m /\ j \in 1..n
        BY <2>2
      <3>3. QED
        BY <1>1, <1>4, <1>5, <3>1, <3>2 DEF OrderedAt
    <2>4. /\ compare(v, w) \in Signs
          /\ compare(v, w) = -1 => InOrder(v[i], w[i])
          /\ compare(v, w) = 1 => InOrder(w[i], v[i])
      BY <1>1, <1>4, <1>5, <2>2 DEF OrderedAt
    <2>5. \A j \in 1..(i - 1) : w[j] = v[j]
      BY <2>3
    <2>6. compare(v, w) = -1 => Before(v, w)
      BY <1>3, <2>2, <2>3, <2>4 DEF Before
    <2>7. compare(v, w) = 1 => Before(w, v)
      BY <1>3, <2>2, <2>5, <2>4 DEF Before
    <2>8. QED
      BY <2>2, <2>4, <2>6, <2>7
  <1>8. QED
    BY <1>6, <1>7, CompareImpl

\* Elements with a smaller code are encoded before the others.
LEMMA CodesOrdered ==
    ASSUME NEW a \in Elems, NEW b \in Elems, code_for(a) < code_for(b)
    PROVE  InOrder(a, b)
  <1> SUFFICES ASSUME NEW d \in Nat PROVE Sorted(Conts, encode[a][d], encode[b][d])
    BY DEF InOrder
  <1>1. Sorted(Str, encode[a][d], encode[b][d]) /\ Conts \subseteq Str
    BY CodeOrder, ContsFacts
  <1>2. QED
    BY <1>1, SortedSub

\* Integers are encoded in their order.
LEMMA IntsOrdered ==
    ASSUME NEW m \in Ints, NEW n \in Ints, m < n, <<"int", m>> \in Elems, <<"int", n>> \in Elems
    PROVE  InOrder(<<"int", m>>, <<"int", n>>)
  <1> SUFFICES ASSUME NEW d \in Nat PROVE Sorted(Conts, encode[<<"int", m>>][d], encode[<<"int", n>>][d])
    BY DEF InOrder
  <1>1. encode[<<"int", m>>][d] = encode_int(m) /\ encode[<<"int", n>>][d] = encode_int(n)
    BY EncodeFunction, EncInt
  <1>2. Sorted(Str, encode_int(m), encode_int(n)) /\ Conts \subseteq Str
    BY IntOrder, ContsFacts
  <1>3. QED
    BY <1>1, <1>2, SortedSub

\* Binaries are encoded in their order.
LEMMA StringsOrdered ==
    ASSUME NEW s \in Str, NEW t \in Str, Less(s, t), NEW k \in {"bytes", "utf8"},
           <<k, s>> \in Elems, <<k, t>> \in Elems
    PROVE  InOrder(<<k, s>>, <<k, t>>)
  <1> SUFFICES ASSUME NEW d \in Nat PROVE Sorted(Conts, encode[<<k, s>>][d], encode[<<k, t>>][d])
    BY DEF InOrder
  <1>1. Sorted(Conts, enc_null_terminated(s), enc_null_terminated(t)) /\ Conts \subseteq Str
    BY StringOrder, ContsFacts
  <1>2. PICK c \in Str : /\ encode[<<k, s>>][d] = Cat(c, enc_null_terminated(s))
                         /\ encode[<<k, t>>][d] = Cat(c, enc_null_terminated(t))
    <2>1. One(BYTES) \in Str /\ One(UTF8) \in Str
      BY OneStr, Codes
    <2>2. PICK g : g = encode
      OBVIOUS
    <2>3. encode[<<k, s>>][d] = encode_elem(<<k, s>>, d, g) /\ encode[<<k, t>>][d] = encode_elem(<<k, t>>, d, g)
      BY <2>2, EncodeFunction
    <2>4. CASE k = "bytes"
      BY <2>1, <2>3, <2>4, EncBytes
    <2>5. CASE k = "utf8"
      BY <2>1, <2>3, <2>5, EncBytes
    <2>6. QED
      BY <2>4, <2>5
  <1>3. enc_null_terminated(s) \in Str /\ enc_null_terminated(t) \in Str
    BY EscsStr
  <1>4. QED
    BY <1>1, <1>2, <1>3, SortedAfter

\* Values of fixed length are encoded in their order.
LEMMA FixedOrdered ==
    ASSUME NEW k \in Fixeds, NEW s \in Str, NEW t \in Str, Less(s, t), Len(s) = Size(k), Len(t) = Size(k),
           <<k, s>> \in Elems, <<k, t>> \in Elems
    PROVE  InOrder(<<k, s>>, <<k, t>>)
  <1> SUFFICES ASSUME NEW d \in Nat PROVE Sorted(Conts, encode[<<k, s>>][d], encode[<<k, t>>][d])
    BY DEF InOrder
  <1>1. Sorted(Str, s, t) /\ Conts \subseteq Str
    BY LessSame, ContsFacts
  <1>2. PICK c \in Str : encode[<<k, s>>][d] = Cat(c, s) /\ encode[<<k, t>>][d] = Cat(c, t)
    BY EncodeFunction, EncFixed, OneStr, FixedFacts
  <1>3. Sorted(Conts, s, t)
    BY <1>1, SortedSub
  <1>4. QED
    BY <1>1, <1>2, <1>3, SortedAfter

\* Nested tuples are encoded in their order.
LEMMA TuplesOrdered ==
    ASSUME NEW v \in Seq(Elems), NEW w \in Seq(Elems), Before(v, w),
           <<"tuple", v>> \in Elems, <<"tuple", w>> \in Elems
    PROVE  InOrder(<<"tuple", v>>, <<"tuple", w>>)
  <1> SUFFICES ASSUME NEW d \in Nat
               PROVE  Sorted(Conts, encode[<<"tuple", v>>][d], encode[<<"tuple", w>>][d])
    BY DEF InOrder
  <1>1. PICK e \in Nat : e = d + 1 /\ e # 0
    OBVIOUS
  <1>2. NULL \in Bytes /\ NESTED \in Bytes
    BY Codes, ByteNumbers
  <1>3. PICK s \in Str : s = Cat(FlattenSeq(Encs(v, e)), One(NULL))
    BY <1>2, EncsFacts, OneStr, CatStr
  <1>4. PICK t \in Str : t = Cat(FlattenSeq(Encs(w, e)), One(NULL))
    BY <1>2, EncsFacts, OneStr, CatStr
  <1>5. Sorted(Conts, s, t) /\ Conts \subseteq Str
    BY <1>1, <1>3, <1>4, BeforeNested, ContsFacts
  <1>6. PICK c \in Str : encode[<<"tuple", v>>][d] = Cat(c, s) /\ encode[<<"tuple", w>>][d] = Cat(c, t)
    BY <1>1, <1>2, <1>3, <1>4, EncodeTuple, OneStr
  <1>7. QED
    BY <1>5, <1>6, SortedAfter

\* A code is a number.
LEMMA CodeNat == ASSUME NEW e \in Elems PROVE code_for(e) \in Nat
  <1>1. /\ NULL \in Nat /\ BYTES \in Nat /\ UTF8 \in Nat /\ NESTED \in Nat /\ ZERO \in Nat
        /\ TRUE_ \in Nat /\ FALSE_ \in Nat /\ \A t \in Fixeds : Fixed[t] \in Nat
    BY Codes, FixedFacts, ByteNumbers
  <1>2. QED
    BY <1>1, CodeFor

\* The values of the simple types.
LEMMA SimpleElem ==
    ASSUME NEW e \in Elems
    PROVE  /\ e[1] = "null" => e = <<"null", 0>>
           /\ e[1] = "bool" => e = <<"bool", e[2]>>
           /\ e[1] = "int"  => e = <<"int", e[2]>> /\ e[2] \in Ints
  <1>1. CASE e = <<"null", 0>>
    BY <1>1
  <1>2. CASE \E b \in BOOLEAN : e = <<"bool", b>>
    BY <1>2
  <1>3. CASE \E n \in Ints : e = <<"int", n>>
    BY <1>3
  <1>4. CASE \E s \in Str : e = <<"bytes", s>>
    BY <1>4
  <1>5. CASE \E s \in Str : e = <<"utf8", s>>
    BY <1>5
  <1>6. CASE \E t \in Fixeds : \E s \in Str : e = <<t, s>>
    BY <1>6 DEF Fixeds
  <1>7. CASE \E v \in Seq(Elems) : e = <<"tuple", v>>
    BY <1>7
  <1>8. QED
    BY <1>1, <1>2, <1>3, <1>4, <1>5, <1>6, <1>7, CodeFor

\* What compare_elem/2 answers for elements that are not nested.
LEMMA CodesDiffer ==
    ASSUME NEW a \in Elems, NEW b \in Elems, code_for(a) # code_for(b), NEW z, z = compare_elems[a][b]
    PROVE  z \in Signs /\ z # 0 /\ (z = -1 => InOrder(a, b)) /\ (z = 1 => InOrder(b, a))
  <1>1. z = Sign(code_for(a) < code_for(b), code_for(a) > code_for(b))
    BY CompareFunction, CompareElem
  <1>2. code_for(a) \in Nat /\ code_for(b) \in Nat
    BY CodeNat
  <1>3. CASE code_for(a) < code_for(b)
    BY <1>1, <1>3, CodesOrdered DEF Sign, Signs
  <1>4. CASE code_for(b) < code_for(a)
    BY <1>1, <1>2, <1>4, CodesOrdered DEF Sign, Signs
  <1>5. QED
    BY <1>2, <1>3, <1>4

\* compare_elems/2 is the order of the encodings, if nothing is nested.
LEMMA FlatOrdered ==
    ASSUME NEW a \in Elems, NEW b \in Elems, code_for(a) = code_for(b), a[1] # "tuple",
           NEW z, z = compare_elems[a][b]
    PROVE  z \in Signs /\ (z = 0 => a = b) /\ (z = -1 => InOrder(a, b)) /\ (z = 1 => InOrder(b, a))
  <1>0. a[1] = b[1] /\ (a[1] = "bool" => a[2] = b[2])
    BY CodeType
  <1>1. PICK g : g = compare_elems
    OBVIOUS
  <1>2. z = compare_elem(a, b, g)
    BY <1>1, CompareFunction
  <1>3. CASE a[1] = "null"
    <2>1. z = 0
      BY <1>2, <1>3, CompareElem
    <2>2. a = <<"null", 0>> /\ b = <<"null", 0>>
      BY <1>0, <1>3, SimpleElem
    <2>3. QED
      BY <2>1, <2>2 DEF Signs
  <1>4. CASE a[1] = "bool"
    <2>1. z = 0
      BY <1>2, <1>4, CompareElem
    <2>2. a = <<"bool", a[2]>> /\ b = <<"bool", b[2]>>
      BY <1>0, <1>4, SimpleElem
    <2>3. QED
      BY <1>0, <1>4, <2>1, <2>2 DEF Signs
  <1>5. CASE a[1] = "int"
    <2>1. z = Sign(a[2] < b[2], a[2] > b[2])
      BY <1>2, <1>5, CompareElem
    <2>2. PICK m \in Ints : a = <<"int", m>>
      BY <1>5, SimpleElem
    <2>3. PICK n \in Ints : b = <<"int", n>>
      BY <1>0, <1>5, SimpleElem
    <2>4. m \in Int /\ n \in Int /\ z = Sign(m < n, m > n)
      BY <2>1, <2>2, <2>3 DEF Ints
    <2>5. CASE m < n
      BY <2>2, <2>3, <2>4, <2>5, IntsOrdered DEF Sign, Signs
    <2>6. CASE n < m
      BY <2>2, <2>3, <2>4, <2>6, IntsOrdered DEF Sign, Signs
    <2>7. CASE n = m
      BY <2>2, <2>3, <2>4, <2>7 DEF Sign, Signs
    <2>8. QED
      BY <2>4, <2>5, <2>6, <2>7
  <1>6. CASE a[1] \in {"bytes", "utf8"} \cup Fixeds
    <2>1. a[1] \notin {"tuple", "int", "null", "bool"}
      BY <1>6 DEF Fixeds
    <2>2. z = Sign(Less(a[2], b[2]), Less(b[2], a[2]))
      BY <1>2, <2>1, CompareElem
    <2>3. PICK k : k = a[1]
      OBVIOUS
    <2>4. PICK s \in Str : a = <<k, s>> /\ (k \in Fixeds => Len(s) = Size(k))
      BY <1>6, <2>3, CodeFor DEF Fixeds
    <2>5. PICK t \in Str : b = <<k, t>> /\ (k \in Fixeds => Len(t) = Size(k))
      BY <1>0, <1>6, <2>3, CodeFor DEF Fixeds
    <2>6. s \in Seq(Nat) /\ t \in Seq(Nat) /\ z = Sign(Less(s, t), Less(t, s))
      BY <2>2, <2>4, <2>5, StrFacts
    <2>7. \A x, y \in Str : Less(x, y) /\ <<k, x>> \in Elems /\ <<k, y>> \in Elems
                             /\ (k \in Fixeds => Len(x) = Size(k) /\ Len(y) = Size(k))
                                => InOrder(<<k, x>>, <<k, y>>)
      <3>1. CASE k \in Fixeds
        BY <3>1, FixedOrdered
      <3>2. CASE k \in {"bytes", "utf8"}
        BY <3>2, StringsOrdered
      <3>3. QED
        BY <1>6, <2>3, <3>1, <3>2
    <2>8. CASE Less(s, t)
      <3>1. z = -1
        BY <2>6, <2>8 DEF Sign
      <3>2. InOrder(a, b)
        BY <2>4, <2>5, <2>7, <2>8
      <3>3. QED
        BY <3>1, <3>2 DEF Signs
    <2>9. CASE Less(t, s)
      <3>1. z = 1
        BY <2>6, <2>9, LessAsymmetric DEF Sign
      <3>2. InOrder(b, a)
        BY <2>4, <2>5, <2>7, <2>9
      <3>3. QED
        BY <3>1, <3>2 DEF Signs
    <2>10. CASE ~Less(s, t) /\ ~Less(t, s)
      <3>1. s = t
        BY <2>6, <2>10, LessTotal
      <3>2. z = 0
        BY <2>6, <2>10 DEF Sign
      <3>3. QED
        BY <2>4, <2>5, <3>1, <3>2 DEF Signs
    <2>11. QED
      BY <2>8, <2>9, <2>10
  <1>7. QED
    <2>1. a[1] \in {"null", "bool", "int", "bytes", "utf8"} \cup Fixeds
      BY CodeFor
    <2>2. QED
      BY <2>1, <1>3, <1>4, <1>5, <1>6

\* compare_elems/2 is the order of the encodings.
LEMMA ElemsOrdered == \A a \in Elems : OrderedAt(a)
  <1> DEFINE S == {a \in Elems : OrderedAt(a)}
  <1>1. \A e \in Flat : e \in S
    <2> SUFFICES ASSUME NEW e \in Flat PROVE e \in S
      OBVIOUS
    <2>1. e \in Elems /\ e[1] # "tuple"
      BY FlatElems, FlatType
    <2>2. ASSUME NEW b \in Elems
          PROVE  /\ compare_elems[e][b] \in Signs
                 /\ compare_elems[e][b] = 0  => e = b
                 /\ compare_elems[e][b] = -1 => InOrder(e, b)
                 /\ compare_elems[e][b] = 1  => InOrder(b, e)
      <3>1. PICK z : z = compare_elems[e][b]
        OBVIOUS
      <3>2. CASE code_for(e) = code_for(b)
        BY <2>1, <3>1, <3>2, FlatOrdered
      <3>3. CASE code_for(e) # code_for(b)
        BY <2>1, <3>1, <3>3, CodesDiffer
      <3>4. QED
        BY <3>2, <3>3
    <2>3. QED
      BY <2>1, <2>2 DEF OrderedAt
  <1>2. \A v \in Seq(Elems) : <<"tuple", v>> \in Elems /\ v \in Seq(S) => <<"tuple", v>> \in S
    <2> SUFFICES ASSUME NEW v \in Seq(Elems), <<"tuple", v>> \in Elems, v \in Seq(S)
                 PROVE  <<"tuple", v>> \in S
      OBVIOUS
    <2>1. \A i \in 1..Len(v) : OrderedAt(v[i])
      <3>1. \A i \in 1..Len(v) : v[i] \in S
        <4> HIDE DEF S
        <4>1. QED
          OBVIOUS
      <3>2. QED
        BY <3>1
    <2>2. PICK e \in Elems : e = <<"tuple", v>>
      OBVIOUS
    <2>3. ASSUME NEW b \in Elems
          PROVE  /\ compare_elems[e][b] \in Signs
                 /\ compare_elems[e][b] = 0  => e = b
                 /\ compare_elems[e][b] = -1 => InOrder(e, b)
                 /\ compare_elems[e][b] = 1  => InOrder(b, e)
      <3>1. PICK z : z = compare_elems[e][b]
        OBVIOUS
      <3>2. CASE code_for(e) = code_for(b)
        <4>1. e[1] = "tuple" /\ b[1] = "tuple" /\ e[2] = v
          BY <2>2, <3>2, CodeType
        <4>2. PICK w \in Seq(Elems) : b = <<"tuple", w>>
          BY <4>1, TupleElem
        <4>3. b[2] = w
          BY <4>2
        <4>4. z = compare_impl(v, w, compare_elems)
          BY <3>1, <3>2, <4>1, <4>3, CompareFunction, CompareElem
        <4>5. z = compare(v, w)
          BY <4>4 DEF compare
        <4>6. /\ z = 0  => v = w
              /\ z = -1 => Before(v, w)
              /\ z = 1  => Before(w, v)
              /\ z \in Signs
          BY <2>1, <4>5, ImplOrder
        <4>7. QED
          BY <2>2, <3>1, <4>2, <4>6, TuplesOrdered
      <3>3. CASE code_for(e) # code_for(b)
        BY <3>1, <3>3, CodesDiffer
      <3>4. QED
        BY <3>2, <3>3
    <2>4. OrderedAt(e)
      BY <2>3 DEF OrderedAt
    <2>5. QED
      BY <2>2, <2>4
  <1> HIDE DEF S
  <1>3. \A e \in Elems : e \in S
    BY <1>1, <1>2, ElemInduction
  <1>4. QED
    BY <1>3 DEF S

\* compare/2 is a total order, and pack/1 keeps it.
LEMMA CompareTuples ==
    ASSUME NEW v \in Seq(Elems), NEW w \in Seq(Elems)
    PROVE  /\ compare(v, w) = 0  => v = w
           /\ compare(v, w) = -1 => Before(v, w)
           /\ compare(v, w) = 1  => Before(w, v)
           /\ compare(v, w) \in Signs
  <1>1. \A i \in 1..Len(v) : OrderedAt(v[i])
    BY ElemsOrdered
  <1>2. QED
    BY <1>1, ImplOrder

\* pack/1 gives a string of bytes.
LEMMA PackStr == ASSUME NEW v \in Seq(Elems) PROVE pack(v) \in Str /\ pack(v) \in Seq(Nat)
  BY EncsFacts, StrFacts DEF pack

\* compare/2 of two tuples says how their packed keys are ordered: for every
\* type but floats, every value and every depth.
THEOREM PackOrder ==
    ASSUME NEW v \in Seq(Elems), NEW w \in Seq(Elems)
    PROVE  compare(v, w) = Sign(Less(pack(v), pack(w)), Less(pack(w), pack(v)))
  <1>1. PICK s \in Seq(Nat), t \in Seq(Nat) : s = pack(v) /\ t = pack(w)
    BY PackStr
  <1>2. CASE compare(v, w) = 0
    <2>1. v = w
      BY <1>2, CompareTuples
    <2>2. s = t
      BY <1>1, <2>1
    <2>3. ~Less(s, t) /\ ~Less(t, s)
      BY <2>2, LessIrreflexive
    <2>4. QED
      BY <1>1, <1>2, <2>3 DEF Sign
  <1>3. CASE compare(v, w) = -1
    <2>1. Less(s, t)
      BY <1>1, <1>3, CompareTuples, BeforePacked
    <2>2. QED
      BY <1>1, <1>3, <2>1 DEF Sign
  <1>4. CASE compare(v, w) = 1
    <2>1. Less(t, s)
      BY <1>1, <1>4, CompareTuples, BeforePacked
    <2>2. ~Less(s, t)
      BY <2>1, LessAsymmetric
    <2>3. QED
      BY <1>1, <1>4, <2>1, <2>2 DEF Sign
  <1>5. QED
    BY <1>2, <1>3, <1>4, CompareTuples DEF Signs

-----------------------------------------------------------------------------
(* decode/2 *)

\* The first byte of a string, and the others.
LEMMA HeadTail ==
    ASSUME NEW b \in Bytes, NEW s \in Str
    PROVE  /\ Cat(One(b), s) \in Str /\ Cat(One(b), s) # <<>> /\ Len(Cat(One(b), s)) = Len(s) + 1
           /\ Head(Cat(One(b), s)) = b /\ Tail(Cat(One(b), s)) = s
  <1>1. PICK u \in Seq(Bytes) : u = Cat(One(b), s) /\ u # <<>> /\ u[1] = b /\ Len(u) = Len(s) + 1
    BY OneCatPoints DEF Str
  <1>2. Len(s) \in Nat
    BY StrFacts
  <1>3. Head(u) = b
    BY <1>1
  <1>4. PICK t \in Seq(Bytes) : t = Tail(u) /\ Len(t) = Len(s) /\ \A i \in 1..Len(t) : t[i] = u[i + 1]
    <2>1. PICK t : t = Tail(u)
      OBVIOUS
    <2>2. t \in Seq(Bytes) /\ Len(t) = Len(u) - 1 /\ \A i \in 1..Len(t) : t[i] = u[i + 1]
      BY <1>1, <2>1, HeadTailProperties
    <2>3. QED
      BY <1>1, <1>2, <2>1, <2>2
  <1>5. \A i \in 1..Len(s) : u[i + 1] = s[i]
    <2>1. PICK o \in Seq(Bytes) : o = One(b) /\ Len(o) = 1
      BY OneStr DEF Str
    <2>2. u = o \o s /\ s \in Seq(Bytes)
      BY <1>1, <2>1 DEF Cat, Str
    <2>3. \A i \in 1..(Len(o) + Len(s)) : u[i] = IF i <= Len(o) THEN o[i] ELSE s[i - Len(o)]
      BY <2>2, ConcatProperties
    <2>4. ASSUME NEW i \in 1..Len(s) PROVE u[i + 1] = s[i]
      <3>1. i + 1 \in 1..(1 + Len(s)) /\ ~(i + 1 <= 1) /\ (i + 1) - 1 = i
        BY <1>1, <1>2
      <3>2. QED
        BY <2>1, <2>3, <3>1
    <2>5. QED
      BY <2>4
  <1>6. t = s
    BY <1>4, <1>5, SeqEqual DEF Str
  <1>7. QED
    BY <1>1, <1>3, <1>4, <1>6 DEF Str

\* A string that is not empty has a first byte.
LEMMA StrSplit ==
    ASSUME NEW s \in Str, s # <<>>
    PROVE  /\ Head(s) \in Bytes /\ Tail(s) \in Str /\ Len(s) \in Nat /\ Len(Tail(s)) = Len(s) - 1
           /\ Len(s) > 0
  <1>1. Len(s) \in Nat /\ Len(s) # 0
    BY EmptySeq DEF Str
  <1>2. QED
    BY <1>1, HeadTailProperties DEF Str

\* What dec_null_terminated/1 returns.
Decs == [bin : Str, rest : Str]

\* What null_terminated makes of the bytes, by cases.
More(b, d) == [bin |-> Cat(One(b), d.bin), rest |-> d.rest]

\* dec_null_terminated/1, by the bytes it meets.
LEMMA NullCases ==
    ASSUME NEW s \in Str, NEW g
    PROVE  \/ s = <<>> /\ null_terminated(s, g) = [bin |-> <<>>, rest |-> <<>>]
           \/ s # <<>> /\ Head(s) # NULL /\ null_terminated(s, g) = More(Head(s), g[Tail(s)])
           \/ s # <<>> /\ Head(s) = NULL /\ Tail(s) # <<>> /\ Head(Tail(s)) = ESCAPE
                  /\ null_terminated(s, g) = More(NULL, g[Tail(Tail(s))])
           \/ s # <<>> /\ Head(s) = NULL /\ (Tail(s) = <<>> \/ Head(Tail(s)) # ESCAPE)
                  /\ null_terminated(s, g) = [bin |-> <<>>, rest |-> Tail(s)]
  <1>1. CASE s = <<>>
    BY <1>1 DEF null_terminated
  <1>2. CASE s # <<>> /\ Head(s) # NULL
    BY <1>2 DEF null_terminated, More, Cat, One
  <1>3. CASE s # <<>> /\ Head(s) = NULL /\ Tail(s) # <<>> /\ Head(Tail(s)) = ESCAPE
    BY <1>3 DEF null_terminated, More, Cat, One
  <1>4. CASE s # <<>> /\ Head(s) = NULL /\ (Tail(s) = <<>> \/ Head(Tail(s)) # ESCAPE)
    BY <1>4 DEF null_terminated
  <1>5. QED
    BY <1>1, <1>2, <1>3, <1>4

\* dec_null_terminated/1 returns two strings.
LEMMA NullType ==
    ASSUME NEW s \in Str, NEW g \in [Str -> Decs]
    PROVE  null_terminated(s, g) \in Decs
  <1>1. ASSUME NEW b \in Bytes, NEW d \in Decs PROVE More(b, d) \in Decs
    BY OneStr, CatStr DEF More, Decs
  <1>2. <<>> \in Str /\ NULL \in Bytes
    BY StrConcat, Codes
  <1>3. CASE s = <<>>
    BY <1>2, <1>3, NullCases DEF Decs
  <1>4. CASE s # <<>>
    <2>1. Head(s) \in Bytes /\ Tail(s) \in Str
      BY <1>4, StrSplit
    <2>2. Tail(s) # <<>> => Tail(Tail(s)) \in Str
      BY <2>1, StrSplit
    <2>3. [bin |-> <<>>, rest |-> Tail(s)] \in Decs
      BY <1>2, <2>1 DEF Decs
    <2>4. g[Tail(s)] \in Decs /\ (Tail(s) # <<>> => g[Tail(Tail(s))] \in Decs)
      BY <2>1, <2>2
    <2>5. More(Head(s), g[Tail(s)]) \in Decs /\ (Tail(s) # <<>> => More(NULL, g[Tail(Tail(s))]) \in Decs)
      BY <1>1, <1>2, <2>1, <2>4
    <2>6. QED
      BY <1>4, <2>3, <2>5, NullCases
  <1>5. QED
    BY <1>3, <1>4

\* dec_null_terminated/1 needs only what is left.
LEMMA NullSame ==
    ASSUME NEW s \in Str, NEW g, NEW h, \A t \in Str : Len(t) < Len(s) => g[t] = h[t]
    PROVE  null_terminated(s, g) = null_terminated(s, h)
  <1>1. CASE s = <<>>
    BY <1>1, NullCases
  <1>2. CASE s # <<>>
    <2>1. PICK t \in Str : t = Tail(s) /\ Len(s) \in Nat /\ Len(t) = Len(s) - 1
      BY <1>2, StrSplit
    <2>2. g[t] = h[t]
      <3>1. Len(t) < Len(s)
        BY <2>1
      <3>2. QED
        BY <3>1
    <2>3. ASSUME t # <<>> PROVE g[Tail(t)] = h[Tail(t)]
      <3>1. PICK u \in Str : u = Tail(t) /\ Len(u) = Len(t) - 1
        BY <2>3, StrSplit
      <3>2. Len(u) < Len(s)
        BY <2>1, <3>1
      <3>3. QED
        BY <3>1, <3>2
    <2>4. g[Tail(s)] = h[Tail(s)] /\ (Tail(s) # <<>> => g[Tail(Tail(s))] = h[Tail(Tail(s))])
      BY <2>1, <2>2, <2>3
    <2>5. QED
      BY <1>2, <2>4, NullCases
  <1>3. QED
    BY <1>1, <1>2

\* dec_null_terminated/1 is defined for every string.
LEMMA NullFunction ==
    /\ dec_null_terminated \in [Str -> Decs]
    /\ \A s \in Str : dec_null_terminated[s] = null_terminated(s, dec_null_terminated)
  <1> DEFINE V == Decs
             S == Str
             Is(g) == g = [s \in S |-> null_terminated(s, g)]
             F == [g \in [S -> V] |-> [s \in S |-> null_terminated(s, g)]]
             r == [s \in S |-> Len(s)]
  <1>0. dec_null_terminated = CHOOSE g : Is(g)
    BY DEF dec_null_terminated, Str
  <1>1. \A g \in [S -> V], s \in S : null_terminated(s, g) \in V
    BY NullType
  <1>2. \A s \in S : Len(s) \in Nat
    BY StrFacts
  <1>3. Smaller(S, V, r, F)
    <2> SUFFICES ASSUME NEW g \in [S -> V], NEW h \in [S -> V], NEW s \in S,
                        \A y \in S : r[y] < r[s] => g[y] = h[y]
                 PROVE  F[g][s] = F[h][s]
      BY DEF Smaller
    <2>1. null_terminated(s, g) = null_terminated(s, h)
      <3>1. \A t \in Str : Len(t) < Len(s) => g[t] = h[t]
        OBVIOUS
      <3>2. QED
        BY <3>1, NullSame
    <2> HIDE DEF S, V
    <2>2. QED
      BY <2>1
  <1>4. V # {}
    <2>1. [bin |-> <<>>, rest |-> <<>>] \in V
      BY StrConcat DEF Decs
    <2>2. QED
      BY <2>1
  <1> HIDE DEF S, V
  <1>5. F \in [[S -> V] -> [S -> V]]
    BY <1>1
  <1>6. r \in [S -> Nat]
    BY <1>2
  <1>7. PICK g \in [S -> V] : Is(g)
    <2>1. \A g \in [S -> V] : g = F[g] => Is(g)
      OBVIOUS
    <2> HIDE DEF F, Is, r
    <2>2. Recursive(S, V, r, F)
      BY <1>3, <1>4, <1>5, <1>6 DEF Recursive
    <2>3. PICK g \in [S -> V] : g = F[g]
      BY <2>2, Recursion
    <2>4. QED
      BY <2>1, <2>3
  <1>8. Is(dec_null_terminated)
    <2> HIDE DEF Is
    <2>1. QED
      BY <1>0, <1>7, Zenon
  <1>9. \A s \in S : dec_null_terminated[s] = null_terminated(s, dec_null_terminated)
    BY <1>8
  <1>10. \A s \in S : dec_null_terminated[s] = g[s]
    <2> DEFINE Q == {n \in Nat : \A s \in S : Len(s) < n => dec_null_terminated[s] = g[s]}
    <2>1. 0 \in Q
      BY <1>2
    <2>2. ASSUME NEW n \in Q PROVE n + 1 \in Q
      <3> SUFFICES ASSUME NEW s \in S, Len(s) < n + 1 PROVE dec_null_terminated[s] = g[s]
        OBVIOUS
      <3>1. PICK h : h = dec_null_terminated
        OBVIOUS
      <3>2. \A t \in Str : Len(t) < Len(s) => h[t] = g[t]
        BY <1>2, <3>1 DEF S
      <3>3. null_terminated(s, h) = null_terminated(s, g)
        BY <3>2, NullSame DEF S
      <3>4. QED
        BY <1>7, <1>9, <3>1, <3>3
    <2>3. Q \in SUBSET Nat
      OBVIOUS
    <2>4. \A n \in Nat : n \in Q
      <3> HIDE DEF Q
      <3>1. QED
        BY <2>1, <2>2, <2>3, SetInduction
    <2>5. QED
      <3> SUFFICES ASSUME NEW s \in S PROVE dec_null_terminated[s] = g[s]
        OBVIOUS
      <3>1. Len(s) + 1 \in Nat /\ Len(s) < Len(s) + 1
        BY <1>2
      <3>2. QED
        BY <2>4, <3>1
  <1>11. dec_null_terminated \in [S -> V]
    <2>1. dec_null_terminated = [s \in S |-> dec_null_terminated[s]]
      BY <1>8
    <2>2. QED
      BY <1>10, <2>1
  <1>12. QED
    BY <1>9, <1>11 DEF S, V

\* dec_null_terminated/1, byte by byte.
LEMMA NullSteps ==
    /\ \A b \in Bytes, s \in Str :
          b # NULL => dec_null_terminated[Cat(One(b), s)] = More(b, dec_null_terminated[s])
    /\ \A s \in Str : dec_null_terminated[Cat(One(NULL), Cat(One(ESCAPE), s))] = More(NULL, dec_null_terminated[s])
    /\ \A x \in Conts : dec_null_terminated[Cat(One(NULL), x)] = [bin |-> <<>>, rest |-> x]
  <1>0. NULL \in Bytes /\ ESCAPE \in Bytes
    BY Codes
  <1>1. PICK g : g = dec_null_terminated
    OBVIOUS
  <1>2. \A s \in Str : dec_null_terminated[s] = null_terminated(s, g)
    BY <1>1, NullFunction
  <1>3. ASSUME NEW b \in Bytes, NEW s \in Str, b # NULL
        PROVE  dec_null_terminated[Cat(One(b), s)] = More(b, dec_null_terminated[s])
    <2>1. PICK u \in Str : u = Cat(One(b), s) /\ u # <<>> /\ Head(u) = b /\ Tail(u) = s
      BY HeadTail
    <2>2. QED
      BY <1>1, <1>2, <1>3, <2>1, NullCases
  <1>4. ASSUME NEW s \in Str
        PROVE  dec_null_terminated[Cat(One(NULL), Cat(One(ESCAPE), s))] = More(NULL, dec_null_terminated[s])
    <2>1. PICK w \in Str : w = Cat(One(ESCAPE), s) /\ w # <<>> /\ Head(w) = ESCAPE /\ Tail(w) = s
      BY <1>0, HeadTail
    <2>2. PICK u \in Str : u = Cat(One(NULL), w) /\ u # <<>> /\ Head(u) = NULL /\ Tail(u) = w
      BY <1>0, HeadTail
    <2>3. null_terminated(u, g) = More(NULL, g[s])
      BY <2>1, <2>2, NullCases
    <2>4. QED
      BY <1>1, <1>2, <2>1, <2>2, <2>3
  <1>5. ASSUME NEW x \in Conts PROVE dec_null_terminated[Cat(One(NULL), x)] = [bin |-> <<>>, rest |-> x]
    <2>1. x \in Str /\ (x = <<>> \/ Head(x) # ESCAPE)
      <3>1. x \in Seq(Bytes) /\ (x = <<>> \/ x[1] # ESCAPE)
        BY DEF Conts, Str
      <3>2. QED
        BY <3>1 DEF Str
    <2>2. PICK u \in Str : u = Cat(One(NULL), x) /\ u # <<>> /\ Head(u) = NULL /\ Tail(u) = x
      BY <1>0, <2>1, HeadTail
    <2>3. null_terminated(u, g) = [bin |-> <<>>, rest |-> x]
      BY <2>1, <2>2, NullCases
    <2>4. QED
      BY <1>2, <2>2, <2>3
  <1>6. QED
    BY <1>3, <1>4, <1>5

\* One more byte is escaped at the end.
LEMMA EscsAppend ==
    ASSUME NEW s \in Str, NEW b \in Bytes
    PROVE  FlattenSeq(Escs(Append(s, b))) = Cat(FlattenSeq(Escs(s)), Esc(b))
  <1>1. PICK n \in Nat : n = Len(s)
    BY StrFacts
  <1>2. PICK u \in Str : /\ u = Append(s, b) /\ Len(u) = n + 1 /\ u[n + 1] = b
                         /\ \A i \in 1..n : u[i] = s[i]
    <2>1. PICK u : u = Append(s, b)
      OBVIOUS
    <2>2. s \in Seq(Bytes)
      BY DEF Str
    <2>3. /\ u \in Seq(Bytes) /\ Len(u) = Len(s) + 1 /\ u[Len(s) + 1] = b
          /\ \A i \in 1..Len(s) : u[i] = s[i]
      BY <2>1, <2>2, AppendFacts
    <2>4. QED
      BY <1>1, <2>1, <2>3 DEF Str
  <1>3. PICK e \in Str : e = Esc(b)
    BY EscStr
  <1>4. PICK ss \in Seq(Str) : ss = Escs(s) /\ Len(ss) = n /\ \A i \in 1..n : ss[i] = Esc(s[i])
    BY <1>1, EscsStr
  <1>5. PICK tt \in Seq(Str) : tt = Escs(u) /\ Len(tt) = n + 1 /\ \A i \in 1..(n + 1) : tt[i] = Esc(u[i])
    <2>1. PICK tt : tt = Escs(u)
      OBVIOUS
    <2>2. tt \in Seq(Str) /\ Len(tt) = Len(u) /\ \A i \in 1..Len(u) : tt[i] = Esc(u[i])
      BY <2>1, EscsStr
    <2>3. QED
      BY <1>2, <2>1, <2>2
  <1>6. PICK w \in Seq(Str) : /\ w = Append(ss, e) /\ Len(w) = n + 1 /\ w[n + 1] = e
                              /\ \A i \in 1..n : w[i] = ss[i]
    <2>1. PICK w : w = Append(ss, e)
      OBVIOUS
    <2>2. /\ w \in Seq(Str) /\ Len(w) = Len(ss) + 1 /\ w[Len(ss) + 1] = e
          /\ \A i \in 1..Len(ss) : w[i] = ss[i]
      BY <2>1, AppendFacts
    <2>3. QED
      BY <1>4, <2>1, <2>2
  <1>7. \A i \in 1..(n + 1) : tt[i] = w[i]
    BY <1>2, <1>3, <1>4, <1>5, <1>6
  <1>8. tt = w
    BY <1>5, <1>6, <1>7, SeqEqual
  <1>9. FlattenSeq(w) = FlattenSeq(ss) \o e
    BY <1>6, FlattenAppend, StrStrings
  <1>10. QED
    BY <1>2, <1>3, <1>4, <1>5, <1>8, <1>9 DEF Cat

\* A string that is escaped byte by byte comes back.
LEMMA NullAfter ==
    \A s \in Str : \A y \in Str :
        /\ dec_null_terminated[Cat(FlattenSeq(Escs(s)), y)].bin = Cat(s, dec_null_terminated[y].bin)
        /\ dec_null_terminated[Cat(FlattenSeq(Escs(s)), y)].rest = dec_null_terminated[y].rest
  <1> DEFINE D(y) == dec_null_terminated[y]
             S == {s \in Str : \A y \in Str : /\ D(Cat(FlattenSeq(Escs(s)), y)).bin = Cat(s, D(y).bin)
                                              /\ D(Cat(FlattenSeq(Escs(s)), y)).rest = D(y).rest}
  <1>0. \A y \in Str : D(y) \in Decs /\ D(y).bin \in Str /\ D(y).rest \in Str
    BY NullFunction DEF Decs
  <1>1. <<>> \in S
    <2>1. <<>> \in Str /\ FlattenSeq(Escs(<<>>)) = <<>>
      <3>1. <<>> \in Str /\ Len(<<>>) = 0
        BY StrConcat
      <3>2. PICK e \in Seq(Str) : e = Escs(<<>>) /\ Len(e) = 0
        BY <3>1, EscsStr
      <3>3. e = <<>>
        BY <3>2, EmptySeq
      <3>4. QED
        BY <3>1, <3>2, <3>3, FlattenEmpty
    <2> HIDE DEF D
    <2>2. QED
      BY <1>0, <2>1, CatStr, ZenonT(30)
  <1>2. ASSUME NEW s \in S, NEW b \in Bytes PROVE Append(s, b) \in S
    <2>0. s \in Str
      OBVIOUS
    <2>1. PICK u \in Str : u = Append(s, b) /\ u = Cat(s, One(b))
      BY <2>0, AppendStr, AppendCat DEF One
    <2>2. FlattenSeq(Escs(u)) = Cat(FlattenSeq(Escs(s)), Esc(b))
      BY <2>0, <2>1, EscsAppend
    <2>3. PICK f \in Str, e \in Str, o \in Str : f = FlattenSeq(Escs(s)) /\ e = Esc(b) /\ o = One(b)
      BY <2>0, EscsStr, EscStr, OneStr
    <2> SUFFICES ASSUME NEW y \in Str
                 PROVE  /\ D(Cat(FlattenSeq(Escs(u)), y)).bin = Cat(u, D(y).bin)
                        /\ D(Cat(FlattenSeq(Escs(u)), y)).rest = D(y).rest
      BY <2>1
    <2>4. PICK z \in Str : z = Cat(e, y)
      BY CatStr
    <2>5. Cat(FlattenSeq(Escs(u)), y) = Cat(f, z)
      BY <2>2, <2>3, <2>4, CatStr
    <2>6. D(Cat(f, z)).bin = Cat(s, D(z).bin) /\ D(Cat(f, z)).rest = D(z).rest
      BY <2>3
    <2>7. D(z) = More(b, D(y))
      <3>1. CASE b = NULL
        <4>1. e = Cat(One(NULL), One(ESCAPE))
          BY <2>3, <3>1, TwoBytes, Codes DEF Esc
        <4>2. z = Cat(One(NULL), Cat(One(ESCAPE), y))
          <5>1. One(NULL) \in Str /\ One(ESCAPE) \in Str
            BY OneStr, Codes
          <5>2. QED
            BY <2>4, <4>1, <5>1, CatStr
        <4>3. QED
          BY <3>1, <4>2, NullSteps
      <3>2. CASE b # NULL
        <4>1. e = One(b)
          BY <2>3, <3>2 DEF Esc, One
        <4>2. QED
          BY <2>4, <3>2, <4>1, NullSteps
      <3>3. QED
        BY <3>1, <3>2
    <2>8. D(z).bin = Cat(o, D(y).bin) /\ D(z).rest = D(y).rest
      BY <2>3, <2>7 DEF More
    <2>9. PICK w \in Str : w = D(y).bin
      BY <1>0
    <2>10. Cat(s, Cat(o, w)) = Cat(u, w)
      BY <2>0, <2>1, <2>3, CatStr
    <2> HIDE DEF D
    <2>11. QED
      BY <2>5, <2>6, <2>8, <2>9, <2>10
  <1>3. S \in SUBSET Str
    OBVIOUS
  <1>4. \A s \in Str : s \in S
    <2> HIDE DEF S
    <2>1. QED
      BY <1>1, <1>2, <1>3, StrInduction
  <1>5. QED
    BY <1>4

\* dec_null_terminated/1 undoes enc_null_terminated/1.
LEMMA NullDecoded ==
    ASSUME NEW s \in Str, NEW x \in Conts
    PROVE  dec_null_terminated[Cat(enc_null_terminated(s), x)] = [bin |-> s, rest |-> x]
  <1>1. PICK f \in Str, z \in Str : f = FlattenSeq(Escs(s)) /\ z = One(NULL)
    BY EscsStr, OneStr, Codes
  <1>2. x \in Str
    BY ContsFacts
  <1>3. PICK y \in Str : y = Cat(z, x)
    BY <1>2, CatStr
  <1>4. Cat(enc_null_terminated(s), x) = Cat(f, y)
    BY <1>1, <1>2, <1>3, EscsStr, CatStr
  <1>5. PICK u \in Str : u = Cat(f, y)
    BY CatStr
  <1>6. dec_null_terminated[u].bin = Cat(s, dec_null_terminated[y].bin)
          /\ dec_null_terminated[u].rest = dec_null_terminated[y].rest
    BY <1>1, <1>5, NullAfter
  <1>7. dec_null_terminated[y] = [bin |-> <<>>, rest |-> x]
    BY <1>1, <1>3, NullSteps
  <1>8. dec_null_terminated[u].bin = s /\ dec_null_terminated[u].rest = x
    BY <1>6, <1>7, CatStr
  <1>9. dec_null_terminated[u] \in Decs
    BY NullFunction
  <1>10. QED
    BY <1>4, <1>5, <1>8, <1>9 DEF Decs

\* One round of decoding, and what there is without one.
Ended == [p \in Str \X Nat |-> [elems |-> <<>>, rest |-> <<>>]]

Decoding(h) == [p \in Str \X Nat |-> decode_elems(p[1], p[2], h)]

\* h has the first rounds of decoding.
Rounds(k, h) == h = [n \in 0..k |-> IF n = 0 THEN Ended ELSE Decoding(h[n - 1])]

\* There is a function of the rounds of decode/2.
LEMMA RoundsExist == \A k \in Nat : \E h : Rounds(k, h)
  <1> DEFINE S == {n \in Nat : \E h : Rounds(n, h)}
  <1>1. 0 \in S
    <2> DEFINE h == [i \in 0..0 |-> Ended]
    <2>1. h = [i \in 0..0 |-> IF i = 0 THEN Ended ELSE Decoding(h[i - 1])]
      OBVIOUS
    <2> HIDE DEF h
    <2>2. QED
      BY <2>1 DEF Rounds
  <1>2. ASSUME NEW n \in S PROVE n + 1 \in S
    <2>1. n \in Nat /\ n + 1 \in Nat
      OBVIOUS
    <2>2. PICK h : Rounds(n, h)
      OBVIOUS
    <2> DEFINE g == [i \in 0..(n + 1) |-> IF i <= n THEN h[i] ELSE Decoding(h[n])]
    <2>3. \A i \in 0..n : g[i] = h[i] /\ h[i] = IF i = 0 THEN Ended ELSE Decoding(h[i - 1])
      BY <2>1, <2>2 DEF Rounds
    <2>4. g[n + 1] = Decoding(h[n]) /\ h[n] = g[n]
      BY <2>1
    <2>5. ASSUME NEW i \in 0..(n + 1)
          PROVE  g[i] = IF i = 0 THEN Ended ELSE Decoding(g[i - 1])
      <3> HIDE DEF g
      <3>1. CASE i = 0
        BY <2>1, <2>3, <3>1
      <3>2. CASE i \in 1..n
        <4>1. i \in 0..n /\ i - 1 \in 0..n /\ i # 0
          BY <2>1, <3>2
        <4>2. QED
          BY <2>3, <4>1
      <3>3. CASE i = n + 1
        <4>1. i # 0 /\ i - 1 = n
          BY <2>1, <3>3
        <4>2. QED
          BY <2>4, <3>3, <4>1
      <3>4. QED
        BY <2>1, <3>1, <3>2, <3>3
    <2>6. g = [i \in 0..(n + 1) |-> IF i = 0 THEN Ended ELSE Decoding(g[i - 1])]
      <3>1. g = [i \in 0..(n + 1) |-> g[i]]
        OBVIOUS
      <3> HIDE DEF g
      <3>2. QED
        BY <2>5, <3>1
    <2> HIDE DEF g
    <2>7. QED
      BY <2>1, <2>6 DEF Rounds
  <1>3. S \in SUBSET Nat
    OBVIOUS
  <1> HIDE DEF S
  <1>4. \A k \in Nat : k \in S
    BY <1>1, <1>2, <1>3, SetInduction
  <1>5. QED
    BY <1>4 DEF S

\* There is only one.
LEMMA RoundsSame ==
    ASSUME NEW k \in Nat, NEW m \in Nat, k <= m, NEW g, NEW h, Rounds(k, g), Rounds(m, h)
    PROVE  \A n \in 0..k : g[n] = h[n]
  <1> DEFINE Q == {n \in Nat : n <= k => g[n] = h[n]}
  <1>1. /\ \A n \in 0..k : g[n] = IF n = 0 THEN Ended ELSE Decoding(g[n - 1])
        /\ \A n \in 0..m : h[n] = IF n = 0 THEN Ended ELSE Decoding(h[n - 1])
    BY DEF Rounds
  <1>2. 0 \in Q
    BY <1>1
  <1>3. ASSUME NEW n \in Q PROVE n + 1 \in Q
    <2> SUFFICES ASSUME n + 1 <= k PROVE g[n + 1] = h[n + 1]
      OBVIOUS
    <2>1. n + 1 \in 0..k /\ n + 1 \in 0..m /\ n + 1 # 0 /\ (n + 1) - 1 = n /\ g[n] = h[n]
      OBVIOUS
    <2>2. QED
      BY <1>1, <2>1
  <1>4. Q \in SUBSET Nat
    OBVIOUS
  <1>5. \A n \in Nat : n \in Q
    <2> HIDE DEF Q
    <2>1. QED
      BY <1>2, <1>3, <1>4, SetInduction
  <1>6. QED
    BY <1>5

\* decode/2 is defined for any number of rounds.
LEMMA DecodeFunction ==
    /\ decode[0] = Ended
    /\ \A n \in Nat : decode[n + 1] = Decoding(decode[n])
  <1> DEFINE Is(g) == g = [n \in Nat |-> IF n = 0 THEN Ended ELSE Decoding(g[n - 1])]
             G(k) == CHOOSE h : Rounds(k, h)
  <1>1. \A k \in Nat : Rounds(k, G(k))
    BY RoundsExist
  <1> DEFINE f == [k \in Nat |-> G(k)[k]]
  <1> HIDE DEF G
  <1>2. ASSUME NEW k \in Nat PROVE f[k] = IF k = 0 THEN Ended ELSE Decoding(f[k - 1])
    <2>1. CASE k = 0
      <3>1. f[0] = G(0)[0] /\ Rounds(0, G(0))
        BY <1>1
      <3>2. QED
        BY <2>1, <3>1 DEF Rounds
    <2>2. CASE k # 0
      <3>1. PICK m \in Nat : m = k - 1
        BY <2>2
      <3>2. f[k] = G(k)[k] /\ Rounds(k, G(k)) /\ f[m] = G(m)[m] /\ Rounds(m, G(m))
        BY <1>1
      <3>3. G(k)[k] = Decoding(G(k)[m])
        BY <2>2, <3>1, <3>2 DEF Rounds
      <3>4. G(m)[m] = G(k)[m]
        <4>1. m <= k /\ m \in 0..m
          BY <3>1
        <4>2. PICK g, h : g = G(m) /\ h = G(k)
          OBVIOUS
        <4>3. \A n \in 0..m : g[n] = h[n]
          BY <3>2, <4>1, <4>2, RoundsSame
        <4>4. QED
          BY <4>1, <4>2, <4>3
      <3>5. QED
        BY <2>2, <3>1, <3>2, <3>3, <3>4
    <2>3. QED
      BY <2>1, <2>2
  <1>3. Is(f)
    <2>1. f = [k \in Nat |-> f[k]]
      OBVIOUS
    <2> HIDE DEF f
    <2>2. QED
      BY <1>2, <2>1
  <1>4. Is(decode)
    <2>0. \A n \in Nat : \A h : (IF n = 0 THEN Ended ELSE Decoding(h)) =
              [p \in Seq(Bytes) \X Nat |->
                  IF n = 0 THEN [elems |-> <<>>, rest |-> <<>>] ELSE decode_elems(p[1], p[2], h)]
      BY DEF Ended, Decoding, Str
    <2>1. decode = CHOOSE g : Is(g)
      <3> DEFINE Form(n, h) == [p \in Seq(Bytes) \X Nat |->
                  IF n = 0 THEN [elems |-> <<>>, rest |-> <<>>] ELSE decode_elems(p[1], p[2], h)]
                 Other(g) == g = [n \in Nat |-> Form(n, g[n - 1])]
      <3>1. \A g : Is(g) <=> Other(g)
        <4> HIDE DEF Form
        <4>1. \A n \in Nat : \A h : (IF n = 0 THEN Ended ELSE Decoding(h)) = Form(n, h)
          BY <2>0 DEF Form
        <4>2. QED
          BY <4>1
      <3>2. decode = CHOOSE g : Other(g)
        BY DEF decode
      <3> HIDE DEF Is, Other
      <3>3. QED
        BY <3>1, <3>2
    <2>2. \E g : Is(g)
      BY <1>3
    <2> HIDE DEF Is
    <2>3. QED
      BY <2>1, <2>2, Zenon
  <1>5. QED
    BY <1>4


\* One round of decode/2.
LEMMA DecodeSteps ==
    ASSUME NEW s \in Str, NEW d \in Nat, NEW n \in Nat
    PROVE  /\ decode[0][<<s, d>>] = [elems |-> <<>>, rest |-> <<>>]
           /\ decode[n + 1][<<s, d>>] = decode_elems(s, d, decode[n])
  <1>0. <<s, d>> \in Str \X Nat
    OBVIOUS
  <1>1. PICK p \in Str \X Nat : p = <<s, d>> /\ p[1] = s /\ p[2] = d
    BY <1>0
  <1>2. Ended[p] = [elems |-> <<>>, rest |-> <<>>]
    BY DEF Ended
  <1>3. \A h : Decoding(h)[p] = decode_elems(s, d, h)
    BY <1>1 DEF Decoding
  <1>4. QED
    BY <1>1, <1>2, <1>3, DecodeFunction

\* Joined strings are cut where they were joined.
LEMMA SplitCat ==
    ASSUME NEW s \in Str, NEW x \in Str
    PROVE  SubSeq(Cat(s, x), 1, Len(s)) = s /\ From(Cat(s, x), Len(s) + 1) = x
  <1>1. PICK m \in Nat, n \in Nat : m = Len(s) /\ n = Len(x)
    BY StrFacts
  <1>2. s \in Seq(Bytes) /\ x \in Seq(Bytes)
    BY DEF Str
  <1>3. PICK u : u = Cat(s, x)
    OBVIOUS
  <1>4. /\ u \in Seq(Bytes) /\ Len(u) = m + n
        /\ \A i \in 1..(m + n) : u[i] = IF i <= m THEN s[i] ELSE x[i - m]
    <2>1. u = s \o x
      BY <1>3 DEF Cat
    <2>2. /\ u \in Seq(Bytes) /\ Len(u) = Len(s) + Len(x)
          /\ \A i \in 1..(Len(s) + Len(x)) : u[i] = IF i <= Len(s) THEN s[i] ELSE x[i - Len(s)]
      BY <1>2, <2>1, ConcatProperties
    <2>3. QED
      BY <1>1, <2>2
  <1>5. SubSeq(u, 1, m) = s
    <2>1. PICK a : a = SubSeq(u, 1, m)
      OBVIOUS
    <2>2. \A i \in 1..m : u[i] \in Bytes
      BY <1>4
    <2>3. a \in Seq(Bytes) /\ Len(a) = m /\ \A i \in 1..m : a[i] = u[i]
      BY <1>4, <2>1, <2>2, SubSeqProperties
    <2>4. \A i \in 1..m : a[i] = s[i]
      BY <1>4, <2>3
    <2>5. QED
      BY <1>1, <1>2, <2>1, <2>3, <2>4, SeqEqual
  <1>6. SubSeq(u, m + 1, m + n) = x
    <2>1. PICK a : a = SubSeq(u, m + 1, m + n)
      OBVIOUS
    <2>2. \A i \in (m + 1)..(m + n) : u[i] \in Bytes
      BY <1>4
    <2>3. a \in Seq(Bytes) /\ Len(a) = n /\ \A i \in 1..n : a[i] = u[m + i]
      <3>1. CASE n = 0
        BY <1>4, <2>1, <3>1
      <3>2. CASE n # 0
        <4>1. a \in Seq(Bytes) /\ Len(a) = (m + n) - (m + 1) + 1
                /\ \A i \in 1..((m + n) - (m + 1) + 1) : a[i] = u[(m + 1) + i - 1]
          BY <1>4, <2>1, <2>2, <3>2, SubSeqProperties
        <4>2. QED
          BY <4>1
      <3>3. QED
        BY <3>1, <3>2
    <2>4. ASSUME NEW i \in 1..n PROVE a[i] = x[i]
      <3>1. m + i \in 1..(m + n) /\ ~(m + i <= m) /\ (m + i) - m = i
        OBVIOUS
      <3>2. QED
        BY <1>4, <2>3, <3>1
    <2>5. QED
      BY <1>1, <1>2, <2>1, <2>3, <2>4, SeqEqual
  <1>7. QED
    BY <1>1, <1>3, <1>4, <1>5, <1>6 DEF From

\* What decode_elem makes of each code.
LEMMA DecStrings ==
    ASSUME NEW r
    PROVE  /\ decode_elem(BYTES, r) = [elem |-> <<"bytes", dec_null_terminated[r].bin>>,
                                       rest |-> dec_null_terminated[r].rest]
           /\ decode_elem(UTF8, r) = [elem |-> <<"utf8", dec_null_terminated[r].bin>>,
                                      rest |-> dec_null_terminated[r].rest]
  <1>1. /\ \A c \in {BYTES, UTF8} : /\ c # NEG_INT_9P /\ c # POS_INT_9P
                                   /\ c \notin (NEG_INT_9P + 1)..(ZERO - 1)
                                   /\ c \notin ZERO..(POS_INT_9P - 1)
                                   /\ c \notin {FALSE_, TRUE_}
        /\ BYTES # UTF8
    BY Codes, ByteNumbers
  <1>2. QED
    BY <1>1 DEF decode_elem

\* decode/2 of the codes of false and true.
LEMMA DecBools ==
    ASSUME NEW r
    PROVE  /\ decode_elem(FALSE_, r) = [elem |-> <<"bool", FALSE>>, rest |-> r]
           /\ decode_elem(TRUE_, r) = [elem |-> <<"bool", TRUE>>, rest |-> r]
  <1>1. /\ \A c \in {FALSE_, TRUE_} : /\ c # BYTES /\ c # UTF8 /\ c # NEG_INT_9P /\ c # POS_INT_9P
                                      /\ c \notin (NEG_INT_9P + 1)..(ZERO - 1)
                                      /\ c \notin ZERO..(POS_INT_9P - 1)
        /\ FALSE_ # TRUE_
    BY Codes, ByteNumbers
  <1>2. QED
    BY <1>1 DEF decode_elem

\* decode/2 of the types of fixed length.
LEMMA DecFixed ==
    ASSUME NEW t \in Fixeds, NEW r
    PROVE  decode_elem(Fixed[t], r) = [elem |-> <<t, SubSeq(r, 1, Size(t))>>, rest |-> From(r, Size(t) + 1)]
  <1>1. PICK c \in Bytes : c = Fixed[t] /\ c > POS_INT_9P + 2
    BY FixedFacts
  <1>2. /\ c # BYTES /\ c # UTF8 /\ c # NEG_INT_9P /\ c # POS_INT_9P
        /\ c \notin (NEG_INT_9P + 1)..(ZERO - 1)
        /\ c \notin ZERO..(POS_INT_9P - 1) /\ c \notin {FALSE_, TRUE_}
    BY <1>1, Codes, ByteNumbers
  <1>3. (CHOOSE u \in DOMAIN Fixed : Fixed[u] = c) = t
    <2>1. t \in DOMAIN Fixed /\ \A u \in DOMAIN Fixed : Fixed[u] = c => u = t
      BY <1>1, FixedFacts
    <2>2. QED
      BY <1>1, <2>1
  <1>4. FixedLen(c) = Size(t)
    BY <1>1 DEF Size
  <1>5. decode_elem(c, r) = [elem |-> <<CHOOSE u \in DOMAIN Fixed : Fixed[u] = c, SubSeq(r, 1, FixedLen(c))>>,
                             rest |-> From(r, FixedLen(c) + 1)]
    BY <1>2 DEF decode_elem
  <1>6. QED
    BY <1>1, <1>3, <1>4, <1>5

\* decode/2 of integers, by their codes.
LEMMA DecInts ==
    ASSUME NEW c, NEW r
    PROVE  /\ c = NEG_INT_9P => decode_elem(c, r) = dec_neg_int(Tail(r), ESCAPE - Head(r))
           /\ c = POS_INT_9P => decode_elem(c, r) = dec_pos_int(Tail(r), Head(r))
           /\ c \in (NEG_INT_9P + 1)..(ZERO - 1) => decode_elem(c, r) = dec_neg_int(r, ZERO - c)
           /\ c \in ZERO..(POS_INT_9P - 1) => decode_elem(c, r) = dec_pos_int(r, c - ZERO)
  <1>1. /\ ZERO \in Nat /\ NEG_INT_9P \in Nat /\ POS_INT_9P \in Nat
        /\ NEG_INT_9P < ZERO /\ ZERO < POS_INT_9P /\ 3 < NEG_INT_9P /\ BYTES = 1 /\ UTF8 = 2
        /\ FALSE_ = POS_INT_9P + 1 /\ TRUE_ = POS_INT_9P + 2
    BY Codes, ByteNumbers
  <1>2. CASE c = NEG_INT_9P
    <2>1. c # BYTES /\ c # UTF8 /\ c \notin {FALSE_, TRUE_} /\ c # POS_INT_9P /\ c \notin (NEG_INT_9P + 1)..(ZERO - 1)
             /\ c \notin ZERO..(POS_INT_9P - 1)
      BY <1>1, <1>2
    <2>2. QED
      BY <1>2, <2>1 DEF decode_elem, NegSize
  <1>3. CASE c = POS_INT_9P
    <2>1. c # BYTES /\ c # UTF8 /\ c \notin {FALSE_, TRUE_} /\ c # NEG_INT_9P /\ c \notin (NEG_INT_9P + 1)..(ZERO - 1)
             /\ c \notin ZERO..(POS_INT_9P - 1)
      BY <1>1, <1>3
    <2>2. QED
      BY <1>3, <2>1 DEF decode_elem
  <1>4. CASE c \in (NEG_INT_9P + 1)..(ZERO - 1)
    <2>1. c # BYTES /\ c # UTF8 /\ c \notin {FALSE_, TRUE_} /\ c # NEG_INT_9P /\ c # POS_INT_9P /\ c \notin ZERO..(POS_INT_9P - 1)
      BY <1>1, <1>4
    <2>2. QED
      BY <1>4, <2>1 DEF decode_elem
  <1>5. CASE c \in ZERO..(POS_INT_9P - 1)
    <2>1. c # BYTES /\ c # UTF8 /\ c \notin {FALSE_, TRUE_} /\ c # NEG_INT_9P /\ c # POS_INT_9P
             /\ c \notin (NEG_INT_9P + 1)..(ZERO - 1)
      BY <1>1, <1>5
    <2>2. QED
      BY <1>5, <2>1 DEF decode_elem
  <1>6. QED
    BY <1>2, <1>3, <1>4, <1>5

\* dec_pos_int/3 and dec_neg_int/3 cut the bytes off.
LEMMA DecNumber ==
    ASSUME NEW s \in Str, NEW x \in Str
    PROVE  /\ dec_pos_int(Cat(s, x), Len(s)) = [elem |-> <<"int", Unsigned[s]>>, rest |-> x]
           /\ dec_neg_int(Cat(s, x), Len(s)) = [elem |-> <<"int", Unsigned[s] - Power[Len(s)] + 1>>, rest |-> x]
  <1>1. SubSeq(Cat(s, x), 1, Len(s)) = s /\ From(Cat(s, x), Len(s) + 1) = x
    BY SplitCat
  <1>2. QED
    BY <1>1 DEF dec_pos_int, dec_neg_int

\* They undo the encoding of the bytes.
LEMMA BinBack ==
    ASSUME NEW n \in Ints
    PROVE  /\ n >= 0 => Unsigned[Bin(n)] = n
           /\ n < 0 => Unsigned[Inverted(Bin(n))] - Power[Len(Bin(n))] + 1 = n
  <1>1. PICK s \in Str : s = Bin(n) /\ n \in Int /\ Abs(n) \in Nat
    BY BinFacts
  <1>2. Unsigned[s] = Abs(n)
    BY <1>1, NumberBack DEF Bin
  <1>3. Unsigned[Inverted(s)] + Unsigned[s] = Power[Len(s)] - 1
    BY InvertedNumber
  <1>4. PICK a \in Nat, p \in Nat : a = Unsigned[Inverted(s)] /\ p = Power[Len(s)]
    BY InvertedStr, StrFacts, UnsignedFacts, PowerFacts
  <1>5. a + Abs(n) = p - 1
    BY <1>2, <1>3, <1>4
  <1>6. (n >= 0 => Abs(n) = n) /\ (n < 0 => Abs(n) = -n)
    BY <1>1 DEF Abs
  <1>7. n < 0 => a - p + 1 = n
    BY <1>1, <1>5, <1>6
  <1>8. QED
    BY <1>1, <1>2, <1>4, <1>6, <1>7

\* The element that the bytes begin with comes back, and what follows it.
Decodes(e, s, x) ==
    \E c \in Bytes, q \in Str :
        /\ s = Cat(One(c), q) /\ c # NULL /\ c # NESTED
        /\ decode_elem(c, Cat(q, x)) = [elem |-> e, rest |-> x]

\* decode/2 of an encoded integer.
LEMMA DecodesInt ==
    ASSUME NEW n \in Ints, NEW x \in Str
    PROVE  Decodes(<<"int", n>>, encode_int(n), x)
  <1>1. PICK s \in Str : s = Bin(n)
    BY BinFacts
  <1>2. PICK k \in Nat : k = Len(s) /\ 1 <= k /\ k <= ESCAPE /\ n \in Int
    BY <1>1, BinFacts
  <1>3. PICK t \in Str : t = Inverted(s) /\ Len(t) = k
    BY <1>2, InvertedStr
  <1>4. /\ MaxFixed \in Nat /\ MaxFixed > 0 /\ ESCAPE \in Nat /\ NULL = 0 /\ NESTED = 3 /\ ZERO = MaxFixed + 5
        /\ NEG_INT_9P = 4 /\ POS_INT_9P = 2 * MaxFixed + 6
        /\ ZERO \in Bytes /\ NEG_INT_9P \in Bytes /\ POS_INT_9P \in Bytes
    BY Codes, ByteNumbers
  <1>5. dec_pos_int(Cat(s, x), k) = [elem |-> <<"int", Unsigned[s]>>, rest |-> x]
    BY <1>2, DecNumber
  <1>6. dec_neg_int(Cat(t, x), k) = [elem |-> <<"int", Unsigned[t] - Power[k] + 1>>, rest |-> x]
    BY <1>3, DecNumber
  <1>7. CASE n = 0
    <2>1. encode_int(n) = Cat(One(ZERO), <<>>) /\ <<>> \in Str
      BY <1>1, <1>2, <1>4, <1>7, IntCases, OneStr, CatStr, StrConcat
    <2>2. dec_pos_int(Cat(<<>>, x), Len(<<>>)) = [elem |-> <<"int", Unsigned[<<>>]>>, rest |-> x]
      BY <2>1, DecNumber
    <2>3. Unsigned[<<>>] = 0 /\ Len(<<>>) = 0
      BY UnsignedFacts
    <2>4. decode_elem(ZERO, Cat(<<>>, x)) = dec_pos_int(Cat(<<>>, x), 0)
      <3>1. ZERO \in ZERO..(POS_INT_9P - 1) /\ ZERO - ZERO = 0
        BY <1>4
      <3>2. QED
        BY <3>1, DecInts
    <2>5. decode_elem(ZERO, Cat(<<>>, x)) = [elem |-> <<"int", n>>, rest |-> x]
      BY <1>7, <2>2, <2>3, <2>4
    <2>6. ZERO # NULL /\ ZERO # NESTED
      BY <1>4
    <2>7. QED
      BY <1>4, <2>1, <2>5, <2>6 DEF Decodes
  <1>8. CASE n > 0 /\ k <= MaxFixed
    <2>1. PICK c \in Bytes : c = ZERO + k /\ encode_int(n) = Cat(One(c), s)
      BY <1>1, <1>2, <1>8, IntCases
    <2>2. c \in ZERO..(POS_INT_9P - 1) /\ c - ZERO = k /\ c # NULL /\ c # NESTED
      BY <1>2, <1>4, <1>8, <2>1
    <2>3. decode_elem(c, Cat(s, x)) = dec_pos_int(Cat(s, x), k)
      BY <2>2, DecInts
    <2>4. decode_elem(c, Cat(s, x)) = [elem |-> <<"int", n>>, rest |-> x]
      BY <1>1, <1>2, <1>5, <1>8, <2>3, BinBack
    <2>5. QED
      BY <2>1, <2>2, <2>4 DEF Decodes
  <1>9. CASE n > 0 /\ k > MaxFixed
    <2>1. k \in Bytes /\ encode_int(n) = Cat(One(POS_INT_9P), Cat(One(k), s))
      BY <1>1, <1>2, <1>9, IntCases
    <2>2. PICK q \in Str : q = Cat(One(k), s)
      BY <2>1, OneStr, CatStr
    <2>3. PICK r \in Str : r = Cat(s, x)
      BY CatStr
    <2>4. Cat(q, x) = Cat(One(k), r)
      BY <2>1, <2>2, <2>3, OneStr, CatStr
    <2>5. Head(Cat(q, x)) = k /\ Tail(Cat(q, x)) = r
      BY <2>1, <2>4, HeadTail
    <2>6. decode_elem(POS_INT_9P, Cat(q, x)) = dec_pos_int(r, k)
      BY <2>5, DecInts
    <2>7. decode_elem(POS_INT_9P, Cat(q, x)) = [elem |-> <<"int", n>>, rest |-> x]
      BY <1>1, <1>2, <1>5, <1>9, <2>3, <2>6, BinBack
    <2>8. POS_INT_9P # NULL /\ POS_INT_9P # NESTED
      BY <1>4
    <2>9. QED
      BY <1>4, <2>1, <2>2, <2>7, <2>8 DEF Decodes
  <1>10. CASE n < 0 /\ k <= MaxFixed
    <2>1. PICK c \in Bytes : c = ZERO - k /\ encode_int(n) = Cat(One(c), t)
      BY <1>1, <1>2, <1>3, <1>10, IntCases
    <2>2. c \in (NEG_INT_9P + 1)..(ZERO - 1) /\ ZERO - c = k /\ c # NULL /\ c # NESTED
      BY <1>2, <1>4, <1>10, <2>1
    <2>3. decode_elem(c, Cat(t, x)) = dec_neg_int(Cat(t, x), k)
      BY <2>2, DecInts
    <2>4. decode_elem(c, Cat(t, x)) = [elem |-> <<"int", n>>, rest |-> x]
      BY <1>1, <1>2, <1>3, <1>6, <1>10, <2>3, BinBack
    <2>5. QED
      BY <2>1, <2>2, <2>4 DEF Decodes
  <1>11. CASE n < 0 /\ k > MaxFixed
    <2>1. PICK b \in Bytes : b = ESCAPE - k /\ encode_int(n) = Cat(One(NEG_INT_9P), Cat(One(b), t))
      BY <1>1, <1>2, <1>3, <1>11, IntCases
    <2>2. PICK q \in Str : q = Cat(One(b), t)
      BY OneStr, CatStr
    <2>3. PICK r \in Str : r = Cat(t, x)
      BY CatStr
    <2>4. Cat(q, x) = Cat(One(b), r)
      BY <2>2, <2>3, OneStr, CatStr
    <2>5. Head(Cat(q, x)) = b /\ Tail(Cat(q, x)) = r /\ ESCAPE - b = k
      <3>1. ESCAPE - b = k
        BY <1>2, <1>4, <2>1
      <3>2. QED
        BY <2>4, <3>1, HeadTail
    <2>6. decode_elem(NEG_INT_9P, Cat(q, x)) = dec_neg_int(r, k)
      BY <2>5, DecInts
    <2>7. decode_elem(NEG_INT_9P, Cat(q, x)) = [elem |-> <<"int", n>>, rest |-> x]
      BY <1>1, <1>2, <1>3, <1>6, <1>11, <2>3, <2>6, BinBack
    <2>8. NEG_INT_9P # NULL /\ NEG_INT_9P # NESTED
      BY <1>4
    <2>9. QED
      BY <1>4, <2>1, <2>2, <2>7, <2>8 DEF Decodes
  <1>12. QED
    BY <1>2, <1>4, <1>7, <1>8, <1>9, <1>10, <1>11

\* decode/2 of an encoded element that is not nested.
LEMMA DecodesFlat ==
    ASSUME NEW e \in Elems, e[1] # "tuple", e[1] # "null", NEW d \in Nat, NEW x \in Conts
    PROVE  Decodes(e, encode[e][d], x)
  <1>0. x \in Str
    BY ContsFacts
  <1>1. PICK g : g = encode
    OBVIOUS
  <1>2. encode[e][d] = encode_elem(e, d, g)
    BY <1>1, EncodeFunction
  <1>3. /\ BYTES \in Bytes /\ BYTES # NULL /\ BYTES # NESTED /\ UTF8 \in Bytes /\ UTF8 # NULL /\ UTF8 # NESTED
        /\ TRUE_ \in Bytes /\ TRUE_ # NULL /\ TRUE_ # NESTED /\ FALSE_ \in Bytes /\ FALSE_ # NULL /\ FALSE_ # NESTED
    BY Codes, ByteNumbers
  <1>4. ASSUME NEW n \in Ints, e = <<"int", n>> PROVE Decodes(e, encode[e][d], x)
    <2>1. encode[e][d] = encode_int(n)
      BY <1>2, <1>4, EncInt
    <2>2. QED
      BY <1>0, <1>4, <2>1, DecodesInt
  <1>5. ASSUME NEW b \in BOOLEAN, e = <<"bool", b>> PROVE Decodes(e, encode[e][d], x)
    <2>1. PICK c \in Bytes : c = (IF b THEN TRUE_ ELSE FALSE_) /\ c # NULL /\ c # NESTED
      BY <1>3
    <2>2. encode[e][d] = Cat(One(c), <<>>) /\ <<>> \in Str /\ Cat(<<>>, x) = x
      <3>1. encode_elem(<<"bool", b>>, d, g) = One(IF b THEN TRUE_ ELSE FALSE_)
        BY EncBool
      <3>2. encode[e][d] = One(c)
        BY <1>2, <1>5, <2>1, <3>1, Zenon
      <3>3. QED
        BY <1>0, <3>2, OneStr, CatStr, StrConcat
    <2>3. decode_elem(c, x) = [elem |-> <<"bool", b>>, rest |-> x]
      <3>1. CASE b = TRUE
        <4>1. c = TRUE_
          BY <2>1, <3>1
        <4>2. decode_elem(c, x) = [elem |-> <<"bool", TRUE>>, rest |-> x]
          BY <4>1, DecBools
        <4>3. QED
          BY <3>1, <4>2, Zenon
      <3>2. CASE b = FALSE
        <4>1. c = FALSE_
          BY <2>1, <3>2
        <4>2. decode_elem(c, x) = [elem |-> <<"bool", FALSE>>, rest |-> x]
          BY <4>1, DecBools
        <4>3. QED
          BY <3>2, <4>2, Zenon
      <3>3. QED
        BY <3>1, <3>2
    <2>4. QED
      BY <1>5, <2>1, <2>2, <2>3 DEF Decodes
  <1>6. ASSUME NEW s \in Str, e = <<"bytes", s>> PROVE Decodes(e, encode[e][d], x)
    <2>1. PICK q \in Str : q = enc_null_terminated(s)
      BY EscsStr
    <2>2. encode[e][d] = Cat(One(BYTES), q)
      BY <1>2, <1>6, <2>1, EncBytes
    <2>3. dec_null_terminated[Cat(q, x)] = [bin |-> s, rest |-> x]
      BY <2>1, NullDecoded
    <2>4. decode_elem(BYTES, Cat(q, x)) = [elem |-> e, rest |-> x]
      BY <1>6, <2>3, DecStrings
    <2>5. QED
      BY <1>3, <2>2, <2>4 DEF Decodes
  <1>7. ASSUME NEW s \in Str, e = <<"utf8", s>> PROVE Decodes(e, encode[e][d], x)
    <2>1. PICK q \in Str : q = enc_null_terminated(s)
      BY EscsStr
    <2>2. encode[e][d] = Cat(One(UTF8), q)
      BY <1>2, <1>7, <2>1, EncBytes
    <2>3. dec_null_terminated[Cat(q, x)] = [bin |-> s, rest |-> x]
      BY <2>1, NullDecoded
    <2>4. decode_elem(UTF8, Cat(q, x)) = [elem |-> e, rest |-> x]
      BY <1>7, <2>3, DecStrings
    <2>5. QED
      BY <1>3, <2>2, <2>4 DEF Decodes
  <1>8. ASSUME NEW t \in Fixeds, NEW s \in Str, Len(s) = Size(t), e = <<t, s>> PROVE Decodes(e, encode[e][d], x)
    <2>1. PICK c \in Bytes : c = Fixed[t] /\ c > POS_INT_9P + 2
      BY FixedFacts
    <2>2. c # NULL /\ c # NESTED
      BY <2>1, Codes, ByteNumbers
    <2>3. encode[e][d] = Cat(One(c), s)
      BY <1>2, <1>8, <2>1, EncFixed
    <2>4. SubSeq(Cat(s, x), 1, Size(t)) = s /\ From(Cat(s, x), Size(t) + 1) = x
      BY <1>0, <1>8, SplitCat
    <2>5. decode_elem(c, Cat(s, x)) = [elem |-> e, rest |-> x]
      BY <1>8, <2>1, <2>4, DecFixed
    <2>6. QED
      BY <2>1, <2>2, <2>3, <2>5 DEF Decodes
  <1>9. QED
    <2>1. e # <<"null", 0>> /\ \A v : e # <<"tuple", v>>
      OBVIOUS
    <2>2. QED
      BY <1>4, <1>5, <1>6, <1>7, <1>8, <2>1, CodeFor

\* Induction on sequences, with sets.
LEMMA SeqInduction ==
    ASSUME NEW T, NEW S \in SUBSET Seq(T), <<>> \in S, \A s \in S, e \in T : Append(s, e) \in S
    PROVE  \A s \in Seq(T) : s \in S
  <1> DEFINE Q == {n \in Nat : \A s \in Seq(T) : Len(s) = n => s \in S}
  <1>1. 0 \in Q
    <2>1. \A s \in Seq(T) : Len(s) = 0 => s = <<>>
      BY EmptySeq
    <2>2. QED
      BY <2>1
  <1>2. ASSUME NEW n \in Q PROVE n + 1 \in Q
    <2> SUFFICES ASSUME NEW s \in Seq(T), Len(s) = n + 1 PROVE s \in S
      OBVIOUS
    <2>1. PICK i \in 1..Len(s) : i = Len(s) /\ i = n + 1 /\ n \in Nat /\ s[i] \in T
      OBVIOUS
    <2>2. PICK f \in Seq(T) : /\ f = SubSeq(s, 1, i - 1) /\ SubSeq(s, i + 1, Len(s)) \in Seq(T)
                              /\ s = Append(f, s[i]) \o SubSeq(s, i + 1, Len(s))
      BY SplitAt
    <2>3. SubSeq(s, i + 1, Len(s)) = <<>>
      BY <2>1, SubSeqEmpty
    <2>4. PICK a \in Seq(T) : a = Append(f, s[i])
      BY <2>1, AppendFacts
    <2>5. s = a
      BY <2>2, <2>3, <2>4, ConcatEmptySeq
    <2>6. Len(f) = n
      <3>1. Len(a) = Len(f) + 1 /\ Len(f) \in Nat
        BY <2>1, <2>4, AppendFacts
      <3>2. QED
        BY <2>1, <2>5, <3>1
    <2>7. f \in S
      BY <2>6
    <2>8. QED
      BY <2>1, <2>4, <2>5, <2>7
  <1>3. Q \in SUBSET Nat
    OBVIOUS
  <1>4. \A n \in Nat : n \in Q
    <2> HIDE DEF Q
    <2>1. QED
      BY <1>1, <1>2, <1>3, SetInduction
  <1>5. \A s \in Seq(T) : Len(s) \in Nat
    OBVIOUS
  <1>6. QED
    BY <1>4, <1>5

\* An element, and what is decoded after it.
Then(e, rest, d, h) == [elems |-> <<e>> \o h[<<rest, d>>].elems, rest |-> h[<<rest, d>>].rest]

\* decode/2 of a zero byte.
LEMMA ElemsNull ==
    ASSUME NEW r \in Str, NEW d \in Nat, NEW h
    PROVE  /\ d = 0 => decode_elems(Cat(One(NULL), r), d, h) = Then(<<"null", 0>>, r, d, h)
           /\ d # 0 /\ r # <<>> /\ Head(r) = ESCAPE =>
                  decode_elems(Cat(One(NULL), r), d, h) = Then(<<"null", 0>>, Tail(r), d, h)
           /\ d # 0 /\ ~(r # <<>> /\ Head(r) = ESCAPE) =>
                  decode_elems(Cat(One(NULL), r), d, h) = [elems |-> <<>>, rest |-> r]
  <1>1. PICK s \in Str : s = Cat(One(NULL), r) /\ s # <<>> /\ Head(s) = NULL /\ Tail(s) = r
    BY HeadTail, Codes
  <1>2. NULL # NESTED
    BY Codes
  <1>3. CASE d = 0
    <2>1. ~(d > 0)
      BY <1>3
    <2>2. QED
      BY <1>1, <1>2, <1>3, <2>1 DEF decode_elems, Then
  <1>4. CASE d # 0
    <2>1. d > 0
      BY <1>4
    <2>2. decode_elems(s, d, h) = IF r # <<>> /\ Head(r) = ESCAPE THEN Then(<<"null", 0>>, Tail(r), d, h)
                                  ELSE [elems |-> <<>>, rest |-> r]
      BY <1>1, <1>2, <1>4, <2>1 DEF decode_elems, Then
    <2>3. QED
      BY <1>1, <1>4, <2>2
  <1>5. QED
    BY <1>3, <1>4

\* decode/2 of a nested tuple.
LEMMA ElemsNested ==
    ASSUME NEW r \in Str, NEW d \in Nat, NEW h
    PROVE  decode_elems(Cat(One(NESTED), r), d, h) =
              Then(<<"tuple", h[<<r, d + 1>>].elems>>, h[<<r, d + 1>>].rest, d, h)
  <1>1. PICK s \in Str : s = Cat(One(NESTED), r) /\ s # <<>> /\ Head(s) = NESTED /\ Tail(s) = r
    BY HeadTail, Codes
  <1>2. NULL # NESTED
    BY Codes
  <1>3. QED
    BY <1>1, <1>2 DEF decode_elems, Then

\* decode/2 of everything else.
LEMMA ElemsOther ==
    ASSUME NEW c \in Bytes, NEW r \in Str, NEW d \in Nat, NEW h, c # NULL, c # NESTED
    PROVE  decode_elems(Cat(One(c), r), d, h) = Then(decode_elem(c, r).elem, decode_elem(c, r).rest, d, h)
  <1>1. PICK s \in Str : s = Cat(One(c), r) /\ s # <<>> /\ Head(s) = c /\ Tail(s) = r
    BY HeadTail
  <1>2. QED
    BY <1>1 DEF decode_elems, Then

\* decode/2 at the end.
LEMMA ElemsEnd ==
    ASSUME NEW d, NEW h
    PROVE  decode_elems(<<>>, d, h) = [elems |-> <<>>, rest |-> <<>>]
  BY DEF decode_elems

\* However many rounds there are for the bytes, the elements t come from them and x is left.
Yields(y, d, t, x) ==
    \A m \in Nat : Len(y) <= m => decode[m][<<y, d>>] = [elems |-> t, rest |-> x]

\* Nothing comes from no bytes.
LEMMA YieldsEnd == ASSUME NEW d \in Nat PROVE Yields(<<>>, d, <<>>, <<>>)
  <1> SUFFICES ASSUME NEW m \in Nat PROVE decode[m][<<<<>>, d>>] = [elems |-> <<>>, rest |-> <<>>]
    BY DEF Yields
  <1>0. PICK z \in Str : z = <<>>
    BY StrConcat
  <1>1. CASE m = 0
    BY <1>0, <1>1, DecodeSteps
  <1>2. CASE m # 0
    <2>1. PICK n \in Nat : m = n + 1
      BY <1>2
    <2>2. decode[n + 1][<<z, d>>] = decode_elems(z, d, decode[n])
      BY DecodeSteps
    <2>3. QED
      BY <1>0, <2>1, <2>2, ElemsEnd
  <1>3. QED
    BY <1>1, <1>2

\* Bytes that begin with one of their own are decoded in one round and those of the rest.
LEMMA YieldsStep ==
    ASSUME NEW s \in Str, s # <<>>, NEW d \in Nat, NEW t, NEW x,
           \A n \in Nat : Len(s) <= n + 1 => decode_elems(s, d, decode[n]) = [elems |-> t, rest |-> x]
    PROVE  Yields(s, d, t, x)
  <1> SUFFICES ASSUME NEW m \in Nat, Len(s) <= m
               PROVE  decode[m][<<s, d>>] = [elems |-> t, rest |-> x]
    BY DEF Yields
  <1>1. Len(s) \in Nat /\ Len(s) > 0
    BY StrFacts
  <1>2. PICK n \in Nat : m = n + 1
    BY <1>1
  <1>3. decode[n + 1][<<s, d>>] = decode_elems(s, d, decode[n])
    BY DecodeSteps
  <1>4. QED
    BY <1>2, <1>3

\* An element, and then those after it.
LEMMA YieldsThen ==
    ASSUME NEW n \in Nat, NEW e, NEW y \in Str, NEW d, NEW t, NEW x, Yields(y, d, t, x), Len(y) <= n
    PROVE  Then(e, y, d, decode[n]) = [elems |-> <<e>> \o t, rest |-> x]
  <1>1. decode[n][<<y, d>>] = [elems |-> t, rest |-> x]
    BY DEF Yields
  <1>2. QED
    BY <1>1 DEF Then

\* The end of a nested tuple.
LEMMA YieldsNested ==
    ASSUME NEW d \in Nat, d # 0, NEW x \in Conts
    PROVE  Yields(Cat(One(NULL), x), d, <<>>, x)
  <1>1. x \in Str /\ ~(x # <<>> /\ Head(x) = ESCAPE)
    <2>1. x \in Seq(Bytes) /\ (x = <<>> \/ x[1] # ESCAPE)
      BY DEF Conts, Str
    <2>2. QED
      BY <2>1 DEF Str
  <1>2. PICK s \in Str : s = Cat(One(NULL), x) /\ s # <<>>
    BY <1>1, HeadTail, Codes
  <1>3. \A n \in Nat : decode_elems(s, d, decode[n]) = [elems |-> <<>>, rest |-> x]
    BY <1>1, <1>2, ElemsNull
  <1>4. QED
    BY <1>2, <1>3, YieldsStep

\* The length of joined strings.
LEMMA CatLen ==
    ASSUME NEW s \in Str, NEW t \in Str
    PROVE  /\ Cat(s, t) \in Str /\ Len(s) \in Nat /\ Len(t) \in Nat
           /\ Len(Cat(s, t)) = Len(s) + Len(t) /\ Len(t) <= Len(Cat(s, t))
  <1>1. Len(Cat(s, t)) = Len(s) + Len(t)
    BY ConcatProperties DEF Cat, Str
  <1>2. QED
    BY <1>1, CatStr, StrFacts

\* An element is decoded before anything that may follow it.
Back(e) ==
    \A d \in Nat, y \in Conts, t \in Seq(Elems), x \in Str :
        Yields(y, d, t, x) => Yields(Cat(encode[e][d], y), d, <<e>> \o t, x)

\* Elements that are not nested are decoded.
LEMMA BackFlat == ASSUME NEW e \in Elems, e[1] # "tuple", e[1] # "null" PROVE Back(e)
  <1> SUFFICES ASSUME NEW d \in Nat, NEW y \in Conts, NEW t \in Seq(Elems), NEW x \in Str, Yields(y, d, t, x)
               PROVE  Yields(Cat(encode[e][d], y), d, <<e>> \o t, x)
    BY DEF Back
  <1>1. y \in Str /\ Len(y) \in Nat
    BY ContsFacts, StrFacts
  <1>2. PICK c \in Bytes, q \in Str :
            /\ encode[e][d] = Cat(One(c), q) /\ c # NULL /\ c # NESTED
            /\ decode_elem(c, Cat(q, y)) = [elem |-> e, rest |-> y]
    BY DecodesFlat DEF Decodes
  <1>3. PICK r \in Str : r = Cat(q, y) /\ Len(y) <= Len(r) /\ Len(r) \in Nat
    BY <1>1, CatLen
  <1>4. PICK s \in Str : s = Cat(One(c), r) /\ s # <<>> /\ Len(s) = Len(r) + 1
    BY HeadTail
  <1>5. Cat(encode[e][d], y) = s
    BY <1>1, <1>2, <1>3, <1>4, OneStr, CatStr
  <1>6. ASSUME NEW n \in Nat, Len(s) <= n + 1
        PROVE  decode_elems(s, d, decode[n]) = [elems |-> <<e>> \o t, rest |-> x]
    <2>1. Len(y) <= n
      BY <1>1, <1>3, <1>4, <1>6
    <2>2. decode_elems(s, d, decode[n]) = Then(e, y, d, decode[n])
      <3>1. PICK h : h = decode[n]
        OBVIOUS
      <3>2. decode_elem(c, r).elem = e /\ decode_elem(c, r).rest = y
        BY <1>2, <1>3
      <3>3. decode_elems(Cat(One(c), r), d, h) = Then(decode_elem(c, r).elem, decode_elem(c, r).rest, d, h)
        BY <1>2, ElemsOther
      <3>4. QED
        BY <1>4, <3>1, <3>2, <3>3
    <2>3. QED
      BY <1>1, <2>1, <2>2, YieldsThen
  <1>7. Yields(s, d, <<e>> \o t, x)
    BY <1>4, <1>6, YieldsStep
  <1>8. QED
    BY <1>5, <1>7

\* The atom null is decoded, at every depth.
LEMMA BackNull == Back(<<"null", 0>>)
  <1>0. PICK e \in Elems : e = <<"null", 0>>
    BY FlatElems, FlatCases DEF FlatIs
  <1> SUFFICES ASSUME NEW d \in Nat, NEW y \in Conts, NEW t \in Seq(Elems), NEW x \in Str, Yields(y, d, t, x)
               PROVE  Yields(Cat(encode[e][d], y), d, <<e>> \o t, x)
    BY <1>0 DEF Back
  <1>1. y \in Str /\ Len(y) \in Nat
    BY ContsFacts, StrFacts
  <1>2. PICK g : g = encode
    OBVIOUS
  <1>3. encode[e][d] = IF d = 0 THEN One(NULL) ELSE Cat(One(NULL), One(ESCAPE))
    BY <1>0, <1>2, EncodeFunction, EncNull
  <1>4. NULL \in Bytes /\ ESCAPE \in Bytes
    BY Codes
  <1>5. CASE d = 0
    <2>1. PICK s \in Str : s = Cat(One(NULL), y) /\ s # <<>> /\ Len(s) = Len(y) + 1
      BY <1>1, <1>4, HeadTail
    <2>2. ASSUME NEW n \in Nat, Len(s) <= n + 1
          PROVE  decode_elems(s, d, decode[n]) = [elems |-> <<e>> \o t, rest |-> x]
      <3>1. Len(y) <= n
        BY <1>1, <2>1, <2>2
      <3>h. PICK h : h = decode[n]
        OBVIOUS
      <3>z. decode_elems(Cat(One(NULL), y), d, h) = Then(<<"null", 0>>, y, d, h)
        BY <1>1, <1>5, ElemsNull
      <3>2. decode_elems(s, d, decode[n]) = Then(e, y, d, decode[n])
        BY <1>0, <2>1, <3>h, <3>z
      <3>3. Then(e, y, d, decode[n]) = [elems |-> <<e>> \o t, rest |-> x]
        BY <1>1, <3>1, YieldsThen
      <3>4. QED
        BY <3>2, <3>3
    <2>3. Yields(s, d, <<e>> \o t, x)
      BY <2>1, <2>2, YieldsStep
    <2>4. QED
      BY <1>3, <1>5, <2>1, <2>3
  <1>6. CASE d # 0
    <2>1. PICK r \in Str : r = Cat(One(ESCAPE), y) /\ r # <<>> /\ Len(r) = Len(y) + 1 /\ Head(r) = ESCAPE /\ Tail(r) = y
      BY <1>1, <1>4, HeadTail
    <2>2. PICK s \in Str : s = Cat(One(NULL), r) /\ s # <<>> /\ Len(s) = Len(r) + 1
      BY <1>4, HeadTail
    <2>3. Cat(encode[e][d], y) = s
      <3>1. PICK a \in Str, b \in Str : a = One(NULL) /\ b = One(ESCAPE)
        BY <1>4, OneStr
      <3>2. Cat(Cat(a, b), y) = Cat(a, Cat(b, y))
        BY <1>1, CatStr
      <3>3. QED
        BY <1>3, <1>6, <2>1, <2>2, <3>1, <3>2
    <2>4. ASSUME NEW n \in Nat, Len(s) <= n + 1
          PROVE  decode_elems(s, d, decode[n]) = [elems |-> <<e>> \o t, rest |-> x]
      <3>1. Len(y) <= n
        BY <1>1, <2>1, <2>2, <2>4
      <3>2. decode_elems(s, d, decode[n]) = Then(e, y, d, decode[n])
        <4>1. PICK h : h = decode[n]
          OBVIOUS
        <4>2. decode_elems(Cat(One(NULL), r), d, h) = Then(<<"null", 0>>, Tail(r), d, h)
          BY <1>6, <2>1, ElemsNull
        <4>3. QED
          BY <1>0, <2>1, <2>2, <4>1, <4>2
      <3>3. QED
        BY <1>1, <3>1, <3>2, YieldsThen
    <2>5. Yields(s, d, <<e>> \o t, x)
      BY <2>2, <2>4, YieldsStep
    <2>6. QED
      BY <2>3, <2>5
  <1>7. QED
    BY <1>5, <1>6

\* An encoding may follow the end of a string.
LEMMA ElemConts ==
    ASSUME NEW e \in Elems, NEW d \in Nat, NEW y \in Str
    PROVE  Cat(encode[e][d], y) \in Conts
  <1>1. PICK c \in Bytes, r \in Str : encode[e][d] = Cat(One(c), r) /\ c # ESCAPE
    BY EncodeBegins DEF Begins
  <1>2. PICK o \in Str : o = One(c)
    BY OneStr
  <1>3. Cat(Cat(o, r), y) = Cat(o, Cat(r, y)) /\ Cat(r, y) \in Str
    BY CatStr
  <1>4. QED
    BY <1>1, <1>2, <1>3, ContsFacts

\* One more element is encoded at the end.
LEMMA EncsAppend ==
    ASSUME NEW v \in Seq(Elems), NEW e \in Elems, NEW d \in Nat
    PROVE  FlattenSeq(Encs(Append(v, e), d)) = Cat(FlattenSeq(Encs(v, d)), encode[e][d])
  <1>1. PICK n \in Nat : n = Len(v)
    OBVIOUS
  <1>2. PICK u : u = Append(v, e)
    OBVIOUS
  <1>3. u \in Seq(Elems) /\ Len(u) = n + 1 /\ u[n + 1] = e /\ \A i \in 1..n : u[i] = v[i]
    BY <1>1, <1>2, AppendFacts
  <1>4. PICK s \in Str : s = encode[e][d]
    BY EncodeBegins
  <1>5. PICK ss \in Seq(Str) : ss = Encs(v, d) /\ Len(ss) = n /\ \A i \in 1..n : ss[i] = encode[v[i]][d]
    BY <1>1, EncsFacts
  <1>6. PICK tt \in Seq(Str) : tt = Encs(u, d) /\ Len(tt) = n + 1
                                  /\ \A i \in 1..(n + 1) : tt[i] = encode[u[i]][d]
    <2>1. PICK tt : tt = Encs(u, d)
      OBVIOUS
    <2>2. tt \in Seq(Str) /\ Len(tt) = Len(u) /\ \A i \in 1..Len(u) : tt[i] = encode[u[i]][d]
      BY <1>3, <2>1, EncsFacts
    <2>3. QED
      BY <1>3, <2>1, <2>2
  <1>7. PICK w : w = Append(ss, s)
    OBVIOUS
  <1>8. w \in Seq(Str) /\ Len(w) = n + 1 /\ w[n + 1] = s /\ \A i \in 1..n : w[i] = ss[i]
    BY <1>5, <1>7, AppendFacts
  <1>9. ASSUME NEW i \in 1..(n + 1) PROVE tt[i] = w[i]
    <2>1. CASE i \in 1..n
      BY <1>3, <1>5, <1>6, <1>8, <2>1
    <2>2. CASE i = n + 1
      BY <1>3, <1>4, <1>6, <1>8, <2>2
    <2>3. QED
      BY <2>1, <2>2
  <1>10. tt = w
    BY <1>6, <1>8, <1>9, SeqEqual
  <1>11. FlattenSeq(w) = FlattenSeq(ss) \o s
    BY <1>7, FlattenAppend, StrStrings
  <1>12. QED
    BY <1>2, <1>4, <1>5, <1>6, <1>10, <1>11 DEF Cat

\* An element belongs to those before it or after it.
LEMMA AppendThen ==
    ASSUME NEW T, NEW v \in Seq(T), NEW e \in T, NEW t \in Seq(T)
    PROVE  /\ <<e>> \o t \in Seq(T)
           /\ v \o (<<e>> \o t) = Append(v, e) \o t
  <1>0. <<e>> \in Seq(T)
    OBVIOUS
  <1>1. PICK o \in Seq(T) : o = <<e>>
    BY <1>0
  <1>2. o \o t \in Seq(T)
    BY ConcatProperties
  <1>3. v \o (o \o t) = (v \o o) \o t
    BY ConcatAssociative
  <1>4. v \o o = Append(v, e)
    BY <1>1, AppendIsConcat
  <1>5. QED
    BY <1>1, <1>2, <1>3, <1>4

\* So are the elements of a tuple.
BackAll(v) ==
    \A d \in Nat, y \in Conts, t \in Seq(Elems), x \in Str :
        Yields(y, d, t, x) => Yields(Cat(FlattenSeq(Encs(v, d)), y), d, v \o t, x)

\* If elements are decoded, so are tuples of them.
LEMMA BackSeq ==
    ASSUME NEW S \in SUBSET Elems, \A e \in S : Back(e)
    PROVE  \A v \in Seq(S) : BackAll(v)
  <1> DEFINE Q == {v \in Seq(S) : BackAll(v)}
  <1>0. Seq(S) \subseteq Seq(Elems)
    BY SeqMonotonic
  <1>1. <<>> \in Q
    <2>1. <<>> \in Seq(S) /\ <<>> \in Seq(Elems) /\ Len(<<>>) = 0
      OBVIOUS
    <2>2. ASSUME NEW d \in Nat, NEW y \in Conts, NEW t \in Seq(Elems), NEW x \in Str, Yields(y, d, t, x)
          PROVE  Yields(Cat(FlattenSeq(Encs(<<>>, d)), y), d, <<>> \o t, x)
      <3>1. PICK ss \in Seq(Str) : ss = Encs(<<>>, d) /\ Len(ss) = 0
        BY <2>1, EncsFacts
      <3>2. FlattenSeq(Encs(<<>>, d)) = <<>>
        BY <3>1, EmptySeq, FlattenEmpty
      <3>3. Cat(<<>>, y) = y
        BY ContsFacts, CatStr
      <3>4. <<>> \o t = t
        BY ConcatEmptySeq
      <3>5. QED
        BY <2>2, <3>2, <3>3, <3>4
    <2>3. BackAll(<<>>)
      BY <2>2 DEF BackAll
    <2>4. QED
      BY <2>1, <2>3
  <1>2. ASSUME NEW v \in Q, NEW e \in S PROVE Append(v, e) \in Q
    <2>1. v \in Seq(S) /\ BackAll(v) /\ v \in Seq(Elems) /\ e \in Elems /\ Back(e)
      BY <1>0
    <2>2. Append(v, e) \in Seq(S)
      BY <2>1
    <2>3. ASSUME NEW d \in Nat, NEW y \in Conts, NEW t \in Seq(Elems), NEW x \in Str, Yields(y, d, t, x)
          PROVE  Yields(Cat(FlattenSeq(Encs(Append(v, e), d)), y), d, Append(v, e) \o t, x)
      <3>1. y \in Str
        BY ContsFacts
      <3>2. PICK f \in Str : f = FlattenSeq(Encs(v, d))
        BY <2>1, EncsFacts
      <3>3. PICK s \in Str : s = encode[e][d]
        BY <2>1, EncodeBegins
      <3>4. Cat(s, y) \in Conts
        BY <2>1, <3>1, <3>3, ElemConts
      <3>5. PICK z \in Conts : z = Cat(s, y)
        BY <3>4
      <3>6. PICK u \in Seq(Elems) : u = <<e>> \o t
        BY <2>1, AppendThen
      <3>7. Yields(z, d, u, x)
        BY <2>1, <2>3, <3>3, <3>5, <3>6 DEF Back
      <3>8. Yields(Cat(f, z), d, v \o u, x)
        BY <2>1, <3>2, <3>7 DEF BackAll
      <3>9. Cat(f, z) = Cat(FlattenSeq(Encs(Append(v, e), d)), y)
        <4>1. FlattenSeq(Encs(Append(v, e), d)) = Cat(f, s)
          BY <2>1, <3>2, <3>3, EncsAppend
        <4>2. Cat(Cat(f, s), y) = Cat(f, Cat(s, y))
          BY <3>1, CatStr
        <4>3. QED
          BY <3>5, <4>1, <4>2
      <3>10. v \o u = Append(v, e) \o t
        BY <2>1, <3>6, AppendThen
      <3>11. QED
        BY <3>8, <3>9, <3>10
    <2>4. BackAll(Append(v, e))
      BY <2>3 DEF BackAll
    <2>5. QED
      BY <2>2, <2>4
  <1>3. Q \in SUBSET Seq(S)
    OBVIOUS
  <1>4. \A v \in Seq(S) : v \in Q
    <2> HIDE DEF Q
    <2>1. QED
      BY <1>1, <1>2, <1>3, SeqInduction
  <1>5. QED
    BY <1>4

\* If the elements of a tuple are decoded, so is the tuple when it is nested.
LEMMA BackTuple ==
    ASSUME NEW v \in Seq(Elems), <<"tuple", v>> \in Elems, BackAll(v)
    PROVE  Back(<<"tuple", v>>)
  <1>0. PICK e \in Elems : e = <<"tuple", v>>
    OBVIOUS
  <1> SUFFICES ASSUME NEW d \in Nat, NEW y \in Conts, NEW t \in Seq(Elems), NEW x \in Str, Yields(y, d, t, x)
               PROVE  Yields(Cat(encode[e][d], y), d, <<e>> \o t, x)
    BY <1>0 DEF Back
  <1>1. y \in Str /\ Len(y) \in Nat
    BY ContsFacts, StrFacts
  <1>2. NULL \in Bytes /\ NESTED \in Bytes /\ NULL # ESCAPE
    BY Codes, ByteNumbers
  <1>3. PICK D \in Nat : D = d + 1 /\ D # 0
    OBVIOUS
  <1>4. PICK f \in Str : f = FlattenSeq(Encs(v, D))
    BY EncsFacts
  <1>5. PICK o \in Str, z \in Str : o = One(NESTED) /\ z = One(NULL)
    BY <1>2, OneStr
  <1>6. encode[e][d] = Cat(o, Cat(f, z))
    BY <1>0, <1>3, <1>4, <1>5, EncodeTuple
  <1>7. PICK q \in Conts : q = Cat(z, y)
    BY <1>1, <1>2, <1>5, ContsFacts
  <1>8. q \in Str /\ Len(y) <= Len(q) /\ Len(q) \in Nat
    BY <1>1, <1>7, CatLen
  <1>9. PICK r \in Str : r = Cat(f, q) /\ Len(q) <= Len(r) /\ Len(r) \in Nat
    BY <1>8, CatLen
  <1>10. PICK s \in Str : s = Cat(One(NESTED), r) /\ s # <<>> /\ Len(s) = Len(r) + 1
    BY <1>2, HeadTail
  <1>11. Cat(encode[e][d], y) = s
    <2>1. Cat(Cat(o, Cat(f, z)), y) = Cat(o, Cat(f, Cat(z, y)))
      BY <1>1, CatAssociative4
    <2>2. QED
      BY <1>5, <1>6, <1>7, <1>9, <1>10, <2>1
  <1>12. Yields(q, D, <<>>, y)
    BY <1>3, <1>5, <1>7, YieldsNested
  <1>13. Yields(r, D, v, y)
    <2>1. <<>> \in Seq(Elems) /\ v \o <<>> = v
      BY ConcatEmptySeq
    <2>2. Yields(Cat(f, q), D, v \o <<>>, y)
      BY <1>1, <1>4, <1>12, <2>1 DEF BackAll
    <2>3. QED
      BY <1>9, <2>1, <2>2
  <1>14. ASSUME NEW n \in Nat, Len(s) <= n + 1
         PROVE  decode_elems(s, d, decode[n]) = [elems |-> <<e>> \o t, rest |-> x]
    <2>1. Len(y) <= n /\ Len(r) <= n
      BY <1>1, <1>8, <1>9, <1>10, <1>14
    <2>2. decode[n][<<r, D>>] = [elems |-> v, rest |-> y]
      BY <1>13, <2>1 DEF Yields
    <2>3. PICK h : h = decode[n]
      OBVIOUS
    <2>4. h[<<r, d + 1>>].elems = v /\ h[<<r, d + 1>>].rest = y
      BY <1>3, <2>2, <2>3
    <2>5. decode_elems(Cat(One(NESTED), r), d, h) =
              Then(<<"tuple", h[<<r, d + 1>>].elems>>, h[<<r, d + 1>>].rest, d, h)
      BY ElemsNested
    <2>6. decode_elems(s, d, h) = Then(e, y, d, h)
      BY <1>0, <1>10, <2>4, <2>5
    <2>7. QED
      BY <1>1, <2>1, <2>3, <2>6, YieldsThen
  <1>15. Yields(s, d, <<e>> \o t, x)
    BY <1>10, <1>14, YieldsStep
  <1>16. QED
    BY <1>11, <1>15

\* Every element is decoded.
LEMMA BackElems == \A e \in Elems : Back(e)
  <1> DEFINE S == {e \in Elems : Back(e)}
  <1>1. \A e \in Flat : e \in S
    <2> SUFFICES ASSUME NEW e \in Flat PROVE e \in S
      OBVIOUS
    <2>1. e \in Elems /\ e[1] # "tuple"
      BY FlatElems, FlatType
    <2>2. CASE e[1] = "null"
      BY <2>1, <2>2, SimpleElem, BackNull
    <2>3. CASE e[1] # "null"
      BY <2>1, <2>3, BackFlat
    <2>4. QED
      BY <2>2, <2>3
  <1>2. S \in SUBSET Elems /\ \A e \in S : Back(e)
    OBVIOUS
  <1> HIDE DEF S
  <1>3. \A v \in Seq(S) : BackAll(v)
    BY <1>2, BackSeq
  <1>4. \A v \in Seq(Elems) : <<"tuple", v>> \in Elems /\ v \in Seq(S) => <<"tuple", v>> \in S
    BY <1>3, BackTuple DEF S
  <1>5. \A e \in Elems : e \in S
    BY <1>1, <1>4, ElemInduction
  <1>6. QED
    BY <1>2, <1>5

\* unpack/1 gives back the tuple that pack/1 was given, at every depth and with
\* zero bytes, largest bytes and integers of every size in it.
THEOREM Unpacked == ASSUME NEW v \in Seq(Elems) PROVE unpack(pack(v)) = v
  <1>1. BackAll(v)
    <2>1. PICK S \in SUBSET Elems : S = Elems
      OBVIOUS
    <2>2. QED
      BY <2>1, BackElems, BackSeq
  <1>2. PICK f \in Str : f = FlattenSeq(Encs(v, 0)) /\ f = pack(v)
    BY EncsFacts DEF pack
  <1>3. <<>> \in Conts /\ <<>> \in Str /\ <<>> \in Seq(Elems) /\ v \o <<>> = v /\ Cat(f, <<>>) = f
    BY ContsFacts, StrConcat, ConcatEmptySeq, CatStr
  <1>4. Yields(<<>>, 0, <<>>, <<>>)
    BY YieldsEnd
  <1>5. Yields(Cat(f, <<>>), 0, v \o <<>>, <<>>)
    BY <1>1, <1>2, <1>3, <1>4 DEF BackAll
  <1>6. Yields(f, 0, v, <<>>)
    BY <1>3, <1>5
  <1>7. Len(f) \in Nat
    BY StrFacts
  <1>8. decode[Len(f)][<<f, 0>>] = [elems |-> v, rest |-> <<>>]
    BY <1>6, <1>7 DEF Yields
  <1>9. QED
    BY <1>2, <1>8 DEF unpack

-----------------------------------------------------------------------------
(* Ranges *)

\* A longer string with the same beginning.
LEMMA PrefixCat ==
    ASSUME NEW k \in Str, NEW m \in Str, Len(k) < Len(m), \A j \in 1..Len(k) : k[j] = m[j]
    PROVE  \E z \in Str : m = Cat(k, z) /\ z # <<>> /\ z[1] = m[Len(k) + 1]
  <1>1. PICK n \in Nat, l \in Nat : n = Len(k) /\ l = Len(m) /\ n < l
    BY StrFacts
  <1>2. m \in Seq(Bytes) /\ k \in Seq(Bytes) /\ \A j \in 1..l : m[j] \in Bytes
    BY <1>1 DEF Str
  <1>3. PICK z : z = SubSeq(m, n + 1, l)
    OBVIOUS
  <1>4. \A j \in (n + 1)..l : m[j] \in Bytes
    BY <1>1, <1>2
  <1>5. /\ z \in Seq(Bytes) /\ Len(z) = l - (n + 1) + 1
        /\ \A j \in 1..(l - (n + 1) + 1) : z[j] = m[(n + 1) + j - 1]
    BY <1>1, <1>3, <1>4, SubSeqProperties
  <1>6. z \in Seq(Bytes) /\ Len(z) = l - n /\ \A j \in 1..(l - n) : z[j] = m[n + j]
    BY <1>1, <1>5
  <1>7. z # <<>> /\ z[1] = m[n + 1]
    BY <1>1, <1>6
  <1>8. PICK c : c = Cat(k, z)
    OBVIOUS
  <1>9. /\ c \in Seq(Bytes) /\ Len(c) = n + Len(z)
        /\ \A i \in 1..(n + Len(z)) : c[i] = IF i <= n THEN k[i] ELSE z[i - n]
    <2>1. c = k \o z
      BY <1>8 DEF Cat
    <2>2. /\ c \in Seq(Bytes) /\ Len(c) = Len(k) + Len(z)
          /\ \A i \in 1..(Len(k) + Len(z)) : c[i] = IF i <= Len(k) THEN k[i] ELSE z[i - Len(k)]
      BY <1>2, <1>6, <2>1, ConcatProperties
    <2>3. QED
      BY <1>1, <2>2
  <1>10. ASSUME NEW i \in 1..l PROVE c[i] = m[i]
    <2>1. i \in 1..(n + Len(z))
      BY <1>1, <1>6
    <2>2. CASE i <= n
      BY <1>1, <1>9, <2>1, <2>2
    <2>3. CASE ~(i <= n)
      <3>1. i - n \in 1..(l - n) /\ n + (i - n) = i
        BY <1>1, <2>3
      <3>2. QED
        BY <1>6, <1>9, <2>1, <2>3, <3>1
    <2>4. QED
      BY <2>2, <2>3
  <1>11. c = m
    <2>1. Len(c) = l
      BY <1>1, <1>6, <1>9
    <2>2. QED
      BY <1>1, <1>2, <1>9, <1>10, <2>1, SeqEqual
  <1>12. QED
    BY <1>1, <1>6, <1>7, <1>8, <1>11 DEF Str

\* What is between a key and that key with the largest byte added begins with that key.
LEMMA BetweenKeys ==
    ASSUME NEW k \in Str, NEW m \in Str, Less(k, m), Less(m, Cat(k, One(ESCAPE)))
    PROVE  \E z \in Conts : m = Cat(k, z)
  <1>1. k \in Seq(Nat) /\ m \in Seq(Nat)
    BY StrFacts
  <1>2. PICK n \in Nat, l \in Nat : n = Len(k) /\ l = Len(m)
    BY StrFacts
  <1>3. PICK e : e = Cat(k, One(ESCAPE))
    OBVIOUS
  <1>4. e \in Seq(Nat) /\ Len(e) = n + 1 /\ e[n + 1] = ESCAPE /\ \A i \in 1..n : e[i] = k[i]
    <2>1. PICK o \in Str : o = One(ESCAPE) /\ Len(o) = 1 /\ o[1] = ESCAPE
      BY OneStr, Codes
    <2>2. e \in Str /\ e = k \o o /\ o \in Seq(Nat)
      BY <1>3, <2>1, CatStr, StrFacts DEF Cat
    <2>3. /\ Len(e) = Len(k) + Len(o)
          /\ \A i \in 1..Len(k) : e[i] = k[i]
          /\ \A i \in 1..Len(o) : e[Len(k) + i] = o[i]
      BY <1>1, <2>2, ConcatPoints
    <2>4. QED
      BY <1>2, <2>1, <2>2, <2>3, StrFacts
  <1>5. PICK i \in Nat : LessAt(k, m, i)
    BY <1>1, LessIff
  <1>6. PICK j \in Nat : LessAt(m, e, j)
    BY <1>1, <1>3, <1>4, LessIff
  <1>7. \A h \in 1..n : k[h] \in Nat
    BY <1>1, <1>2
  <1>8. \A h \in 1..l : m[h] \in Nat
    BY <1>1, <1>2
  <1>9. /\ i \in 1..l /\ i <= n + 1 /\ \A h \in 1..(i - 1) : k[h] = m[h]
        /\ i = n + 1 \/ k[i] < m[i]
    BY <1>2, <1>5 DEF LessAt
  <1>10. /\ j \in 1..(n + 1) /\ j <= l + 1 /\ \A h \in 1..(j - 1) : m[h] = e[h]
         /\ j = l + 1 \/ m[j] < e[j]
    BY <1>2, <1>4, <1>6 DEF LessAt
  <1>11. i = n + 1
    <2> SUFFICES ASSUME i # n + 1 PROVE FALSE
      OBVIOUS
    <2>1. i \in 1..n /\ i \in 1..l /\ k[i] < m[i] /\ e[i] = k[i]
      BY <1>4, <1>9
    <2>2. CASE j > i
      BY <1>7, <1>8, <1>10, <2>1, <2>2
    <2>3. CASE j = i
      BY <1>7, <1>8, <1>9, <1>10, <2>1, <2>3
    <2>4. CASE j < i
      <3>1. j \in 1..n /\ j \in 1..l /\ j \in 1..(i - 1)
        BY <1>10, <2>1, <2>4
      <3>2. e[j] = k[j] /\ k[j] = m[j] /\ m[j] < e[j]
        BY <1>4, <1>9, <1>10, <3>1
      <3>3. QED
        BY <1>7, <3>1, <3>2
    <2>5. QED
      BY <2>2, <2>3, <2>4
  <1>12. n < l /\ \A h \in 1..n : k[h] = m[h]
    BY <1>9, <1>11
  <1>13. m[n + 1] < ESCAPE
    <2>1. CASE j <= n
      <3>1. j \in 1..n /\ j \in 1..l
        BY <1>10, <1>12, <2>1
      <3>2. e[j] = k[j] /\ k[j] = m[j] /\ m[j] < e[j]
        BY <1>4, <1>10, <1>12, <3>1
      <3>3. QED
        BY <1>7, <3>1, <3>2
    <2>2. CASE j = n + 1
      BY <1>4, <1>10, <1>12, <2>2
    <2>3. QED
      BY <1>10, <2>1, <2>2
  <1>14. PICK z \in Str : m = Cat(k, z) /\ z # <<>> /\ z[1] = m[n + 1]
    BY <1>2, <1>12, PrefixCat
  <1>15. z \in Conts
    <2>1. m[n + 1] # ESCAPE
      BY <1>8, <1>12, <1>13, ByteNumbers
    <2>2. QED
      BY <1>14, <2>1 DEF Conts
  <1>16. QED
    BY <1>14, <1>15

\* A longer tuple, by its elements.
LEMMA ElemPrefix ==
    ASSUME NEW t \in Seq(Elems), NEW u \in Seq(Elems)
    PROVE  IsStrictPrefix(t, u) <=> Len(t) < Len(u) /\ \A j \in 1..Len(t) : t[j] = u[j]
  <1>1. PICK n \in Nat, l \in Nat : n = Len(t) /\ l = Len(u)
    OBVIOUS
  <1>2. IsStrictPrefix(t, u) <=> IsPrefix(t, u) /\ t # u
    BY DEF IsStrictPrefix
  <1>3. IsPrefix(t, u) <=> n <= l /\ SubSeq(t, 1, n) = SubSeq(u, 1, n)
    BY <1>1 DEF IsPrefix
  <1>4. ASSUME n <= l PROVE SubSeq(t, 1, n) = SubSeq(u, 1, n) <=> \A j \in 1..n : t[j] = u[j]
    <2>1. PICK a, b : a = SubSeq(t, 1, n) /\ b = SubSeq(u, 1, n)
      OBVIOUS
    <2>2. \A j \in 1..n : t[j] \in Elems /\ u[j] \in Elems
      BY <1>1, <1>4
    <2>3. a \in Seq(Elems) /\ Len(a) = n /\ \A j \in 1..n : a[j] = t[j]
      BY <2>1, <2>2, SubSeqProperties
    <2>4. b \in Seq(Elems) /\ Len(b) = n /\ \A j \in 1..n : b[j] = u[j]
      BY <2>1, <2>2, SubSeqProperties
    <2>5. a = b => \A j \in 1..n : t[j] = u[j]
      BY <2>3, <2>4
    <2>6. (\A j \in 1..n : t[j] = u[j]) => a = b
      BY <2>3, <2>4, SeqEqual
    <2>7. QED
      BY <2>1, <2>5, <2>6
  <1>5. ASSUME n = l, \A j \in 1..n : t[j] = u[j] PROVE t = u
    BY <1>1, <1>5, SeqEqual
  <1>6. n < l => t # u
    BY <1>1
  <1>7. QED
    BY <1>1, <1>2, <1>3, <1>4, <1>5, <1>6

\* A longer tuple has a longer key.
LEMMA LongerTuple ==
    ASSUME NEW v \in Seq(Elems), NEW w \in Seq(Elems), Len(v) < Len(w), \A j \in 1..Len(v) : v[j] = w[j]
    PROVE  \E c \in Bytes, r \in Str :
              FlattenSeq(Encs(w, 0)) = Cat(FlattenSeq(Encs(v, 0)), Cat(One(c), r)) /\ c # ESCAPE
  <1>1. PICK ss \in Seq(Str) : ss = Encs(v, 0) /\ Len(ss) = Len(v) /\ FlattenSeq(ss) \in Str
            /\ \A j \in 1..Len(v) : ss[j] = encode[v[j]][0]
    BY EncsFacts
  <1>2. PICK tt \in Seq(Str) : tt = Encs(w, 0) /\ Len(tt) = Len(w) /\ Starts(tt)
            /\ \A j \in 1..Len(w) : tt[j] = encode[w[j]][0] /\ w[j] \in Elems
    BY EncsFacts
  <1>3. PICK m \in Nat, n \in Nat : m = Len(v) /\ n = Len(w) /\ m < n
    <2>1. Len(v) \in Nat /\ Len(w) \in Nat
      BY LenProperties
    <2>2. QED
      BY <2>1
  <1>4. Len(ss) < Len(tt) /\ \A j \in 1..Len(ss) : ss[j] = tt[j]
    <2>1. ASSUME NEW j \in 1..m PROVE ss[j] = tt[j]
      <3>1. j \in 1..n /\ v[j] = w[j]
        BY <1>3
      <3>2. QED
        BY <1>1, <1>2, <1>3, <3>1
    <2>2. QED
      BY <1>1, <1>2, <1>3, <2>1
  <1>5. PICK q \in Seq(Str) :
            /\ tt[Len(ss) + 1] \in Str /\ FlattenSeq(q) \in Str
            /\ FlattenSeq(tt) = Cat(FlattenSeq(ss), Cat(tt[Len(ss) + 1], FlattenSeq(q)))
    BY <1>4, FlattenLonger
  <1>6. PICK c \in Bytes, p \in Str : tt[Len(ss) + 1] = Cat(One(c), p) /\ c # ESCAPE
    <2>1. Len(ss) + 1 \in 1..Len(tt)
      BY <1>1, <1>2, <1>3
    <2>2. QED
      BY <1>2, <2>1 DEF Starts
  <1>7. PICK f \in Str : f = FlattenSeq(q)
    BY <1>5
  <1>8. PICK r \in Str : r = Cat(p, f)
    BY CatStr
  <1>9. Cat(Cat(One(c), p), f) = Cat(One(c), r)
    BY <1>8, OneStr, CatStr
  <1>10. QED
    BY <1>1, <1>2, <1>5, <1>6, <1>7, <1>9

\* One more byte, as strings that are joined.
LEMMA AppendOne == ASSUME NEW s \in Str, NEW b \in Bytes PROVE Append(s, b) = Cat(s, One(b))
  BY AppendCat DEF One

\* The range of range/1 has the keys of the longer tuples that begin with the
\* tuple, and of no others.
THEOREM RangeExact ==
    ASSUME NEW t \in Seq(Elems), NEW u \in Seq(Elems)
    PROVE  ~Less(pack(u), range(t).start) /\ Less(pack(u), range(t).end) <=> IsStrictPrefix(t, u)
  <1>1. PICK k \in Str, m \in Str : k = pack(t) /\ m = pack(u) /\ k \in Seq(Nat) /\ m \in Seq(Nat)
    BY PackStr
  <1>2. NULL \in Bytes /\ ESCAPE \in Bytes /\ NULL # ESCAPE /\ NULL = 0
    BY Codes, ByteNumbers
  <1>3. PICK a \in Str : a = Cat(k, One(NULL)) /\ a = range(t).start
    <2>1. range(t).start = Append(k, NULL)
      BY <1>1 DEF range
    <2>2. Append(k, NULL) = Cat(k, One(NULL)) /\ Cat(k, One(NULL)) \in Str
      BY <1>2, AppendOne, OneStr, CatStr
    <2>3. QED
      BY <2>1, <2>2
  <1>4. PICK b \in Str : b = Cat(k, One(ESCAPE)) /\ b = range(t).end
    <2>1. range(t).end = Append(k, ESCAPE)
      BY <1>1 DEF range
    <2>2. Append(k, ESCAPE) = Cat(k, One(ESCAPE)) /\ Cat(k, One(ESCAPE)) \in Str
      BY <1>2, AppendOne, OneStr, CatStr
    <2>3. QED
      BY <2>1, <2>2
  <1>5. a \in Seq(Nat) /\ b \in Seq(Nat)
    BY StrFacts
  <1>6. Less(k, a)
    <2>1. PICK o \in Str : o = One(NULL) /\ o # <<>> /\ o \in Seq(Nat)
      BY <1>2, OneStr, StrFacts
    <2>2. Less(<<>>, o)
      BY <2>1, LessEmpty
    <2>3. Less(Cat(k, <<>>), Cat(k, o))
      BY <2>2, CatLess, StrConcat
    <2>4. QED
      BY <1>3, <2>1, <2>3, CatStr
  <1>7. k = FlattenSeq(Encs(t, 0)) /\ m = FlattenSeq(Encs(u, 0))
    BY <1>1, EncsFacts DEF pack
  <1>8. <<>> \in Conts /\ Cat(One(NULL), <<>>) = One(NULL) /\ One(NULL) \in Conts
    BY <1>2, ContsFacts, OneStr, CatStr, StrConcat
  <1>9. CASE IsStrictPrefix(t, u)
    <2>1. Len(t) < Len(u) /\ \A j \in 1..Len(t) : t[j] = u[j]
      BY <1>9, ElemPrefix
    <2>2. PICK c \in Bytes, r \in Str : m = Cat(k, Cat(One(c), r)) /\ c # ESCAPE
      BY <1>7, <2>1, LongerTuple
    <2>3. Less(m, b)
      <3>1. c < ESCAPE /\ <<>> \in Str
        BY <2>2, ByteNumbers, StrConcat DEF Bytes
      <3>2. Less(Cat(One(c), r), Cat(One(ESCAPE), <<>>))
        BY <1>2, <3>1, SortedFirst
      <3>3. Cat(One(ESCAPE), <<>>) = One(ESCAPE) /\ One(ESCAPE) \in Str /\ Cat(One(c), r) \in Str
        BY <1>2, OneStr, CatStr
      <3>4. QED
        BY <1>4, <2>2, <3>2, <3>3, CatLess
    <2>4. ~Less(m, a)
      <3>1. CASE c = NULL
        <4>1. PICK o \in Str : o = One(NULL)
          BY <1>2, OneStr
        <4>2. m = Cat(a, r)
          <5>1. Cat(Cat(k, o), r) = Cat(k, Cat(o, r))
            BY CatStr
          <5>2. QED
            BY <1>3, <2>2, <3>1, <4>1, <5>1
        <4>3. CASE r = <<>>
          <5>1. m = a
            BY <4>2, <4>3, CatStr
          <5>2. QED
            BY <1>1, <5>1, LessIrreflexive
        <4>4. CASE r # <<>>
          <5>1. Less(<<>>, r)
            BY <4>4, LessEmpty, StrFacts
          <5>2. Less(Cat(a, <<>>), Cat(a, r))
            BY <5>1, CatLess, StrConcat
          <5>3. Less(a, m)
            BY <4>2, <5>2, CatStr
          <5>4. QED
            BY <1>1, <1>5, <5>3, LessAsymmetric
        <4>5. QED
          BY <4>3, <4>4
      <3>2. CASE c # NULL
        <4>1. NULL < c /\ <<>> \in Str
          BY <1>2, <3>2, ByteNumbers, StrConcat DEF Bytes
        <4>2. Less(Cat(One(NULL), <<>>), Cat(One(c), r))
          BY <1>2, <4>1, SortedFirst
        <4>3. Less(One(NULL), Cat(One(c), r)) /\ One(NULL) \in Str /\ Cat(One(c), r) \in Str
          BY <1>2, <1>8, <4>2, OneStr, CatStr
        <4>4. Less(a, m)
          BY <1>3, <2>2, <4>3, CatLess
        <4>5. QED
          BY <1>1, <1>5, <4>4, LessAsymmetric
      <3>3. QED
        BY <3>1, <3>2
    <2>5. QED
      BY <1>1, <1>3, <1>4, <1>9, <2>3, <2>4
  <1>10. CASE ~IsStrictPrefix(t, u)
    <2> SUFFICES ASSUME ~Less(m, a), Less(m, b) PROVE FALSE
      BY <1>1, <1>3, <1>4, <1>10
    <2>1. t # u
      <3>1. t = u => Less(m, a)
        BY <1>1, <1>6
      <3>2. QED
        BY <3>1
    <2>2. Before(t, u) \/ Before(u, t)
      BY <2>1, CompareTuples DEF Signs
    <2>3. ~Before(u, t)
      <3> SUFFICES ASSUME Before(u, t) PROVE FALSE
        OBVIOUS
      <3>1. Less(m, k)
        BY <1>1, BeforePacked
      <3>2. Less(m, a)
        BY <1>1, <1>5, <1>6, <3>1, LessTransitive
      <3>3. QED
        BY <3>2
    <2>4. Before(t, u)
      BY <2>2, <2>3
    <2>5. Less(k, m)
      BY <1>1, <2>4, BeforePacked
    <2>6. PICK z \in Conts : m = Cat(k, z)
      BY <1>4, <2>5, BetweenKeys
    <2>7. PICK i \in 1..Len(t) : /\ i \in 1..Len(u) /\ InOrder(t[i], u[i])
                                /\ \A j \in 1..(i - 1) : t[j] = u[j]
      BY <1>10, <2>4, ElemPrefix DEF Before
    <2>8. Less(Cat(k, z), Cat(m, <<>>))
      BY <1>7, <1>8, <2>7, BeforeAt
    <2>9. Less(m, m)
      BY <2>6, <2>8, CatStr
    <2>10. QED
      BY <1>1, <2>9, LessIrreflexive
  <1>11. QED
    BY <1>9, <1>10

-----------------------------------------------------------------------------
(* strinc/1 *)

\* The last byte that can be increased.
LastByte(p, n) ==
    n \in 1..Len(p) /\ p[n] # ESCAPE /\ \A m \in (n + 1)..Len(p) : p[m] = ESCAPE

\* There is a last byte that can be increased.
LEMMA LastByteExists ==
    ASSUME NEW p \in Str, \E i \in DOMAIN p : p[i] # ESCAPE
    PROVE  \E n \in Nat : LastByte(p, n)
  <1>1. PICK l \in Nat : l = Len(p) /\ DOMAIN p = 1..l
    BY StrFacts
  <1>2. PICK i \in 1..l : p[i] # ESCAPE
    BY <1>1
  <1>3. PICK S \in SUBSET Nat : S = {j \in Nat : j < l /\ p[l - j] # ESCAPE}
    OBVIOUS
  <1>4. l - i \in S
    <2>1. l - i \in Nat /\ l - i < l /\ l - (l - i) = i
      BY <1>1, <1>2
    <2>2. QED
      BY <1>2, <1>3, <2>1
  <1>5. PICK j \in S : \A m \in S : j <= m
    BY <1>4, LeastOf
  <1>6. PICK n \in 1..l : n = l - j /\ p[n] # ESCAPE
    BY <1>1, <1>3, <1>5
  <1>7. ASSUME NEW m \in (n + 1)..l PROVE p[m] = ESCAPE
    <2>1. l - m \in Nat /\ l - m < l /\ l - (l - m) = m /\ ~(j <= l - m)
      BY <1>1, <1>3, <1>6
    <2>2. l - m \notin S
      BY <1>5, <2>1
    <2>3. QED
      BY <1>3, <2>1, <2>2
  <1>8. LastByte(p, n) /\ n \in Nat
    BY <1>1, <1>6, <1>7 DEF LastByte
  <1>9. QED
    BY <1>8

\* strinc/1, byte by byte.
LEMMA StrincPoints ==
    ASSUME NEW p \in Str, \E i \in DOMAIN p : p[i] # ESCAPE
    PROVE  \E n \in Nat : /\ LastByte(p, n) /\ strinc(p) \in Seq(Nat) /\ Len(strinc(p)) = n
                          /\ strinc(p)[n] = p[n] + 1
                          /\ \A i \in 1..(n - 1) : strinc(p)[i] = p[i]
  <1>1. PICK l \in Nat : l = Len(p) /\ DOMAIN p = 1..l /\ p \in Seq(Nat) /\ \A i \in 1..l : p[i] \in Nat
    BY StrFacts
  <1> DEFINE Is(n) == p[n] # ESCAPE /\ \A m \in (n + 1)..Len(p) : p[m] = ESCAPE
  <1>2. \E n \in DOMAIN p : Is(n)
    <2>1. PICK n \in Nat : LastByte(p, n)
      BY LastByteExists
    <2>2. n \in DOMAIN p /\ Is(n)
      BY <1>1, <2>1 DEF LastByte
    <2>3. QED
      BY <2>2
  <1>3. PICK n : n = CHOOSE k \in DOMAIN p : Is(k)
    OBVIOUS
  <1>4. n \in DOMAIN p /\ Is(n)
    <2> HIDE DEF Is
    <2>1. QED
      BY <1>2, <1>3
  <1>5. n \in 1..l /\ n \in Nat /\ LastByte(p, n)
    BY <1>1, <1>4 DEF LastByte
  <1>6. rstrip_ff(p) = SubSeq(p, 1, n)
    BY <1>3 DEF rstrip_ff
  <1>7. PICK q : q = SubSeq(p, 1, n)
    OBVIOUS
  <1>8. \A i \in 1..n : p[i] \in Nat
    BY <1>1, <1>5
  <1>9. q \in Seq(Nat) /\ Len(q) = n /\ \A i \in 1..n : q[i] = p[i]
    BY <1>5, <1>7, <1>8, SubSeqProperties
  <1>10. PICK s : s = [q EXCEPT ![n] = @ + 1]
    OBVIOUS
  <1>11. strinc(p) = s
    BY <1>6, <1>7, <1>9, <1>10 DEF strinc
  <1>12. n \in 1..n /\ q \in [1..n -> Nat] /\ q[n] + 1 \in Nat
    BY <1>5, <1>9
  <1>13. s \in [1..n -> Nat] /\ s[n] = q[n] + 1 /\ \A i \in 1..n : i # n => s[i] = q[i]
    BY <1>10, <1>12
  <1>14. s \in Seq(Nat) /\ Len(s) = n
    BY <1>5, <1>13, IsASeq, LenProperties
  <1>15. ASSUME NEW i \in 1..(n - 1) PROVE s[i] = p[i]
    <2>1. i \in 1..n /\ i # n
      BY <1>5
    <2>2. QED
      BY <1>9, <1>13, <2>1
  <1>16. s[n] = p[n] + 1
    BY <1>9, <1>12, <1>13
  <1>17. QED
    BY <1>5, <1>11, <1>14, <1>15, <1>16

\* The range from a prefix to its strinc/1 has the keys with that prefix and no
\* others, also when the prefix ends with the largest bytes.
THEOREM StrincExact ==
    ASSUME NEW p \in Str, \E i \in DOMAIN p : p[i] # ESCAPE, NEW k \in Str
    PROVE  ~Less(k, p) /\ Less(k, strinc(p)) <=> IsPrefix(p, k)
  <1>0. PICK s : s = strinc(p)
    OBVIOUS
  <1>1. PICK n \in Nat : /\ s = strinc(p) /\ LastByte(p, n) /\ s \in Seq(Nat) /\ Len(s) = n
                         /\ s[n] = p[n] + 1 /\ \A i \in 1..(n - 1) : s[i] = p[i]
    BY <1>0, StrincPoints
  <1>2. PICK l \in Nat, m \in Nat : l = Len(p) /\ m = Len(k)
    BY StrFacts
  <1>3. p \in Seq(Nat) /\ k \in Seq(Nat) /\ \A i \in 1..l : p[i] \in Nat /\ p[i] <= ESCAPE
    <2>1. \A i \in 1..l : p[i] \in Bytes
      BY <1>2, StrFacts
    <2>2. QED
      BY <2>1, StrFacts, ByteNumbers DEF Bytes
  <1>4. \A i \in 1..m : k[i] \in Nat /\ k[i] <= ESCAPE
    <2>1. \A i \in 1..m : k[i] \in Bytes
      BY <1>2, StrFacts
    <2>2. QED
      BY <2>1, ByteNumbers DEF Bytes
  <1>5. n \in 1..l /\ p[n] # ESCAPE /\ \A i \in (n + 1)..l : p[i] = ESCAPE
    BY <1>1, <1>2 DEF LastByte
  <1>6. IsPrefix(p, k) <=> l <= m /\ \A j \in 1..l : k[j] = p[j]
    BY <1>2, <1>3, PrefixIff
  <1>7. CASE l <= m /\ \A j \in 1..l : k[j] = p[j]
    <2>1. LessAt(k, s, n)
      <3>1. n \in 1..Len(s) /\ n <= Len(k) + 1
        BY <1>1, <1>2, <1>5, <1>7
      <3>2. \A j \in 1..(n - 1) : k[j] = s[j]
        BY <1>1, <1>5, <1>7
      <3>3. k[n] < s[n]
        BY <1>1, <1>3, <1>5, <1>7
      <3>4. QED
        BY <3>1, <3>2, <3>3 DEF LessAt
    <2>2. Less(k, s)
      BY <1>1, <1>3, <2>1, LessIff
    <2>3. ~Less(k, p)
      <3> SUFFICES ASSUME NEW i \in Nat, LessAt(k, p, i) PROVE FALSE
        BY <1>3, LessIff
      <3>1. i \in 1..l /\ (i = m + 1 \/ k[i] < p[i])
        BY <1>2 DEF LessAt
      <3>2. k[i] = p[i] /\ i # m + 1
        BY <1>2, <1>7, <3>1
      <3>3. QED
        BY <1>3, <3>1, <3>2
    <2>4. QED
      BY <1>1, <1>6, <1>7, <2>2, <2>3
  <1>8. ASSUME ~Less(k, p), Less(k, s) PROVE l <= m /\ \A j \in 1..l : k[j] = p[j]
    <2>1. PICK i \in Nat : LessAt(k, s, i)
      BY <1>1, <1>3, <1>8, LessIff
    <2>2. /\ i \in 1..n /\ i <= m + 1 /\ \A j \in 1..(i - 1) : k[j] = s[j]
          /\ i = m + 1 \/ k[i] < s[i]
      BY <1>1, <1>2, <2>1 DEF LessAt
    <2>3. ~LessAt(k, p, i)
      BY <1>3, <1>8, LessIff
    <2>4. \A j \in 1..(i - 1) : k[j] = p[j]
      <3> SUFFICES ASSUME NEW j \in 1..(i - 1) PROVE k[j] = p[j]
        OBVIOUS
      <3>1. j \in 1..(n - 1)
        BY <2>2
      <3>2. QED
        BY <1>1, <2>2, <3>1
    <2>5. i # m + 1 /\ ~(k[i] < p[i])
      BY <1>2, <1>5, <2>2, <2>3, <2>4 DEF LessAt
    <2>6. i = n /\ k[n] = p[n]
      <3>1. k[i] < s[i] /\ i \in 1..m /\ i \in 1..l
        BY <1>5, <2>2, <2>5
      <3>2. CASE i < n
        <4>1. s[i] = p[i]
          BY <1>1, <2>2, <3>2
        <4>2. QED
          BY <2>5, <3>1, <4>1
      <3>3. CASE i = n
        <4>1. k[n] \in Nat /\ p[n] \in Nat /\ k[n] < p[n] + 1 /\ ~(k[n] < p[n])
          BY <1>1, <1>3, <1>4, <2>5, <3>1, <3>3
        <4>2. QED
          BY <3>3, <4>1
      <3>4. QED
        BY <2>2, <3>2, <3>3
    <2>7. \A j \in 1..n : k[j] = p[j]
      BY <2>4, <2>6
    <2>8. CASE k = p
      BY <1>2, <2>8
    <2>9. CASE k # p
      <3>1. Less(p, k)
        BY <1>3, <1>8, <2>9, LessTotal
      <3>2. PICK j \in Nat : LessAt(p, k, j)
        BY <1>3, <3>1, LessIff
      <3>3. /\ j \in 1..m /\ j <= l + 1 /\ \A h \in 1..(j - 1) : p[h] = k[h]
            /\ j = l + 1 \/ p[j] < k[j]
        BY <1>2, <3>2 DEF LessAt
      <3>4. j = l + 1
        <4> SUFFICES ASSUME j # l + 1 PROVE FALSE
          OBVIOUS
        <4>1. j \in 1..l /\ p[j] < k[j] /\ p[j] \in Nat /\ k[j] \in Nat /\ k[j] <= ESCAPE
          BY <1>3, <1>4, <3>3
        <4>2. CASE j <= n
          BY <2>7, <4>1, <4>2
        <4>3. CASE j > n
          BY <1>5, <4>1, <4>3, ByteNumbers
        <4>4. QED
          BY <1>5, <4>1, <4>2, <4>3
      <3>5. QED
        BY <3>3, <3>4
    <2>10. QED
      BY <2>8, <2>9
  <1>9. QED
    BY <1>1, <1>6, <1>7, <1>8

-----------------------------------------------------------------------------
(* Versionstamps *)

\* The functions from elements and depths to positions.
Finders == [Elems -> [Nat -> SUBSET Nat]]

\* The position of element i in the encoding of a tuple.
Start(v, d, i) == Len(encodes(SubSeq(v, 1, i - 1), d))

\* Where an element begins in the encoding.
LEMMA StartNat ==
    ASSUME NEW v \in Seq(Elems), NEW d \in Nat, NEW i \in 1..Len(v)
    PROVE  Start(v, d, i) \in Nat /\ SubSeq(v, 1, i - 1) \in Seq(Elems)
  <1>1. PICK a \in Seq(Elems) : a = SubSeq(v, 1, i - 1)
    BY SplitAt
  <1>2. PICK f \in Str : f = encodes(a, d)
    BY EncsFacts
  <1>3. QED
    BY <1>1, <1>2, StrFacts DEF Start

\* The positions in a tuple, from those in its elements.
LEMMA PositionsIff ==
    ASSUME NEW v \in Seq(Elems), NEW d, NEW g
    PROVE  \A q : q \in Positions(v, d, g) <=>
                     \E i \in 1..Len(v) : \E p \in g[v[i]][d] : q = Start(v, d, i) + p
  <1>1. DOMAIN v = 1..Len(v)
    OBVIOUS
  <1>2. QED
    BY <1>1 DEF Positions, Start

\* Positions are numbers.
LEMMA PositionsType ==
    ASSUME NEW v \in Seq(Elems), NEW d \in Nat, NEW g \in Finders
    PROVE  Positions(v, d, g) \in SUBSET Nat
  <1> SUFFICES ASSUME NEW q \in Positions(v, d, g) PROVE q \in Nat
    OBVIOUS
  <1>1. PICK i \in 1..Len(v) : \E p \in g[v[i]][d] : q = Start(v, d, i) + p
    BY PositionsIff
  <1>2. v[i] \in Elems
    OBVIOUS
  <1>3. g[v[i]][d] \in SUBSET Nat
    BY <1>2 DEF Finders
  <1>4. PICK p \in g[v[i]][d] : q = Start(v, d, i) + p
    BY <1>1
  <1>5. p \in Nat /\ Start(v, d, i) \in Nat
    BY <1>3, <1>4, StartNat
  <1>6. QED
    BY <1>4, <1>5

\* They need only the elements of the tuple.
LEMMA PositionsSame ==
    ASSUME NEW v \in Seq(Elems), NEW d, NEW g, NEW h, \A i \in 1..Len(v) : g[v[i]] = h[v[i]]
    PROVE  Positions(v, d, g) = Positions(v, d, h)
  <1>1. \A q : q \in Positions(v, d, g) <=> q \in Positions(v, d, h)
    BY PositionsIff
  <1>2. QED
    BY <1>1

\* find_incomplete_versionstamp/2, by the types of elements.
LEMMA UnsetElem ==
    ASSUME NEW e, NEW d, NEW g
    PROVE  /\ Incomplete(e) => unset_elem(e, d, g) = {1}
           /\ e[1] = "tuple" => unset_elem(e, d, g) = {p + 1 : p \in Positions(e[2], d + 1, g)}
           /\ ~Incomplete(e) /\ e[1] # "tuple" => unset_elem(e, d, g) = {}
           /\ Incomplete(e) => e[1] # "tuple"
  <1>1. Incomplete(e) => e[1] # "tuple"
    BY DEF Incomplete
  <1>2. CASE Incomplete(e)
    BY <1>1, <1>2 DEF unset_elem
  <1>3. CASE e[1] = "tuple"
    BY <1>1, <1>3 DEF unset_elem
  <1>4. CASE ~Incomplete(e) /\ e[1] # "tuple"
    BY <1>4 DEF unset_elem
  <1>5. QED
    BY <1>1, <1>2, <1>3, <1>4

\* It finds numbers.
LEMMA UnsetType ==
    ASSUME NEW e \in Elems, NEW d \in Nat, NEW g \in Finders
    PROVE  unset_elem(e, d, g) \in SUBSET Nat
  <1>1. CASE Incomplete(e)
    BY <1>1, UnsetElem
  <1>2. CASE e[1] = "tuple"
    <2>1. e[2] \in Seq(Elems) /\ d + 1 \in Nat
      BY <1>2, TupleElem
    <2>2. Positions(e[2], d + 1, g) \in SUBSET Nat
      BY <2>1, PositionsType
    <2>3. QED
      BY <1>2, <2>2, UnsetElem
  <1>3. CASE ~Incomplete(e) /\ e[1] # "tuple"
    BY <1>3, UnsetElem
  <1>4. QED
    BY <1>1, <1>2, <1>3

\* It needs only what is nested in the element.
LEMMA UnsetSame ==
    ASSUME NEW e \in Elems, NEW d, NEW g, NEW h,
           \A v \in Seq(Elems) : e = <<"tuple", v>> => \A i \in 1..Len(v) : g[v[i]] = h[v[i]]
    PROVE  unset_elem(e, d, g) = unset_elem(e, d, h)
  <1>1. CASE Incomplete(e)
    BY <1>1, UnsetElem
  <1>2. CASE e[1] = "tuple"
    <2>1. PICK v \in Seq(Elems) : e = <<"tuple", v>>
      BY <1>2, TupleElem
    <2>2. e[2] = v
      BY <2>1
    <2>3. \A i \in 1..Len(v) : g[v[i]] = h[v[i]]
      BY <2>1
    <2>4. Positions(v, d + 1, g) = Positions(v, d + 1, h)
      BY <2>3, PositionsSame
    <2>5. PICK A, B : A = Positions(v, d + 1, g) /\ B = Positions(v, d + 1, h)
      OBVIOUS
    <2>6. /\ unset_elem(e, d, g) = {p + 1 : p \in Positions(e[2], d + 1, g)}
          /\ unset_elem(e, d, h) = {p + 1 : p \in Positions(e[2], d + 1, h)}
      BY <1>2, UnsetElem
    <2>7. unset_elem(e, d, g) = {p + 1 : p \in A} /\ unset_elem(e, d, h) = {p + 1 : p \in B}
      BY <2>2, <2>5, <2>6
    <2>8. QED
      BY <2>4, <2>5, <2>7
  <1>3. CASE ~Incomplete(e) /\ e[1] # "tuple"
    BY <1>3, UnsetElem
  <1>4. QED
    BY <1>1, <1>2, <1>3

\* It is defined for every element and depth.
LEMMA UnsetFunction ==
    /\ Unset \in Finders
    /\ \A a \in Elems, b \in Nat : Unset[a][b] = unset_elem(a, b, Unset)
  <1> DEFINE V == [Nat -> SUBSET Nat]
             Is(g) == g = [a \in Elems |-> [b \in Nat |-> unset_elem(a, b, g)]]
             F == [g \in [Elems -> V] |-> [a \in Elems |-> [b \in Nat |-> unset_elem(a, b, g)]]]
  <1>0. Unset = CHOOSE g : Is(g)
    BY DEF Unset
  <1>1. Finders = [Elems -> V]
    BY DEF Finders
  <1>2. ASSUME NEW g \in [Elems -> V]
        PROVE  [a \in Elems |-> [b \in Nat |-> unset_elem(a, b, g)]] \in [Elems -> V]
    <2>1. \A a \in Elems, b \in Nat : unset_elem(a, b, g) \in SUBSET Nat
      BY <1>1, UnsetType
    <2>2. QED
      BY <2>1
  <1>3. F \in [[Elems -> V] -> [Elems -> V]]
    <2> HIDE DEF V
    <2>1. QED
      BY <1>2
  <1>4. Smaller(Elems, V, Rank, F)
    <2> SUFFICES ASSUME NEW g \in [Elems -> V], NEW h \in [Elems -> V], NEW a \in Elems,
                        \A y \in Elems : Rank[y] < Rank[a] => g[y] = h[y]
                 PROVE  F[g][a] = F[h][a]
      BY DEF Smaller
    <2>1. \A b \in Nat : unset_elem(a, b, g) = unset_elem(a, b, h)
      <3>1. \A v \in Seq(Elems) : a = <<"tuple", v>> => \A i \in 1..Len(v) : g[v[i]] = h[v[i]]
        BY RankNested
      <3>2. QED
        BY <3>1, UnsetSame
    <2> HIDE DEF V
    <2>2. /\ F[g][a] = [b \in Nat |-> unset_elem(a, b, g)]
          /\ F[h][a] = [b \in Nat |-> unset_elem(a, b, h)]
      OBVIOUS
    <2>3. QED
      BY <2>1, <2>2
  <1>5. Recursive(Elems, V, Rank, F)
    <2>1. V # {}
      <3>1. [b \in Nat |-> {}] \in V
        OBVIOUS
      <3>2. QED
        BY <3>1
    <2> HIDE DEF V, F
    <2>2. QED
      BY <1>3, <1>4, <2>1, RankFacts DEF Recursive
  <1>6. PICK g \in [Elems -> V] : Is(g)
    <2>1. \A g \in [Elems -> V] : g = F[g] => Is(g)
      <3> HIDE DEF V
      <3>1. QED
        OBVIOUS
    <2> HIDE DEF V, F, Is
    <2>2. PICK g \in [Elems -> V] : g = F[g]
      BY <1>5, Recursion
    <2>3. QED
      BY <2>1, <2>2
  <1>7. Is(Unset)
    <2> HIDE DEF Is
    <2>1. QED
      BY <1>0, <1>6, Zenon
  <1>8. \A a \in Elems, b \in Nat : Unset[a][b] = unset_elem(a, b, Unset)
    BY <1>7, ZenonT(30)
  <1>9. \A a \in Elems : Unset[a] = g[a]
    <2> DEFINE S == {a \in Elems : Unset[a] = g[a]}
    <2>1. ASSUME NEW a \in Elems,
                 \A v \in Seq(Elems) : a = <<"tuple", v>> => \A i \in 1..Len(v) : v[i] \in S
          PROVE  a \in S
      <3>1. PICK h : h = Unset
        OBVIOUS
      <3>2. \A v \in Seq(Elems) : a = <<"tuple", v>> => \A i \in 1..Len(v) : h[v[i]] = g[v[i]]
        BY <2>1, <3>1
      <3>3. \A b \in Nat : unset_elem(a, b, h) = unset_elem(a, b, g)
        <4> HIDE DEF S, V
        <4>1. QED
          BY <3>2, UnsetSame
      <3>4. Unset[a] = [b \in Nat |-> unset_elem(a, b, h)]
              /\ g[a] = [b \in Nat |-> unset_elem(a, b, g)]
        <4> HIDE DEF V
        <4>1. QED
          BY <1>6, <1>7, <3>1
      <3>5. QED
        BY <3>3, <3>4
    <2>2. \A e \in Flat : e \in S
      <3> SUFFICES ASSUME NEW e \in Flat PROVE e \in S
        OBVIOUS
      <3>1. e \in Elems /\ \A v : e # <<"tuple", v>>
        BY FlatElems, FlatType
      <3> HIDE DEF S
      <3>2. QED
        BY <2>1, <3>1
    <2>3. \A v \in Seq(Elems) : <<"tuple", v>> \in Elems /\ v \in Seq(S) => <<"tuple", v>> \in S
      <3> HIDE DEF S
      <3> SUFFICES ASSUME NEW v \in Seq(Elems), <<"tuple", v>> \in Elems, v \in Seq(S)
                   PROVE  <<"tuple", v>> \in S
        OBVIOUS
      <3>1. \A i \in 1..Len(v) : v[i] \in S
        OBVIOUS
      <3>2. PICK e \in Elems : e = <<"tuple", v>>
        OBVIOUS
      <3>3. \A u \in Seq(Elems) : e = <<"tuple", u>> => u = v
        BY <3>2
      <3>4. e \in S
        BY <2>1, <3>1, <3>3
      <3>5. QED
        BY <3>2, <3>4
    <2> HIDE DEF S
    <2>4. \A e \in Elems : e \in S
      BY <2>2, <2>3, ElemInduction
    <2>5. QED
      BY <2>4 DEF S
  <1>10. Unset \in [Elems -> V]
    <2>1. Unset = [a \in Elems |-> Unset[a]]
      BY <1>7
    <2> HIDE DEF V
    <2>2. QED
      BY <1>9, <2>1
  <1>11. QED
    BY <1>1, <1>8, <1>10

-----------------------------------------------------------------------------
(* Elements with their versionstamp filled in *)

\* The stamps that the database gives are strings.
LEMMA StampStr == \A s \in Stamps : s \in Str /\ Len(s) = StampLen
  <1>1. StampLen \in Nat /\ Stamps \subseteq [1..StampLen -> Bytes]
    BY TupleAssumption, TupleStoreAssumption
  <1>2. QED
    BY <1>1, FixedStr

\* A versionstamp is the bytes that the database fills in, and the rest.
LEMMA StampSplit ==
    ASSUME NEW w \in Str, Len(w) >= StampLen
    PROVE  \E a \in Str, r \in Str : Len(a) = StampLen /\ w = Cat(a, r)
                                     /\ r = SubSeq(w, StampLen + 1, Len(w))
                                     /\ Len(r) = Len(w) - StampLen
  <1>1. StampLen \in Nat /\ StampLen > 0 /\ Len(w) \in Nat /\ w \in [1..Len(w) -> Bytes]
    BY TupleAssumption, StrFacts
  <1>2. PICK a : a = SubSeq(w, 1, StampLen)
    OBVIOUS
  <1>3. PICK r : r = SubSeq(w, StampLen + 1, Len(w))
    OBVIOUS
  <1>4. a \in Str /\ Len(a) = StampLen /\ \A i \in 1..StampLen : a[i] = w[i]
    BY <1>1, <1>2 DEF Str
  <1>5. r \in Str /\ Len(r) = Len(w) - StampLen /\ \A i \in 1..(Len(w) - StampLen) : r[i] = w[StampLen + i]
    <2>1. PICK n \in Nat : n = StampLen + 1
      BY <1>1
    <2>x. PICK m : m = Len(w)
      OBVIOUS
    <2>2. m \in Nat /\ m = Len(w) /\ n <= m + 1
      BY <1>1, <2>1, <2>x
    <2>3. \A i \in n..m : w[i] \in Bytes
      BY <1>1, <2>1, <2>2
    <2>4. /\ r \in Str /\ Len(r) = IF n <= m THEN m - n + 1 ELSE 0
          /\ \A i \in 1..(m - n + 1) : r[i] = w[n + i - 1]
      BY <1>3, <2>1, <2>2, <2>3, SubSeqProperties DEF Str
    <2>5. m - n + 1 = Len(w) - StampLen
      BY <1>1, <2>1, <2>2
    <2>6. Len(r) = m - n + 1
      BY <2>1, <2>2, <2>4
    <2>7. ASSUME NEW i \in 1..(m - n + 1) PROVE r[i] = w[StampLen + i]
      <3>1. r[i] = w[n + i - 1]
        BY <2>4
      <3>2. n + i - 1 = StampLen + i
        BY <1>1, <2>1
      <3>3. QED
        BY <3>1, <3>2
    <2>8. QED
      BY <2>4, <2>5, <2>6, <2>7
  <1>6. PICK c \in Str : c = Cat(a, r)
    BY <1>4, <1>5, CatStr
  <1>7. /\ Len(c) = Len(a) + Len(r) /\ \A i \in 1..Len(a) : c[i] = a[i]
        /\ \A i \in 1..Len(r) : c[Len(a) + i] = r[i]
    <2>1. a \in Seq(Nat) /\ r \in Seq(Nat)
      BY <1>4, <1>5, StrFacts
    <2>2. QED
      BY <1>6, <2>1, ConcatPoints DEF Cat
  <1>8. Len(c) = Len(w)
    BY <1>1, <1>4, <1>5, <1>7
  <1>9. \A i \in 1..Len(w) : c[i] = w[i]
    <2> SUFFICES ASSUME NEW i \in 1..Len(w) PROVE c[i] = w[i]
      OBVIOUS
    <2>1. CASE i <= StampLen
      BY <1>1, <1>4, <1>7, <2>1
    <2>2. CASE i > StampLen
      <3>1. PICK j \in 1..(Len(w) - StampLen) : i = StampLen + j
        <4>1. i - StampLen \in 1..(Len(w) - StampLen) /\ i = StampLen + (i - StampLen)
          BY <1>1, <2>2
        <4>2. QED
          BY <4>1
      <3>2. QED
        BY <1>4, <1>5, <1>7, <3>1
    <2>3. QED
      BY <1>1, <2>1, <2>2
  <1>10. c = w
    <2>1. c \in [1..Len(c) -> Bytes]
      BY StrFacts
    <2>2. QED
      BY <1>1, <1>8, <1>9, <2>1
  <1>11. QED
    BY <1>3, <1>4, <1>5, <1>6, <1>10

\* A completed element, by its type.
LEMMA CompleteElem ==
    ASSUME NEW e, NEW s, NEW g
    PROVE  /\ Incomplete(e) => complete_elem(e, s, g) =
                  <<e[1], Cat(s, SubSeq(e[2], StampLen + 1, Len(e[2])))>>
           /\ e[1] = "tuple" => complete_elem(e, s, g) = <<"tuple", [i \in DOMAIN e[2] |-> g[e[2][i]][s]]>>
           /\ ~Incomplete(e) /\ e[1] # "tuple" => complete_elem(e, s, g) = e
           /\ Incomplete(e) => e[1] # "tuple"
  <1>1. Incomplete(e) => e[1] # "tuple"
    BY DEF Incomplete
  <1>2. CASE Incomplete(e)
    BY <1>1, <1>2 DEF complete_elem, Cat
  <1>3. CASE e[1] = "tuple"
    BY <1>1, <1>3 DEF complete_elem
  <1>4. CASE ~Incomplete(e) /\ e[1] # "tuple"
    BY <1>4 DEF complete_elem
  <1>5. QED
    BY <1>1, <1>2, <1>3, <1>4

\* An incomplete versionstamp, and what it becomes.
LEMMA Incompletes ==
    ASSUME NEW e \in Elems, Incomplete(e), NEW s \in Stamps, NEW g
    PROVE  \E t \in Fixeds, a \in Str, r \in Str :
              /\ Len(a) = StampLen /\ e = <<t, Cat(a, r)>> /\ Size(t) = StampLen + Len(r)
              /\ complete_elem(e, s, g) = <<t, Cat(s, r)>>
              /\ complete_elem(e, s, g) \in Flat
  <1>1. PICK t \in Fixeds, w \in Str : Len(w) = Size(t) /\ e = <<t, w>> /\ t \in {"vs80", "vs96"}
    <2>1. e[1] \in {"vs80", "vs96"}
      BY DEF Incomplete
    <2>2. QED
      BY <2>1, ElemCases DEF FlatIs
  <1>2. StampLen \in Nat /\ Len(w) >= StampLen /\ Len(w) \in Nat
    BY <1>1, FixedFacts, TupleAssumption
  <1>3. PICK a \in Str, r \in Str : Len(a) = StampLen /\ w = Cat(a, r)
                                     /\ r = SubSeq(w, StampLen + 1, Len(w))
                                     /\ Len(r) = Len(w) - StampLen
    BY <1>2, StampSplit
  <1>4. e[1] = t /\ e[2] = w
    BY <1>1
  <1>5. complete_elem(e, s, g) = <<t, Cat(s, r)>>
    BY <1>3, <1>4, CompleteElem
  <1>6. Cat(s, r) \in Str /\ Len(Cat(s, r)) = Size(t)
    <2>1. s \in Str /\ Len(s) = StampLen
      BY StampStr
    <2>2. Cat(s, r) \in Str /\ Len(Cat(s, r)) = Len(s) + Len(r)
      BY <2>1, CatLen
    <2>3. QED
      BY <1>1, <1>2, <1>3, <2>1, <2>2
  <1>7. complete_elem(e, s, g) \in Flat
    <2>1. FlatIs(<<t, Cat(s, r)>>)
      BY <1>6 DEF FlatIs
    <2>2. QED
      BY <1>5, <2>1, FlatCases
  <1>8. Size(t) = StampLen + Len(r)
    BY <1>1, <1>2, <1>3
  <1>9. QED
    BY <1>1, <1>3, <1>5, <1>7, <1>8

\* A completed element is one of the same type.
LEMMA CompleteFlat ==
    ASSUME NEW e \in Flat, NEW s \in Stamps, NEW g
    PROVE  complete_elem(e, s, g) \in Flat
  <1>1. e \in Elems /\ e[1] # "tuple"
    BY FlatElems, FlatType
  <1>2. CASE Incomplete(e)
    BY <1>1, <1>2, Incompletes
  <1>3. CASE ~Incomplete(e)
    BY <1>1, <1>3, CompleteElem
  <1>4. QED
    BY <1>2, <1>3

\* g completes elements, where the result is an element.
Completes(g) ==
    \A e \in Elems, s \in Stamps :
        \/ g[e][s] = complete_elem(e, s, g)
        \/ complete_elem(e, s, g) \notin Elems /\ g[e][s] = e

\* It always is, nested as deep.
SameDepth(g, e) ==
    \A s \in Stamps : /\ complete_elem(e, s, g) \in Elems
                      /\ \A n \in Nat : e \in Nesting[n] => g[e][s] \in Nesting[n]

\* Completed elements are nested as deep as before.
LEMMA CompletesDepth ==
    ASSUME NEW g, Completes(g)
    PROVE  \A e \in Elems : SameDepth(g, e)
  <1> DEFINE S == {e \in Elems : SameDepth(g, e)}
  <1>1. ASSUME NEW e \in Flat PROVE e \in S
    <2>1. e \in Elems
      BY FlatElems
    <2>2. ASSUME NEW s \in Stamps
          PROVE  complete_elem(e, s, g) \in Elems /\ \A n \in Nat : g[e][s] \in Nesting[n]
      <3>1. complete_elem(e, s, g) \in Flat /\ complete_elem(e, s, g) \in Elems
        BY CompleteFlat, FlatElems
      <3>2. g[e][s] = complete_elem(e, s, g)
        BY <2>1, <3>1 DEF Completes
      <3>3. QED
        BY <3>1, <3>2, NestingMonotone
    <2>3. QED
      BY <2>1, <2>2 DEF SameDepth
  <1>2. ASSUME NEW v \in Seq(Elems), <<"tuple", v>> \in Elems, v \in Seq(S)
        PROVE  <<"tuple", v>> \in S
    <2>1. PICK e \in Elems : e = <<"tuple", v>> /\ e[1] = "tuple" /\ e[2] = v
      BY <1>2
    <2>2. \A i \in 1..Len(v) : SameDepth(g, v[i])
      BY <1>2
    <2>3. ASSUME NEW s \in Stamps, NEW n \in Nat, e \in Nesting[n]
          PROVE  complete_elem(e, s, g) \in Nesting[n]
      <3>1. n # 0 /\ n - 1 \in Nat /\ v \in Seq(Nesting[n - 1])
        BY <2>1, <2>3, NestedIn
      <3>2. PICK A : A = Nesting[n - 1]
        OBVIOUS
      <3>3. \A i \in 1..Len(v) : g[v[i]][s] \in A
        BY <2>2, <3>1, <3>2 DEF SameDepth
      <3>4. [i \in 1..Len(v) |-> g[v[i]][s]] \in Seq(A)
        BY <3>3
      <3>5. complete_elem(e, s, g) = <<"tuple", [i \in 1..Len(v) |-> g[v[i]][s]]>>
        <4>1. DOMAIN v = 1..Len(v)
          OBVIOUS
        <4>2. QED
          BY <2>1, <4>1, CompleteElem, SMTT(30)
      <3>6. Nesting[n] = Deeper(A)
        BY <3>1, <3>2, NestingFacts
      <3>7. QED
        BY <3>4, <3>5, <3>6 DEF Deeper
    <2>4. ASSUME NEW s \in Stamps
          PROVE  complete_elem(e, s, g) \in Elems /\ g[e][s] = complete_elem(e, s, g)
      <3>1. complete_elem(e, s, g) \in Elems
        BY <2>3, TupleAssumption DEF Elems
      <3>2. QED
        BY <3>1 DEF Completes
    <2>5. SameDepth(g, e)
      BY <2>3, <2>4 DEF SameDepth
    <2>6. QED
      BY <2>1, <2>5
  <1> HIDE DEF S
  <1>3. \A e \in Elems : e \in S
    BY <1>1, <1>2, ElemInduction
  <1>4. QED
    BY <1>3 DEF S

\* Completing needs only what is nested in the element.
LEMMA CompleteSame ==
    ASSUME NEW e \in Elems, NEW s, NEW g, NEW h,
           \A v \in Seq(Elems) : e = <<"tuple", v>> => \A i \in 1..Len(v) : g[v[i]] = h[v[i]]
    PROVE  complete_elem(e, s, g) = complete_elem(e, s, h)
  <1>1. CASE Incomplete(e)
    BY <1>1, CompleteElem
  <1>2. CASE e[1] = "tuple"
    <2>1. PICK v \in Seq(Elems) : e = <<"tuple", v>>
      BY <1>2, TupleElem
    <2>2. e[2] = v /\ DOMAIN v = 1..Len(v)
      BY <2>1
    <2>3. \A i \in 1..Len(v) : g[v[i]] = h[v[i]]
      BY <2>1
    <2>4. [i \in 1..Len(v) |-> g[v[i]][s]] = [i \in 1..Len(v) |-> h[v[i]][s]]
      BY <2>3
    <2>5. /\ complete_elem(e, s, g) = <<"tuple", [i \in 1..Len(v) |-> g[v[i]][s]]>>
          /\ complete_elem(e, s, h) = <<"tuple", [i \in 1..Len(v) |-> h[v[i]][s]]>>
      BY <1>2, <2>2, CompleteElem
    <2>6. QED
      BY <2>4, <2>5
  <1>3. CASE ~Incomplete(e) /\ e[1] # "tuple"
    BY <1>3, CompleteElem
  <1>4. QED
    BY <1>1, <1>2, <1>3

\* complete_elem(e, s, g), if it is an element.
CompleteOr(e, s, g) == IF complete_elem(e, s, g) \in Elems THEN complete_elem(e, s, g) ELSE e

\* Every element can be completed.
LEMMA CompletedFunction ==
    /\ Completed \in [Elems -> [Stamps -> Elems]]
    /\ \A e \in Elems, s \in Stamps : Completed[e][s] = complete_elem(e, s, Completed)
  <1> DEFINE V == [Stamps -> Elems]
             Is(g) == g = [a \in Elems |-> [s \in Stamps |-> complete_elem(a, s, g)]]
             F == [g \in [Elems -> V] |-> [a \in Elems |-> [s \in Stamps |-> CompleteOr(a, s, g)]]]
  <1>0. Completed = CHOOSE g : Is(g)
    BY DEF Completed
  <1>1. \A e, s, g : e \in Elems => CompleteOr(e, s, g) \in Elems
    BY DEF CompleteOr
  <1>2. ASSUME NEW g \in [Elems -> V]
        PROVE  [a \in Elems |-> [s \in Stamps |-> CompleteOr(a, s, g)]] \in [Elems -> V]
    BY <1>1
  <1>3. F \in [[Elems -> V] -> [Elems -> V]]
    <2> HIDE DEF V
    <2>1. QED
      BY <1>2
  <1>4. Smaller(Elems, V, Rank, F)
    <2> SUFFICES ASSUME NEW g \in [Elems -> V], NEW h \in [Elems -> V], NEW a \in Elems,
                        \A y \in Elems : Rank[y] < Rank[a] => g[y] = h[y]
                 PROVE  F[g][a] = F[h][a]
      BY DEF Smaller
    <2>1. \A s \in Stamps : CompleteOr(a, s, g) = CompleteOr(a, s, h)
      <3>1. \A v \in Seq(Elems) : a = <<"tuple", v>> => \A i \in 1..Len(v) : g[v[i]] = h[v[i]]
        BY RankNested
      <3>2. \A s \in Stamps : complete_elem(a, s, g) = complete_elem(a, s, h)
        BY <3>1, CompleteSame
      <3>3. QED
        BY <3>2 DEF CompleteOr
    <2> HIDE DEF V
    <2>2. /\ F[g][a] = [s \in Stamps |-> CompleteOr(a, s, g)]
          /\ F[h][a] = [s \in Stamps |-> CompleteOr(a, s, h)]
      OBVIOUS
    <2>3. QED
      BY <2>1, <2>2
  <1>5. Recursive(Elems, V, Rank, F)
    <2>1. V # {}
      <3>1. <<"null", 0>> \in Elems
        BY FlatElems, FlatCases DEF FlatIs
      <3>2. [s \in Stamps |-> <<"null", 0>>] \in V
        BY <3>1
      <3>3. QED
        BY <3>2
    <2> HIDE DEF V, F
    <2>2. QED
      BY <1>3, <1>4, <2>1, RankFacts DEF Recursive
  <1>6. PICK g \in [Elems -> V] : Is(g)
    <2>1. \A g \in [Elems -> V] : g = F[g] => g = [a \in Elems |-> [s \in Stamps |-> CompleteOr(a, s, g)]]
      <3> HIDE DEF V
      <3>1. QED
        OBVIOUS
    <2>2. PICK g \in [Elems -> V] : g = F[g]
      <3> HIDE DEF V, F
      <3>1. QED
        BY <1>5, Recursion
    <2>3. g = [a \in Elems |-> [s \in Stamps |-> CompleteOr(a, s, g)]]
      <3> HIDE DEF V, F
      <3>1. QED
        BY <2>1, <2>2
    <2> HIDE DEF V, F
    <2>4. \A a \in Elems, s \in Stamps : g[a][s] = CompleteOr(a, s, g)
      BY <2>3
    <2>5. Completes(g)
      BY <2>4 DEF Completes, CompleteOr
    <2>6. \A a \in Elems, s \in Stamps : CompleteOr(a, s, g) = complete_elem(a, s, g)
      BY <2>5, CompletesDepth DEF SameDepth, CompleteOr
    <2>7. Is(g)
      BY <2>3, <2>6
    <2>8. QED
      BY <2>7
  <1>7. Is(Completed)
    <2> HIDE DEF Is
    <2>1. QED
      BY <1>0, <1>6, Zenon
  <1>8. \A a \in Elems, s \in Stamps : Completed[a][s] = complete_elem(a, s, Completed)
    BY <1>7, ZenonT(30)
  <1>9. Completes(Completed)
    BY <1>8 DEF Completes
  <1>10. \A a \in Elems, s \in Stamps : Completed[a][s] \in Elems
    BY <1>8, <1>9, CompletesDepth DEF SameDepth
  <1>11. Completed \in [Elems -> V]
    <2>1. Completed = [a \in Elems |-> [s \in Stamps |-> Completed[a][s]]]
      BY <1>7, <1>8
    <2>2. [a \in Elems |-> [s \in Stamps |-> Completed[a][s]]] \in [Elems -> V]
      BY <1>10
    <2>3. QED
      BY <2>1, <2>2
  <1>12. QED
    BY <1>8, <1>11

-----------------------------------------------------------------------------
(* The positions of versionstamps *)

\* m is k with the stamp s in the place of the bytes after the first p.
FilledAt(k, p, s, m) ==
    \E a, w, b \in Str :
        Len(a) = p /\ Len(w) = StampLen /\ k = Cat(a, Cat(w, b)) /\ m = Cat(a, Cat(s, b))

\* P are the positions of stamps in k, and m is k with the stamp s filled in, if there is one.
Fills(k, P, s, m) ==
    /\ \A p \in P : p \in Nat /\ p + StampLen <= Len(k)
    /\ P = {} => m = k
    /\ \A p : P = {p} => FilledAt(k, p, s, m)

\* Nothing is filled in where there is no stamp.
LEMMA FillsNone == ASSUME NEW k, NEW s PROVE Fills(k, {}, s, k)
  BY DEF Fills

\* The positions in two strings that are joined.
JoinedAt(P, n, Q) == P \cup {n + q : q \in Q}

\* A stamp is filled in before other bytes.
LEMMA FilledBefore ==
    ASSUME NEW k \in Str, NEW m \in Str, NEW l \in Str, NEW s \in Str, NEW p, FilledAt(k, p, s, m)
    PROVE  FilledAt(Cat(k, l), p, s, Cat(m, l))
  <1>1. PICK a \in Str, w \in Str, b \in Str :
           Len(a) = p /\ Len(w) = StampLen /\ k = Cat(a, Cat(w, b)) /\ m = Cat(a, Cat(s, b))
    BY DEF FilledAt
  <1>2. PICK c \in Str : c = Cat(b, l)
    BY CatStr
  <1>3. Cat(k, l) = Cat(a, Cat(w, c)) /\ Cat(m, l) = Cat(a, Cat(s, c))
    BY <1>1, <1>2, CatAssociative4
  <1>4. QED
    BY <1>1, <1>3 DEF FilledAt

\* A stamp is filled in after other bytes.
LEMMA FilledAfter ==
    ASSUME NEW k \in Str, NEW m \in Str, NEW l \in Str, NEW s \in Str, NEW p \in Nat, FilledAt(k, p, s, m)
    PROVE  FilledAt(Cat(l, k), Len(l) + p, s, Cat(l, m))
  <1>1. PICK a \in Str, w \in Str, b \in Str :
           Len(a) = p /\ Len(w) = StampLen /\ k = Cat(a, Cat(w, b)) /\ m = Cat(a, Cat(s, b))
    BY DEF FilledAt
  <1>2. PICK c \in Str : c = Cat(l, a) /\ Len(c) = Len(l) + Len(a)
    BY CatLen
  <1>3. PICK x \in Str, y \in Str : x = Cat(w, b) /\ y = Cat(s, b)
    BY CatStr
  <1>4. Cat(l, k) = Cat(c, x) /\ Cat(l, m) = Cat(c, y)
    BY <1>1, <1>2, <1>3, CatStr
  <1>5. QED
    BY <1>1, <1>2, <1>3, <1>4 DEF FilledAt

\* A stamp is filled in in one of two strings that are joined.
LEMMA FillsJoined ==
    ASSUME NEW k \in Str, NEW m \in Str, NEW l \in Str, NEW n \in Str, NEW s \in Str, NEW P, NEW Q,
           Fills(k, P, s, m), Fills(l, Q, s, n)
    PROVE  Fills(Cat(k, l), JoinedAt(P, Len(k), Q), s, Cat(m, n))
  <1>1. PICK R : R = JoinedAt(P, Len(k), Q)
    OBVIOUS
  <1>2. \A r : r \in R <=> r \in P \/ \E q \in Q : r = Len(k) + q
    BY <1>1 DEF JoinedAt
  <1>3. /\ Len(k) \in Nat /\ Len(l) \in Nat /\ Len(Cat(k, l)) = Len(k) + Len(l)
        /\ StampLen \in Nat /\ StampLen > 0
    BY CatLen, TupleAssumption
  <1>4. /\ \A p \in P : p \in Nat /\ p + StampLen <= Len(k)
        /\ \A q \in Q : q \in Nat /\ q + StampLen <= Len(l)
    BY DEF Fills
  <1>5. ASSUME NEW r \in R PROVE r \in Nat /\ r + StampLen <= Len(Cat(k, l))
    <2>1. CASE r \in P
      BY <1>3, <1>4, <2>1
    <2>2. CASE \E q \in Q : r = Len(k) + q
      BY <1>3, <1>4, <2>2
    <2>3. QED
      BY <1>2, <2>1, <2>2
  <1>6. ASSUME R = {} PROVE Cat(m, n) = Cat(k, l)
    <2>1. P = {} /\ Q = {}
      BY <1>2, <1>6
    <2>2. QED
      BY <2>1 DEF Fills
  <1>7. ASSUME NEW p, R = {p} PROVE FilledAt(Cat(k, l), p, s, Cat(m, n))
    <2>0. \A r : r \in R <=> r = p
      BY <1>7
    <2>1. CASE p \in P
      <3>1. \A r \in P : r = p
        BY <1>2, <2>0
      <3>2. P = {p}
        BY <2>1, <3>1
      <3>3. ASSUME NEW q \in Q PROVE FALSE
        <4>1. Len(k) + q = p
          BY <1>2, <2>0
        <4>2. QED
          BY <1>3, <1>4, <2>1, <4>1
      <3>4. Q = {}
        BY <3>3
      <3>5. FilledAt(k, p, s, m) /\ n = l
        BY <3>2, <3>4 DEF Fills
      <3>6. QED
        BY <3>5, FilledBefore
    <2>2. CASE p \notin P
      <3>1. PICK q \in Q : p = Len(k) + q
        BY <1>2, <2>0, <2>2
      <3>2. P = {}
        BY <1>2, <2>0, <2>2
      <3>3. ASSUME NEW r \in Q PROVE r = q
        <4>1. Len(k) + r = p
          BY <1>2, <2>0
        <4>2. QED
          BY <1>3, <1>4, <3>1, <4>1
      <3>4. Q = {q} /\ q \in Nat
        BY <1>4, <3>1, <3>3
      <3>5. FilledAt(l, q, s, n) /\ m = k
        BY <3>2, <3>4 DEF Fills
      <3>6. QED
        BY <3>1, <3>4, <3>5, FilledAfter
    <2>3. QED
      BY <2>1, <2>2
  <1>8. QED
    BY <1>1, <1>5, <1>6, <1>7 DEF Fills

\* The elements of a tuple, completed.
CompletedAll(v, s) == [i \in DOMAIN v |-> Completed[v[i]][s]]

\* A completed tuple is a tuple.
LEMMA CompletedSeq ==
    ASSUME NEW v \in Seq(Elems), NEW s \in Stamps
    PROVE  /\ CompletedAll(v, s) \in Seq(Elems) /\ Len(CompletedAll(v, s)) = Len(v)
           /\ \A i \in 1..Len(v) : CompletedAll(v, s)[i] = Completed[v[i]][s]
  <1>1. \A i \in 1..Len(v) : Completed[v[i]][s] \in Elems
    BY CompletedFunction
  <1>2. CompletedAll(v, s) = [i \in 1..Len(v) |-> Completed[v[i]][s]]
    <2>1. DOMAIN v = 1..Len(v)
      OBVIOUS
    <2>2. QED
      BY <2>1 DEF CompletedAll
  <1>3. Len(v) \in Nat
    OBVIOUS
  <1>4. QED
    BY <1>1, <1>2, <1>3

\* A tuple with one more element.
Longer(w, v, e) ==
    /\ w = Append(v, e) /\ Len(w) = Len(v) + 1 /\ w[Len(v) + 1] = e
    /\ \A i \in 1..Len(v) : w[i] = v[i]

\* A tuple with one more element is a tuple.
LEMMA LongerElems ==
    ASSUME NEW v \in Seq(Elems), NEW e \in Elems
    PROVE  \E w \in Seq(Elems) : Longer(w, v, e)
  <1>1. Append(v, e) \in Seq(Elems)
    BY AppendFacts
  <1>2. Longer(Append(v, e), v, e)
    BY AppendFacts DEF Longer
  <1>3. QED
    BY <1>1, <1>2

\* The last element of a tuple is completed like the others.
LEMMA CompletedAppend ==
    ASSUME NEW v \in Seq(Elems), NEW e \in Elems, NEW s \in Stamps
    PROVE  CompletedAll(Append(v, e), s) = Append(CompletedAll(v, s), Completed[e][s])
  <1>1. PICK f \in Elems : f = Completed[e][s]
    BY CompletedFunction
  <1>2. PICK u \in Seq(Elems) : u = CompletedAll(v, s) /\ Len(u) = Len(v)
                                /\ \A i \in 1..Len(v) : u[i] = Completed[v[i]][s]
    BY CompletedSeq
  <1>3. PICK w \in Seq(Elems) : /\ w = Append(v, e) /\ Len(w) = Len(v) + 1 /\ w[Len(v) + 1] = e
                                /\ \A i \in 1..Len(v) : w[i] = v[i]
    BY LongerElems DEF Longer
  <1>4. PICK x \in Seq(Elems) : x = CompletedAll(w, s) /\ Len(x) = Len(w)
                                /\ \A i \in 1..Len(w) : x[i] = Completed[w[i]][s]
    BY CompletedSeq
  <1>5. PICK y \in Seq(Elems) : /\ y = Append(u, f) /\ Len(y) = Len(u) + 1 /\ y[Len(u) + 1] = f
                                /\ \A i \in 1..Len(u) : y[i] = u[i]
    BY LongerElems DEF Longer
  <1>6. Len(x) = Len(y) /\ Len(v) \in Nat
    BY <1>2, <1>3, <1>4, <1>5
  <1>7. ASSUME NEW i \in 1..Len(x) PROVE x[i] = y[i]
    <2>1. CASE i \in 1..Len(v)
      BY <1>2, <1>3, <1>4, <1>5, <2>1
    <2>2. CASE i = Len(v) + 1
      BY <1>1, <1>2, <1>3, <1>4, <1>5, <2>2
    <2>3. QED
      BY <1>3, <1>4, <1>6, <2>1, <2>2
  <1>8. x = y
    BY <1>6, <1>7, SeqEqual
  <1>9. QED
    BY <1>1, <1>2, <1>3, <1>4, <1>5, <1>8

\* The positions in the last element are after those in the others.
LEMMA PositionsAppend ==
    ASSUME NEW v \in Seq(Elems), NEW e \in Elems, NEW d \in Nat, NEW g
    PROVE  Positions(Append(v, e), d, g) = JoinedAt(Positions(v, d, g), Len(encodes(v, d)), g[e][d])
  <1>1. PICK w \in Seq(Elems) : /\ w = Append(v, e) /\ Len(w) = Len(v) + 1 /\ w[Len(v) + 1] = e
                                /\ \A i \in 1..Len(v) : w[i] = v[i]
    BY LongerElems DEF Longer
  <1>2. Len(v) \in Nat
    OBVIOUS
  <1>3. ASSUME NEW i \in 1..Len(v) PROVE Start(w, d, i) = Start(v, d, i)
    <2>1. i - 1 \in Nat /\ i - 1 <= Len(w) /\ i - 1 <= Len(v) /\ \A j \in 1..(i - 1) : w[j] = v[j]
      BY <1>1, <1>2
    <2>2. SubSeq(w, 1, i - 1) = SubSeq(v, 1, i - 1)
      BY <2>1, SameStart
    <2>3. QED
      BY <2>2 DEF Start
  <1>4. Start(w, d, Len(v) + 1) = Len(encodes(v, d))
    <2>1. SubSeq(w, 1, Len(v)) = SubSeq(v, 1, Len(v))
      BY <1>1, <1>2, SameStart
    <2>2. SubSeq(v, 1, Len(v)) = v
      OBVIOUS
    <2>3. (Len(v) + 1) - 1 = Len(v)
      BY <1>2
    <2>4. QED
      BY <2>1, <2>2, <2>3 DEF Start
  <1>5. ASSUME NEW q
        PROVE  q \in Positions(w, d, g) <=>
                  q \in Positions(v, d, g) \/ \E p \in g[e][d] : q = Len(encodes(v, d)) + p
    <2>1. q \in Positions(w, d, g) <=> \E i \in 1..Len(w) : \E p \in g[w[i]][d] : q = Start(w, d, i) + p
      BY PositionsIff
    <2>2. q \in Positions(v, d, g) <=> \E i \in 1..Len(v) : \E p \in g[v[i]][d] : q = Start(v, d, i) + p
      BY PositionsIff
    <2>3. ASSUME q \in Positions(w, d, g)
          PROVE  q \in Positions(v, d, g) \/ \E p \in g[e][d] : q = Len(encodes(v, d)) + p
      <3>1. PICK i \in 1..Len(w) : \E p \in g[w[i]][d] : q = Start(w, d, i) + p
        BY <2>1, <2>3
      <3>2. CASE i = Len(v) + 1
        BY <1>1, <1>4, <3>1, <3>2
      <3>3. CASE i \in 1..Len(v)
        <4>1. w[i] = v[i] /\ Start(w, d, i) = Start(v, d, i)
          BY <1>1, <1>3, <3>3
        <4>2. \E p \in g[v[i]][d] : q = Start(v, d, i) + p
          BY <3>1, <4>1
        <4>3. QED
          BY <2>2, <3>3, <4>2
      <3>4. QED
        BY <1>1, <1>2, <3>1, <3>2, <3>3
    <2>4. ASSUME q \in Positions(v, d, g) PROVE q \in Positions(w, d, g)
      <3>1. PICK i \in 1..Len(v) : \E p \in g[v[i]][d] : q = Start(v, d, i) + p
        BY <2>2, <2>4
      <3>2. w[i] = v[i] /\ Start(w, d, i) = Start(v, d, i) /\ i \in 1..Len(w)
        BY <1>1, <1>2, <1>3
      <3>3. \E p \in g[w[i]][d] : q = Start(w, d, i) + p
        BY <3>1, <3>2
      <3>4. QED
        BY <2>1, <3>2, <3>3
    <2>5. ASSUME \E p \in g[e][d] : q = Len(encodes(v, d)) + p PROVE q \in Positions(w, d, g)
      <3>1. PICK i \in 1..Len(w) : i = Len(v) + 1
        BY <1>1, <1>2
      <3>2. w[i] = e /\ Start(w, d, i) = Len(encodes(v, d))
        BY <1>1, <1>4, <3>1
      <3>3. \E p \in g[w[i]][d] : q = Start(w, d, i) + p
        BY <2>5, <3>2
      <3>4. QED
        BY <2>1, <3>3
    <2>6. QED
      BY <2>3, <2>4, <2>5
  <1>6. QED
    BY <1>1, <1>5 DEF JoinedAt

\* The versionstamp of an element, or of the elements of a tuple, is found and filled in.
FilledElem(e) ==
    \A d \in Nat, s \in Stamps : Fills(encode[e][d], Unset[e][d], s, encode[Completed[e][s]][d])

FilledSeq(v) ==
    \A d \in Nat, s \in Stamps :
        Fills(encodes(v, d), Positions(v, d, Unset), s, encodes(CompletedAll(v, s), d))

\* A tuple is encoded as a string.
LEMMA EncStr ==
    ASSUME NEW v \in Seq(Elems), NEW d \in Nat
    PROVE  encodes(v, d) \in Str
  BY EncsFacts

\* The last element of a tuple is encoded at the end.
LEMMA EncodesAppend ==
    ASSUME NEW v \in Seq(Elems), NEW e \in Elems, NEW d \in Nat
    PROVE  encodes(Append(v, e), d) = Cat(encodes(v, d), encode[e][d])
  <1>1. PICK u \in Seq(Elems) : u = Append(v, e)
    BY LongerElems DEF Longer
  <1>2. encodes(u, d) = FlattenSeq(Encs(u, d)) /\ encodes(v, d) = FlattenSeq(Encs(v, d))
    BY EncsFacts
  <1>3. FlattenSeq(Encs(u, d)) = Cat(FlattenSeq(Encs(v, d)), encode[e][d])
    BY <1>1, EncsAppend
  <1>4. QED
    BY <1>1, <1>2, <1>3

\* The stamp of an element is found and filled in, if nothing is nested.
LEMMA FilledFlat == ASSUME NEW e \in Flat PROVE FilledElem(e)
  <1>1. e \in Elems /\ e[1] # "tuple"
    BY FlatElems, FlatType
  <1> SUFFICES ASSUME NEW d \in Nat, NEW s \in Stamps
               PROVE  Fills(encode[e][d], Unset[e][d], s, encode[Completed[e][s]][d])
    BY DEF FilledElem
  <1>2. Unset[e][d] = unset_elem(e, d, Unset) /\ Completed[e][s] = complete_elem(e, s, Completed)
    BY <1>1, UnsetFunction, CompletedFunction
  <1>3. CASE ~Incomplete(e)
    <2>1. Unset[e][d] = {}
      BY <1>1, <1>2, <1>3, UnsetElem
    <2>2. Completed[e][s] = e
      BY <1>1, <1>2, <1>3, CompleteElem
    <2>3. QED
      BY <2>1, <2>2, FillsNone
  <1>4. CASE Incomplete(e)
    <2>1. Unset[e][d] = {1}
      BY <1>2, <1>4, UnsetElem
    <2>2. PICK t \in Fixeds, a \in Str, r \in Str :
              /\ Len(a) = StampLen /\ e = <<t, Cat(a, r)>> /\ Size(t) = StampLen + Len(r)
              /\ Completed[e][s] = <<t, Cat(s, r)>>
      BY <1>1, <1>2, <1>4, Incompletes
    <2>3. s \in Str /\ Len(s) = StampLen /\ Completed[e][s] \in Elems
      BY <1>1, StampStr, CompletedFunction
    <2>4. PICK x \in Str, y \in Str : x = Cat(a, r) /\ y = Cat(s, r)
      BY <2>3, CatStr
    <2>5. PICK o \in Str : o = One(Fixed[t]) /\ Len(o) = 1
      BY FixedFacts, OneStr
    <2>6. encode[e][d] = Cat(o, Cat(a, r))
      <3>1. encode[e][d] = encode_elem(e, d, encode)
        BY <1>1, EncodeFunction
      <3>2. encode_elem(<<t, x>>, d, encode) = Cat(One(Fixed[t]), x)
        BY EncFixed
      <3>3. QED
        BY <2>2, <2>4, <2>5, <3>1, <3>2
    <2>7. encode[Completed[e][s]][d] = Cat(o, Cat(s, r))
      <3>1. encode[Completed[e][s]][d] = encode_elem(Completed[e][s], d, encode)
        BY <2>3, EncodeFunction
      <3>2. encode_elem(<<t, y>>, d, encode) = Cat(One(Fixed[t]), y)
        BY EncFixed
      <3>3. QED
        BY <2>2, <2>4, <2>5, <3>1, <3>2
    <2>8. FilledAt(encode[e][d], 1, s, encode[Completed[e][s]][d])
      BY <2>2, <2>5, <2>6, <2>7 DEF FilledAt
    <2>9. 1 + StampLen <= Len(encode[e][d])
      <3>1. Len(x) = StampLen + Len(r) /\ Len(r) \in Nat /\ StampLen \in Nat
        BY <2>2, <2>4, CatLen, TupleAssumption
      <3>2. Len(Cat(o, x)) = 1 + Len(x)
        BY <2>5, CatLen
      <3>3. Len(encode[e][d]) = 1 + (StampLen + Len(r))
        BY <2>4, <2>6, <3>1, <3>2
      <3>4. QED
        BY <3>1, <3>3
    <2>10. QED
      BY <2>1, <2>8, <2>9 DEF Fills
  <1>5. QED
    BY <1>3, <1>4

\* It is in one more element of a tuple.
LEMMA FilledAppend ==
    ASSUME NEW v \in Seq(Elems), NEW e \in Elems, FilledSeq(v), FilledElem(e)
    PROVE  FilledSeq(Append(v, e))
  <1>1. PICK u \in Seq(Elems) : u = Append(v, e)
    BY AppendFacts
  <1> SUFFICES ASSUME NEW d \in Nat, NEW s \in Stamps
               PROVE  Fills(encodes(u, d), Positions(u, d, Unset), s, encodes(CompletedAll(u, s), d))
    BY <1>1 DEF FilledSeq
  <1>2. PICK f \in Elems : f = Completed[e][s]
    BY CompletedFunction
  <1>3. PICK c \in Seq(Elems) : c = CompletedAll(v, s)
    BY CompletedSeq
  <1>4. CompletedAll(u, s) = Append(c, f)
    BY <1>1, <1>2, <1>3, CompletedAppend
  <1>5. encodes(u, d) = Cat(encodes(v, d), encode[e][d])
    BY <1>1, EncodesAppend
  <1>6. encodes(Append(c, f), d) = Cat(encodes(c, d), encode[f][d])
    BY EncodesAppend
  <1>7. Positions(u, d, Unset) = JoinedAt(Positions(v, d, Unset), Len(encodes(v, d)), Unset[e][d])
    BY <1>1, PositionsAppend
  <1>8. Fills(encodes(v, d), Positions(v, d, Unset), s, encodes(c, d))
    BY <1>3 DEF FilledSeq
  <1>9. Fills(encode[e][d], Unset[e][d], s, encode[f][d])
    BY <1>2 DEF FilledElem
  <1>10. /\ encodes(v, d) \in Str /\ encodes(c, d) \in Str /\ encode[e][d] \in Str /\ encode[f][d] \in Str
         /\ s \in Str
    BY EncStr, EncodeBegins, StampStr
  <1>11. Fills(Cat(encodes(v, d), encode[e][d]),
               JoinedAt(Positions(v, d, Unset), Len(encodes(v, d)), Unset[e][d]), s,
               Cat(encodes(c, d), encode[f][d]))
    BY <1>8, <1>9, <1>10, FillsJoined
  <1>12. QED
    BY <1>4, <1>5, <1>6, <1>7, <1>11

\* The empty tuple has none.
LEMMA FilledEmpty == FilledSeq(<<>>)
  <1> SUFFICES ASSUME NEW d \in Nat, NEW s \in Stamps
               PROVE  Fills(encodes(<<>>, d), Positions(<<>>, d, Unset), s, encodes(CompletedAll(<<>>, s), d))
    BY DEF FilledSeq
  <1>0. <<>> \in Seq(Elems) /\ Len(<<>>) = 0
    OBVIOUS
  <1>1. PICK v \in Seq(Elems) : v = <<>> /\ Len(v) = 0
    BY <1>0
  <1>2. Positions(v, d, Unset) = {}
    <2>1. \A q : ~(q \in Positions(v, d, Unset))
      <3>1. \A i : ~(i \in 1..0)
        OBVIOUS
      <3>2. QED
        BY <1>1, <3>1, PositionsIff
    <2>2. QED
      BY <2>1
  <1>3. CompletedAll(v, s) = v
    <2>1. CompletedAll(v, s) \in Seq(Elems) /\ Len(CompletedAll(v, s)) = 0
      BY <1>1, CompletedSeq
    <2>2. QED
      BY <1>1, <2>1
  <1>4. Fills(encodes(v, d), Positions(v, d, Unset), s, encodes(CompletedAll(v, s), d))
    BY <1>2, <1>3, FillsNone
  <1>5. QED
    BY <1>1, <1>4

\* If it is in elements, it is in tuples of them.
LEMMA FilledSeqs ==
    ASSUME NEW S \in SUBSET Elems, \A e \in S : FilledElem(e)
    PROVE  \A v \in Seq(S) : FilledSeq(v)
  <1> DEFINE Q == {v \in Seq(S) : FilledSeq(v)}
  <1>1. <<>> \in Q
    BY FilledEmpty
  <1>2. ASSUME NEW v \in Q, NEW e \in S PROVE Append(v, e) \in Q
    <2>1. v \in Seq(S) /\ FilledSeq(v)
      OBVIOUS
    <2>2. v \in Seq(Elems) /\ e \in Elems
      BY <2>1, SeqMonotonic
    <2>3. FilledSeq(Append(v, e))
      BY <2>1, <2>2, FilledAppend
    <2>4. Append(v, e) \in Seq(S)
      BY <2>1, AppendFacts
    <2>5. QED
      BY <2>3, <2>4
  <1>3. Q \in SUBSET Seq(S)
    OBVIOUS
  <1> HIDE DEF Q
  <1>4. \A v \in Seq(S) : v \in Q
    BY <1>1, <1>2, <1>3, SeqInduction
  <1>5. QED
    BY <1>4 DEF Q

\* If it is in the elements of a tuple, it is in the tuple when it is nested.
LEMMA FilledTuple ==
    ASSUME NEW v \in Seq(Elems), <<"tuple", v>> \in Elems, FilledSeq(v)
    PROVE  FilledElem(<<"tuple", v>>)
  <1>1. PICK e \in Elems : e = <<"tuple", v>> /\ e[1] = "tuple" /\ e[2] = v
    OBVIOUS
  <1> SUFFICES ASSUME NEW d \in Nat, NEW s \in Stamps
               PROVE  Fills(encode[e][d], Unset[e][d], s, encode[Completed[e][s]][d])
    BY <1>1 DEF FilledElem
  <1>2. PICK c \in Seq(Elems) : c = CompletedAll(v, s)
    BY CompletedSeq
  <1>3. Completed[e][s] = <<"tuple", c>> /\ <<"tuple", c>> \in Elems
    <2>1. Completed[e][s] = complete_elem(e, s, Completed) /\ Completed[e][s] \in Elems
      BY CompletedFunction
    <2>2. complete_elem(e, s, Completed) = <<"tuple", [i \in DOMAIN v |-> Completed[v[i]][s]]>>
      BY <1>1, CompleteElem
    <2>3. QED
      BY <1>2, <2>1, <2>2 DEF CompletedAll
  <1>4. PICK k \in Nat : k = d + 1
    OBVIOUS
  <1>5. PICK x \in Str, y \in Str : x = encodes(v, k) /\ y = encodes(c, k)
    BY EncStr
  <1>6. encode[e][d] = Cat(One(NESTED), Cat(x, One(NULL)))
    BY <1>1, <1>4, <1>5, EncodeTuple, EncsFacts, ZenonT(30)
  <1>7. encode[Completed[e][s]][d] = Cat(One(NESTED), Cat(y, One(NULL)))
    BY <1>3, <1>4, <1>5, EncodeTuple, EncsFacts, ZenonT(30)
  <1>8. PICK P : P = Positions(v, k, Unset)
    OBVIOUS
  <1>9. Unset[e][d] = {p + 1 : p \in P}
    <2>1. Unset[e][d] = unset_elem(e, d, Unset)
      BY UnsetFunction
    <2>2. unset_elem(e, d, Unset) = {p + 1 : p \in Positions(e[2], d + 1, Unset)}
      BY <1>1, UnsetElem
    <2>3. QED
      BY <1>1, <1>4, <1>8, <2>1, <2>2
  <1>10. /\ One(NESTED) \in Str /\ Len(One(NESTED)) = 1 /\ One(NULL) \in Str /\ s \in Str
         /\ Cat(x, One(NULL)) \in Str /\ Cat(y, One(NULL)) \in Str
    BY OneStr, Codes, StampStr, CatStr
  <1>11. Fills(x, P, s, y)
    BY <1>2, <1>5, <1>8 DEF FilledSeq
  <1>12. Fills(Cat(x, One(NULL)), JoinedAt(P, Len(x), {}), s, Cat(y, One(NULL)))
    BY <1>10, <1>11, FillsNone, FillsJoined
  <1>13. JoinedAt(P, Len(x), {}) = P
    BY DEF JoinedAt
  <1>14. Fills(Cat(One(NESTED), Cat(x, One(NULL))), JoinedAt({}, Len(One(NESTED)), P), s,
               Cat(One(NESTED), Cat(y, One(NULL))))
    <2>1. Fills(One(NESTED), {}, s, One(NESTED))
      BY FillsNone
    <2>2. Fills(Cat(x, One(NULL)), P, s, Cat(y, One(NULL)))
      BY <1>12, <1>13
    <2>3. QED
      BY <1>10, <2>1, <2>2, FillsJoined
  <1>15. JoinedAt({}, Len(One(NESTED)), P) = {p + 1 : p \in P}
    <2>1. P \in SUBSET Nat
      BY <1>8, PositionsType, UnsetFunction
    <2>2. \A p \in P : 1 + p = p + 1
      BY <2>1
    <2>3. JoinedAt({}, Len(One(NESTED)), P) = {1 + p : p \in P}
      BY <1>10 DEF JoinedAt
    <2>4. QED
      BY <2>2, <2>3
  <1>16. QED
    BY <1>6, <1>7, <1>9, <1>14, <1>15

\* It is in every element.
LEMMA FilledElems == \A e \in Elems : FilledElem(e)
  <1> DEFINE S == {e \in Elems : FilledElem(e)}
  <1>1. \A e \in Flat : e \in S
    BY FilledFlat, FlatElems
  <1>2. ASSUME NEW v \in Seq(Elems), <<"tuple", v>> \in Elems, v \in Seq(S)
        PROVE  <<"tuple", v>> \in S
    <2>1. S \in SUBSET Elems /\ \A e \in S : FilledElem(e)
      OBVIOUS
    <2>2. FilledSeq(v)
      <3> HIDE DEF S
      <3>1. QED
        BY <1>2, <2>1, FilledSeqs
    <2>3. QED
      BY <1>2, <2>2, FilledTuple
  <1> HIDE DEF S
  <1>3. \A e \in Elems : e \in S
    BY <1>1, <1>2, ElemInduction
  <1>4. QED
    BY <1>3 DEF S

\* The key with the stamp written at the position.
Written(k, p, s) == [i \in DOMAIN k |-> IF i - p \in 1..StampLen THEN s[i - p] ELSE k[i]]

\* The elements of joined strings.
Joined(c, f, g) ==
    /\ Len(c) = Len(f) + Len(g)
    /\ \A i \in 1..Len(f) : c[i] = f[i]
    /\ \A i \in 1..Len(g) : c[Len(f) + i] = g[i]

\* Cat joins strings.
LEMMA CatJoined == ASSUME NEW f \in Str, NEW g \in Str PROVE Joined(Cat(f, g), f, g)
  <1>1. f \in Seq(Nat) /\ g \in Seq(Nat)
    BY StrFacts
  <1>2. QED
    BY <1>1, ConcatPoints DEF Cat, Joined

\* Writing the stamp at its position fills it in.
LEMMA WrittenFilled ==
    ASSUME NEW k \in Str, NEW p \in Nat, NEW s \in Str, Len(s) = StampLen, NEW m \in Str, FilledAt(k, p, s, m)
    PROVE  Written(k, p, s) = m
  <1>1. PICK a \in Str, w \in Str, b \in Str :
           Len(a) = p /\ Len(w) = StampLen /\ k = Cat(a, Cat(w, b)) /\ m = Cat(a, Cat(s, b))
    BY DEF FilledAt
  <1>2. PICK x \in Str, y \in Str : x = Cat(w, b) /\ y = Cat(s, b)
    BY CatStr
  <1>3. Joined(x, w, b) /\ Joined(y, s, b) /\ Joined(k, a, x) /\ Joined(m, a, y)
    BY <1>1, <1>2, CatJoined
  <1>4. PICK n \in Nat, l \in Nat : n = Len(b) /\ l = StampLen /\ Len(a) = p /\ Len(w) = l /\ Len(s) = l
    BY <1>1, StrFacts, TupleAssumption
  <1>5. Len(x) = l + n /\ Len(y) = l + n
    BY <1>3, <1>4 DEF Joined
  <1>6. Len(k) = p + (l + n) /\ Len(m) = p + (l + n)
    BY <1>3, <1>4, <1>5 DEF Joined
  <1>a. \A i \in 1..p : k[i] = a[i] /\ m[i] = a[i]
    BY <1>3, <1>4 DEF Joined
  <1>b. \A i \in 1..(l + n) : k[p + i] = x[i] /\ m[p + i] = y[i]
    BY <1>3, <1>4, <1>5 DEF Joined
  <1>c. \A i \in 1..l : y[i] = s[i]
    BY <1>3, <1>4 DEF Joined
  <1>d. \A i \in 1..n : x[l + i] = b[i] /\ y[l + i] = b[i]
    BY <1>3, <1>4 DEF Joined
  <1>7. ASSUME NEW i \in 1..(p + (l + n))
        PROVE  m[i] = IF i - p \in 1..StampLen THEN s[i - p] ELSE k[i]
    <2>1. CASE i <= p
      <3>1. i \in 1..p /\ i - p \notin 1..l
        BY <2>1
      <3>2. m[i] = a[i] /\ k[i] = a[i]
        BY <1>a, <3>1
      <3>3. QED
        BY <1>4, <3>1, <3>2
    <2>2. CASE i > p /\ i <= p + l
      <3>1. PICK j : j = i - p
        OBVIOUS
      <3>2. j \in 1..l /\ j \in 1..(l + n) /\ i = p + j
        BY <2>2, <3>1
      <3>3. m[i] = y[j] /\ y[j] = s[j]
        BY <1>b, <1>c, <3>2
      <3>4. QED
        BY <1>4, <3>1, <3>2, <3>3
    <2>3. CASE i > p + l
      <3>1. PICK j : j = i - (p + l)
        OBVIOUS
      <3>2. j \in 1..n /\ l + j \in 1..(l + n) /\ i = p + (l + j) /\ i - p \notin 1..l
        BY <2>3, <3>1
      <3>3. m[i] = y[l + j] /\ k[i] = x[l + j]
        BY <1>b, <3>2
      <3>4. m[i] = k[i]
        BY <1>d, <3>2, <3>3
      <3>5. QED
        BY <1>4, <3>2, <3>4
    <2>4. QED
      BY <2>1, <2>2, <2>3
  <1>8. m \in [1..(p + (l + n)) -> Bytes] /\ DOMAIN k = 1..(p + (l + n))
    BY <1>6, StrFacts
  <1>9. QED
    BY <1>7, <1>8 DEF Written

\* The position that pack_vs/1 gives is the one where the database has to write
\* the stamp: the key is then that of the tuple with the stamp in it.
THEOREM StampedKey ==
    ASSUME NEW v \in Seq(Elems), NEW s \in Stamps, ~pack_vs_raises(v)
    PROVE  /\ Written(pack_vs(v).key, pack_vs(v).pos, s) = pack(CompletedAll(v, s))
           /\ CompletedAll(v, s) \in Seq(Elems)
  <1>1. PICK P : P = Positions(v, 0, Unset)
    OBVIOUS
  <1>2. Cardinality(P) = 1
    BY <1>1 DEF pack_vs_raises, find_incomplete_versionstamp
  <1>3. PICK c \in Seq(Elems) : c = CompletedAll(v, s)
    BY CompletedSeq
  <1>4. FilledSeq(v)
    BY FilledElems, FilledSeqs
  <1>5. Fills(pack(v), P, s, pack(c))
    BY <1>1, <1>3, <1>4 DEF FilledSeq, pack
  <1>6. PICK p : P = {p}
    <2>1. IsFiniteSet(P)
      <3>1. PICK k \in Str : k = pack(v)
        BY PackStr
      <3>2. Len(k) \in Nat /\ StampLen \in Nat
        BY StrFacts, TupleAssumption
      <3>3. P \subseteq 0..Len(k)
        BY <1>5, <3>1, <3>2 DEF Fills
      <3>4. IsFiniteSet(0..Len(k))
        BY <3>2, FS_Interval
      <3>5. QED
        BY <3>3, <3>4, FS_Subset
    <2>2. QED
      BY <1>2, <2>1, FS_Singleton
  <1>7. FilledAt(pack(v), p, s, pack(c)) /\ p \in Nat
    BY <1>5, <1>6 DEF Fills
  <1>8. pack_vs(v).key = pack(v) /\ pack_vs(v).pos = p
    BY <1>1, <1>6 DEF pack_vs, find_incomplete_versionstamp
  <1>9. pack(v) \in Str /\ pack(c) \in Str /\ s \in Str /\ Len(s) = StampLen
    BY PackStr, StampStr
  <1>10. Written(pack(v), p, s) = pack(c)
    BY <1>7, <1>9, WrittenFilled
  <1>11. QED
    BY <1>3, <1>8, <1>10

-----------------------------------------------------------------------------
(* The store *)

Packed(T) == {pack(t) : t \in T}

\* The keys are the packed tuples.
PackedInv ==
    /\ tuples \subseteq Seq(Elems)
    /\ keys = Packed(tuples)
    /\ IsFiniteSet(keys) /\ Cardinality(keys) <= MaxKeys

\* One more tuple is one more key.
LEMMA PackedAdd ==
    ASSUME NEW T, NEW t
    PROVE  Packed(T \cup {t}) = Packed(T) \cup {pack(t)}
  BY DEF Packed

\* clear_range/3 of range/1 removes the longer tuples.
LEMMA ClearedRange ==
    ASSUME NEW T \in SUBSET Seq(Elems), NEW v \in Seq(Elems)
    PROVE  Packed(T) \ {k \in Packed(T) : ~Less(k, range(v).start) /\ Less(k, range(v).end)}
              = Packed({t \in T : ~IsStrictPrefix(v, t)})
  <1> DEFINE In(k) == ~Less(k, range(v).start) /\ Less(k, range(v).end)
             Long(t) == IsStrictPrefix(v, t)
  <1>1. \A t \in T : In(pack(t)) <=> Long(t)
    BY RangeExact
  <1> HIDE DEF In, Long
  <1>2. Packed(T) \ {k \in Packed(T) : In(k)} = Packed({t \in T : ~Long(t)})
    BY <1>1 DEF Packed
  <1>3. QED
    BY <1>2 DEF In, Long

\* clear_range_startswith/2 removes the tuples whose keys have the prefix.
LEMMA ClearedPrefix ==
    ASSUME NEW T \in SUBSET Seq(Elems), NEW p \in KeyPrefixes
    PROVE  Packed(T) \ {k \in Packed(T) : ~Less(k, p) /\ Less(k, strinc(p))}
              = Packed({t \in T : ~IsPrefix(p, pack(t))})
  <1> DEFINE In(k) == ~Less(k, p) /\ Less(k, strinc(p))
             Begun(k) == IsPrefix(p, k)
  <1>1. p \in Str /\ \E i \in DOMAIN p : p[i] # ESCAPE
    BY TupleStoreAssumption DEF Str
  <1>2. \A t \in T : In(pack(t)) <=> Begun(pack(t))
    BY <1>1, PackStr, StrincExact
  <1> HIDE DEF In, Begun
  <1>3. Packed(T) \ {k \in Packed(T) : In(k)} = Packed({t \in T : ~Begun(pack(t))})
    BY <1>2 DEF Packed
  <1>4. QED
    BY <1>3 DEF In, Begun

\* The store begins empty.
LEMMA PackedInit == ASSUME Init PROVE PackedInv
  <1>1. IsFiniteSet({}) /\ Cardinality({}) = 0 /\ MaxKeys \in Nat
    BY FS_EmptySet, TupleStoreAssumption
  <1>2. Packed({}) = {}
    BY DEF Packed
  <1>3. QED
    BY <1>1, <1>2 DEF Init, PackedInv

\* A packed key is set.
LEMMA InsertKept ==
    ASSUME PackedInv, NEW t \in Seq(Elems), Insert(pack(t), t)
    PROVE  PackedInv'
  <1>1. PICK k : k = pack(t)
    OBVIOUS
  <1>2. keys' = keys \cup {k} /\ tuples' = tuples \cup {t} /\ Cardinality(keys \cup {k}) <= MaxKeys
    BY <1>1 DEF Insert
  <1>3. IsFiniteSet(keys \cup {k})
    BY FS_AddElement DEF PackedInv
  <1>4. Packed(tuples') = keys'
    BY <1>1, <1>2, PackedAdd DEF PackedInv
  <1>5. QED
    BY <1>2, <1>3, <1>4 DEF PackedInv

\* Keys and their tuples are removed.
LEMMA RemoveKept ==
    ASSUME PackedInv, NEW K, keys' = keys \ K, tuples' \subseteq tuples, keys' = Packed(tuples')
    PROVE  PackedInv'
  <1>1. IsFiniteSet(keys') /\ Cardinality(keys') <= Cardinality(keys)
    BY FS_Subset DEF PackedInv
  <1>2. Cardinality(keys') \in Nat /\ Cardinality(keys) \in Nat /\ MaxKeys \in Nat
    BY <1>1, FS_CardinalityType, TupleStoreAssumption DEF PackedInv
  <1>3. QED
    BY <1>1, <1>2 DEF PackedInv

\* The key of set_versionstamped_key/3 is the packed tuple with the stamp.
LEMMA StampKept ==
    ASSUME PackedInv, NEW t \in Stamped, NEW s \in Stamps, set_versionstamped_key(t, s)
    PROVE  PackedInv'
  <1>1. t \in Seq(Elems) /\ ~pack_vs_raises(t)
    BY TupleStoreAssumption DEF set_versionstamped_key
  <1>2. PICK c \in Seq(Elems) : /\ c = CompletedAll(t, s)
                                /\ Written(pack_vs(t).key, pack_vs(t).pos, s) = pack(c)
    BY <1>1, StampedKey
  <1>3. Insert(Written(pack_vs(t).key, pack_vs(t).pos, s), CompletedAll(t, s))
    BY DEF set_versionstamped_key, Written, CompletedAll
  <1>4. Insert(pack(c), c)
    BY <1>2, <1>3
  <1>5. QED
    BY <1>4, InsertKept

\* Every operation keeps the keys and the tuples together.
LEMMA PackedNext == ASSUME PackedInv, [Next]_vars PROVE PackedInv'
  <1>1. ASSUME NEW t \in Tuples, set(t) PROVE PackedInv'
    BY <1>1, InsertKept, TupleStoreAssumption DEF set
  <1>2. ASSUME NEW t \in Tuples, clear_range(t) PROVE PackedInv'
    <2>1. t \in Seq(Elems)
      BY TupleStoreAssumption
    <2>2. PICK K : K = Between(range(t).start, range(t).end)
      OBVIOUS
    <2>3. keys' = keys \ K /\ tuples' = {u \in tuples : ~IsStrictPrefix(t, u)}
      BY <1>2, <2>2 DEF clear_range
    <2>4. keys' = Packed(tuples')
      BY <2>1, <2>2, <2>3, ClearedRange DEF PackedInv, Between
    <2>5. tuples' \subseteq tuples
      BY <2>3
    <2>6. QED
      BY <2>3, <2>4, <2>5, RemoveKept
  <1>3. ASSUME NEW t \in Stamped, NEW s \in Stamps, set_versionstamped_key(t, s) PROVE PackedInv'
    BY <1>3, StampKept
  <1>4. ASSUME NEW p \in KeyPrefixes, clear_range_startswith(p) PROVE PackedInv'
    <2>1. PICK K : K = Between(p, strinc(p))
      OBVIOUS
    <2>2. keys' = keys \ K /\ tuples' = {u \in tuples : ~IsPrefix(p, pack(u))}
      BY <1>4, <2>1 DEF clear_range_startswith
    <2>3. keys' = Packed(tuples')
      BY <2>1, <2>2, ClearedPrefix DEF PackedInv, Between
    <2>4. tuples' \subseteq tuples
      BY <2>2
    <2>5. QED
      BY <2>2, <2>3, <2>4, RemoveKept
  <1>5. ASSUME UNCHANGED vars PROVE PackedInv'
    BY <1>5 DEF vars, PackedInv
  <1>6. QED
    BY <1>1, <1>2, <1>3, <1>4, <1>5 DEF Next

\* Every key that is stored is a packed tuple that the client means to have,
\* whatever was set, stamped or cleared.
THEOREM TupleStorePacked == Spec => []PackedInv
  BY PackedInit, PackedNext, PTL DEF Spec

\* A packed tuple is unpacked to itself.
LEMMA UnpackedAll == ASSUME NEW T \in SUBSET Seq(Elems) PROVE {unpack(k) : k \in Packed(T)} = T
  <1>1. \A t \in T : unpack(pack(t)) = t
    BY Unpacked
  <1>2. QED
    BY <1>1 DEF Packed

\* Packed tuples can be unpacked.
LEMMA PackedKeys == ASSUME PackedInv PROVE KeysAreTuples
  <1>1. keys \subseteq Seq(Bytes)
    BY PackStr DEF PackedInv, Packed, Str
  <1>2. {unpack(k) : k \in keys} = tuples
    BY UnpackedAll DEF PackedInv
  <1>3. QED
    BY <1>1, <1>2 DEF KeysAreTuples, TypeOK, PackedInv

\* pack/1 and unpack/1 are inverse, range/1 has the longer tuples and no
\* others, strinc/1 ends the keys with a prefix, and a versionstamp is
\* written at the position that pack_vs/1 gives.
THEOREM TupleStoreKeys == Spec => []KeysAreTuples
  BY TupleStorePacked, PackedKeys, PTL

\* The bytes of the keys are in the order of compare/2.
THEOREM TupleStoreOrder == Spec => []OrderKept
  <1>1. ASSUME PackedInv PROVE OrderKept
    BY <1>1, PackOrder DEF PackedInv, OrderKept
  <1>2. QED
    BY <1>1, TupleStorePacked, PTL

=============================================================================
