--------------------------- MODULE DirectoryProofs ---------------------------
(* The theorems of module Directory: what its transactions rely on, and    *)
(* that they keep the directories a tree with names that do not overlap.   *)
EXTENDS Directory, FiniteSetTheorems, WellFoundedInduction, SequenceTheorems, TLAPS

\* The keys of different kinds differ, and a key tells its node.
LEMMA Kinds ==
    /\ \A n, a, m : Entry(n, a) # Content(m) /\ Entry(n, a) # Given(m) /\ Entry(n, a) # Version
    /\ \A n, m : Layer(n) # Content(m) /\ Layer(n) # Given(m) /\ Layer(n) # Version
    /\ \A n, m : Content(n) # Given(m)
    /\ \A n : Content(n) # Version /\ Given(n) # Version
    /\ \A n, m : Given(n) = Given(m) => n = m
    /\ \A n : Content(n)[1] = "content" /\ Version[1] = "version"
    /\ \A n, a, m : Entry(n, a) # Layer(m)
    /\ \A n, a, m, b : Entry(n, a) = Entry(m, b) => n = m /\ a = b
    /\ \A n, m : Layer(n) = Layer(m) => n = m
    /\ \A n, m : Content(n) = Content(m) => n = m
  BY DEF Entry, Layer, Content, Given, Version

\* The keys that belong to the layer and to the content.
LEMMA KeysOf ==
    /\ Version \in DbKeys
    /\ \A n \in Names : Content(n) \in DbKeys
    /\ \A n \in AutoNames : Given(n) \in DbKeys
  BY DEF DbKeys

\* A transaction's writes over what the database has.
LEMMA OverDomain ==
    ASSUME NEW f, NEW g
    PROVE  /\ DOMAIN Over(f, g) = DOMAIN f \cup DOMAIN g
           /\ \A k \in DOMAIN g : Over(f, g)[k] = g[k]
           /\ \A k \in DOMAIN f \ DOMAIN g : Over(f, g)[k] = f[k]
  BY DEF Over

\* What is cleared is what was to be cleared.
LEMMA ClearedDomain == \A S : DOMAIN Cleared(S) = S
  BY DEF Cleared

\* The only key of a new root is its version.
LEMMA VersionDomain == DOMAIN initialize_directory \subseteq {Version}
  BY DEF initialize_directory

-----------------------------------------------------------------------------
(* The invariant *)

\* What AllocatedInv needs of the reads R and the writes W of an operation.
EmptyBelow(R, W) ==
    \A n \in AutoNames, m \in Names :
        Given(n) \in DOMAIN W /\ StartsWith(m, n) =>
            Content(m) \in R /\ Content(m) \notin DOMAIN W /\ db[Content(m)] = None

\* An operation that begins with such reads and writes.
LEMMA BeginStep ==
    ASSUME IInv, NEW p \in Clients, NEW R, NEW W, Begin(p, R, W), may_write, EmptyBelow(R, W)
    PROVE  IInv'
  <1> DEFINE t == [reads |-> R \cup check_version_reads, writes |-> W, ok |-> TRUE, open |-> TRUE]
  <1>1. /\ DOMAIN t = {"reads", "writes", "ok", "open"} /\ t.writes = W /\ t.ok /\ t.open
        /\ t.ok = TRUE /\ t.open = TRUE
        /\ t.reads = R \cup {Version}
    BY DEF check_version_reads
  <1>2. DOMAIN tx = Clients /\ tx' = [tx EXCEPT ![p] = t] /\ db' = db
    BY DEF IInv, TxShape, Begin
  <1> HIDE DEF t
  <1>3. DOMAIN tx' = Clients /\ tx'[p] = t /\ \A q \in Clients : q # p => tx'[q] = tx[q]
    BY <1>2
  <1>4. TxShape'
    BY <1>1, <1>2, <1>3 DEF IInv, TxShape, DbKeys
  <1>5. VersionInv'
    BY <1>1, <1>2, <1>3 DEF IInv, VersionInv, Valid, may_write
  <1>6. AllocatedInv'
    BY <1>1, <1>2, <1>3 DEF IInv, AllocatedInv, EmptyBelow, Valid
  <1>7. QED
    BY <1>4, <1>5, <1>6 DEF IInv

\* An operation that does not allocate has no such duty.
LEMMA NothingAllocated ==
    ASSUME NEW R, NEW W, \A n : Given(n) \notin DOMAIN W
    PROVE  EmptyBelow(R, W)
  BY DEF EmptyBelow

\* create_int/5 with the names that create_node_name/3 has found free.
LEMMA CreateEmpty ==
    ASSUME NEW path, NEW names, NEW auto, NEW R, Allocated(auto)
    PROVE  EmptyBelow(find_reads(path) \cup AllocatedReads(auto) \cup R,
                      Over(Over(create_node(path, names), NewNodes(names)),
                           Over(GivenTo(auto), initialize_directory)))
  <1> DEFINE C == create_node(path, names)
             N == NewNodes(names)
             G == GivenTo(auto)
             W == Over(Over(C, N), Over(G, initialize_directory))
  <1>1. \A k \in DOMAIN C : \E n, a : k = Entry(n, a)
    BY DEF create_node
  <1>2. \A k \in DOMAIN N : \E n : k = Layer(n)
    BY DEF NewNodes
  <1>3. \A k \in DOMAIN G : \E i \in DOMAIN auto : k = Given(auto[i])
    BY DEF GivenTo
  <1>4. DOMAIN W = DOMAIN C \cup DOMAIN N \cup DOMAIN G \cup DOMAIN initialize_directory
    <2> HIDE DEF C, N, G
    <2> QED  BY DEF Over
  <1> HIDE DEF C, N, G, W
  <1>5. ASSUME NEW n \in AutoNames, NEW m \in Names, Given(n) \in DOMAIN W, StartsWith(m, n)
        PROVE  Content(m) \in AllocatedReads(auto) /\ Content(m) \notin DOMAIN W
                   /\ db[Content(m)] = None
    <2>1. Given(n) \in DOMAIN G
      BY <1>1, <1>2, <1>4, <1>5, Kinds, VersionDomain
    <2>2. PICK i \in DOMAIN auto : n = auto[i]
      BY <2>1, <1>3, Kinds
    <2>3. Content(m) \in AllocatedReads(auto)
      BY <2>2, <1>5 DEF AllocatedReads
    <2>4. db[Content(m)] = None
      BY <2>2, <1>5 DEF Allocated
    <2>5. Content(m) \notin DOMAIN W
      BY <1>1, <1>2, <1>3, <1>4, Kinds, VersionDomain
    <2>6. QED
      BY <2>3, <2>4, <2>5
  <1>6. QED
    BY <1>5 DEF EmptyBelow, W, C, N, G

\* A commit, of which the other transactions that read what it wrote learn.
LEMMA CommitStep ==
    ASSUME IInv, NEW p \in Clients, commit(p)
    PROVE  IInv'
  <1> DEFINE W == tx[p].writes
  <1>1. /\ db' = Over(db, W)
        /\ DOMAIN db' = DOMAIN db \cup DOMAIN W
        /\ \A k \in DOMAIN db \ DOMAIN W : db'[k] = db[k]
    BY OverDomain DEF commit
  <1>2. DOMAIN NoTx = {"reads", "writes", "ok", "open"} /\ DOMAIN NoTx.writes = {}
            /\ NoTx.open = FALSE /\ NoTx.ok = TRUE
    BY DEF NoTx
  <1>3. /\ DOMAIN tx' = Clients /\ tx'[p] = NoTx
        /\ \A q \in Clients : q # p =>
              tx'[q] = [tx[q] EXCEPT !.ok = tx[q].ok /\ tx[q].reads \cap DOMAIN W = {}]
    BY DEF commit
  <1> HIDE DEF W
  <1>4. ASSUME NEW q \in Clients, q # p
        PROVE  /\ DOMAIN tx'[q] = {"reads", "writes", "ok", "open"}
               /\ tx'[q].reads = tx[q].reads /\ tx'[q].writes = tx[q].writes
               /\ tx'[q].open = tx[q].open
               /\ tx'[q].ok \in BOOLEAN
               /\ tx'[q].ok => tx[q].ok /\ \A k \in tx[q].reads : k \notin DOMAIN W
    BY <1>3, <1>4 DEF IInv, TxShape
  <1>5. TxShape'
    BY <1>1, <1>2, <1>3, <1>4 DEF IInv, TxShape, DbKeys
  <1>6. VersionInv'
    <2>1. ASSUME NEW q \in Clients, Valid(q)', q # p
          PROVE  may_write'
      BY <1>1, <1>4, <2>1, KeysOf DEF IInv, TxShape, VersionInv, Valid, may_write
    <2>2. QED
      BY <1>2, <1>3, <1>4, <2>1 DEF IInv, VersionInv, Valid
  <1>7. AllocatedInv'
    <2> SUFFICES ASSUME NEW q \in Clients, NEW n \in AutoNames, NEW m \in Names,
                        Given(n) \in DOMAIN tx'[q].writes, StartsWith(m, n)
                 PROVE  /\ Content(m) \in tx'[q].reads /\ Content(m) \notin DOMAIN tx'[q].writes
                        /\ Valid(q)' => db'[Content(m)] = None
      BY DEF AllocatedInv
    <2>1. q # p
      BY <1>2, <1>3
    <2>2. /\ Content(m) \in tx[q].reads /\ Content(m) \notin DOMAIN tx[q].writes
          /\ Valid(q) => db[Content(m)] = None
      BY <2>1, <1>4 DEF IInv, AllocatedInv
    <2>3. ASSUME Valid(q)'
          PROVE  db'[Content(m)] = None
      BY <2>1, <2>2, <2>3, <1>1, <1>4, KeysOf DEF IInv, TxShape, Valid
    <2>4. QED
      BY <2>1, <2>2, <2>3, <1>4
  <1>8. QED
    BY <1>5, <1>6, <1>7 DEF IInv

\* A key is set outside of the layer's transactions.
LEMMA SetStep ==
    ASSUME IInv, NEW k, NEW v,
           db' = [db EXCEPT ![k] = v],
           tx' = [q \in Clients |-> [tx[q] EXCEPT !.ok = @ /\ k \notin tx[q].reads]]
    PROVE  IInv'
  <1>1. DOMAIN db' = DOMAIN db /\ \A j \in DOMAIN db : j # k => db'[j] = db[j]
    OBVIOUS
  <1>2. DOMAIN tx' = Clients
    OBVIOUS
  <1>3. ASSUME NEW q \in Clients
        PROVE  /\ DOMAIN tx'[q] = {"reads", "writes", "ok", "open"}
               /\ tx'[q].reads = tx[q].reads /\ tx'[q].writes = tx[q].writes
               /\ tx'[q].open = tx[q].open
               /\ tx'[q].ok \in BOOLEAN
               /\ tx'[q].ok => tx[q].ok /\ k \notin tx[q].reads
    BY <1>3 DEF IInv, TxShape
  <1>4. TxShape'
    BY <1>1, <1>2, <1>3 DEF IInv, TxShape, DbKeys
  <1>5. VersionInv'
    <2>1. ASSUME NEW q \in Clients, Valid(q)'
          PROVE  may_write'
      <3>1. tx[q].open /\ tx[q].ok /\ k \notin tx[q].reads
        BY <1>3, <2>1 DEF Valid
      <3>2. Version \in tx[q].reads /\ may_write
        BY <3>1 DEF IInv, VersionInv, Valid
      <3>3. db'[Version] = db[Version]
        BY <3>1, <3>2, <1>1, KeysOf DEF IInv, TxShape
      <3>4. QED
        BY <3>2, <3>3 DEF may_write
    <2>2. QED
      BY <1>3, <2>1 DEF IInv, VersionInv, Valid
  <1>6. AllocatedInv'
    <2> SUFFICES ASSUME NEW q \in Clients, NEW n \in AutoNames, NEW m \in Names,
                        Given(n) \in DOMAIN tx'[q].writes, StartsWith(m, n)
                 PROVE  /\ Content(m) \in tx'[q].reads /\ Content(m) \notin DOMAIN tx'[q].writes
                        /\ Valid(q)' => db'[Content(m)] = None
      BY DEF AllocatedInv
    <2>1. /\ Content(m) \in tx[q].reads /\ Content(m) \notin DOMAIN tx[q].writes
          /\ Valid(q) => db[Content(m)] = None
      BY <1>3 DEF IInv, AllocatedInv
    <2>2. ASSUME Valid(q)'
          PROVE  db'[Content(m)] = None
      BY <2>1, <2>2, <1>1, <1>3, KeysOf DEF IInv, TxShape, Valid
    <2>3. QED
      BY <2>1, <2>2, <1>3
  <1>7. QED
    BY <1>4, <1>5, <1>6 DEF IInv

\* The database begins with nothing read.
LEMMA InitIInv == Init => IInv
  <1> SUFFICES ASSUME Init PROVE IInv
    OBVIOUS
  <1>1. DOMAIN NoTx = {"reads", "writes", "ok", "open"} /\ DOMAIN NoTx.writes = {}
            /\ NoTx.open = FALSE /\ NoTx.ok = TRUE
    BY DEF NoTx
  <1>2. DOMAIN db = DbKeys /\ DOMAIN tx = Clients /\ \A p \in Clients : tx[p] = NoTx
    BY DEF Init
  <1>3. QED
    BY <1>1, <1>2 DEF IInv, TxShape, VersionInv, AllocatedInv, Valid

\* The operations that are one transaction: their reads and writes.
LEMMA OperationStep ==
    ASSUME IInv, NEW p \in Clients, NEW path \in Paths,
           \/ create(p, path)
           \/ \E name \in ManualNames : create_manual(p, path, name)
           \/ remove(p, path)
           \/ remove_missing(p, path)
           \/ \E new \in Paths : move(p, path, new)
    PROVE  IInv'
  <1>1. CASE create(p, path)
    <2>1. PICK names : Allocated(names) /\ create_int(p, path, names, names, {})
      BY <1>1 DEF create
    <2>2. may_write
      BY <1>1 DEF create
    <2>3. QED
      BY <2>1, <2>2, CreateEmpty, BeginStep DEF create_int
  <1>2. ASSUME NEW name \in ManualNames, create_manual(p, path, name)
        PROVE  IInv'
    <2>1. PICK auto : /\ Allocated(auto)
                      /\ create_int(p, path, Over(auto, [i \in {Len(path)} |-> name]), auto,
                                    is_prefix_free_reads(name))
      BY <1>2 DEF create_manual
    <2>2. may_write
      BY <1>2 DEF create_manual
    <2>3. QED
      BY <2>1, <2>2, CreateEmpty, BeginStep DEF create_int
  <1>3. CASE remove(p, path)
    <2> DEFINE S == UNION {Entries(m) \cup {Layer(m)}
                       \cup {Content(k) : k \in {j \in Names : StartsWith(j, m)}} :
                       m \in Subtree(find(path))}
               e == Entry(find(Parent(path)), path[Len(path)])
               W == Over(Over(Cleared(S), Cleared({e})), initialize_directory)
    <2>1. Begin(p, find_reads(path) \cup list_reads(find(path)), W) /\ may_write
      BY <1>3 DEF remove, remove_recursive
    <2>2. \A n : Given(n) \notin S
      BY Kinds DEF Entries
    <2> HIDE DEF S
    <2>3. DOMAIN W = S \cup {e} \cup DOMAIN initialize_directory
      BY DEF Over, Cleared
    <2>4. \A n : Given(n) \notin DOMAIN W
      BY <2>2, <2>3, Kinds, VersionDomain
    <2> HIDE DEF W
    <2>5. QED
      BY <2>1, <2>4, NothingAllocated, BeginStep
  <1>4. CASE remove_missing(p, path)
    <2>1. Begin(p, find_reads(path), initialize_directory) /\ db[Version] = None
      BY <1>4 DEF remove_missing
    <2>2. \A n : Given(n) \notin DOMAIN initialize_directory
      BY Kinds, VersionDomain
    <2>3. EmptyBelow(find_reads(path), initialize_directory)
      BY <2>2, NothingAllocated
    <2>4. may_write
      BY <2>1, DirectoryAssumption DEF may_write
    <2>5. QED
      BY <2>1, <2>3, <2>4, BeginStep
  <1>5. ASSUME NEW new \in Paths, move(p, path, new)
        PROVE  IInv'
    <2> DEFINE d == Entry(find(Parent(new)), new[Len(new)])
               e == Entry(find(Parent(path)), path[Len(path)])
               W == Over(Over([k \in {d} |-> find(path)], Cleared({e})), initialize_directory)
    <2>1. Begin(p, find_reads(path) \cup find_reads(new), W) /\ may_write
      BY <1>5 DEF move
    <2>2. DOMAIN W = {d, e} \cup DOMAIN initialize_directory
      BY DEF Over, Cleared
    <2>3. \A n : Given(n) \notin DOMAIN W
      BY <2>2, Kinds, VersionDomain
    <2> HIDE DEF W
    <2>4. QED
      BY <2>1, <2>3, NothingAllocated, BeginStep
  <1>6. QED
    BY <1>1, <1>2, <1>3, <1>4, <1>5

\* Every action keeps what the transactions rest on.
LEMMA NextIInv == IInv /\ [Next]_vars => IInv'
  <1> SUFFICES ASSUME IInv, [Next]_vars PROVE IInv'
    OBVIOUS
  <1>1. CASE upgrade
    <2>1. PICK v : db' = [db EXCEPT ![Version] = v]
      BY <1>1 DEF upgrade
    <2>2. QED
      BY <1>1, <2>1, SetStep DEF upgrade
  <1>2. ASSUME NEW n \in AutoNames, set_outside(n) PROVE IInv'
    BY <1>2, SetStep DEF set_outside
  <1>3. ASSUME NEW p \in Clients, commit(p) PROVE IInv'
    BY <1>3, CommitStep
  <1>4. ASSUME NEW p \in Clients, conflict(p) PROVE IInv'
    <2>1. DOMAIN NoTx = {"reads", "writes", "ok", "open"} /\ DOMAIN NoTx.writes = {}
            /\ NoTx.open = FALSE /\ NoTx.ok = TRUE
      BY DEF NoTx
    <2>2. /\ DOMAIN tx' = Clients /\ tx'[p] = NoTx /\ db' = db
          /\ \A q \in Clients : q # p => tx'[q] = tx[q]
      BY <1>4 DEF conflict, IInv, TxShape
    <2>3. TxShape'
      BY <2>1, <2>2 DEF IInv, TxShape, DbKeys
    <2>4. VersionInv' /\ AllocatedInv'
      BY <2>1, <2>2 DEF IInv, VersionInv, AllocatedInv, Valid, may_write
    <2>5. QED
      BY <2>3, <2>4 DEF IInv
  <1>5. ASSUME NEW p \in Clients, set(p) PROVE IInv'
    BY <1>5, SetStep DEF set
  <1>6. ASSUME NEW p \in Clients, NEW path \in Paths, open(p, path) PROVE IInv'
    BY <1>6 DEF open, IInv, TxShape, VersionInv, AllocatedInv, Valid, may_write, DbKeys
  <1>7. CASE UNCHANGED vars
    BY <1>7 DEF vars, IInv, TxShape, VersionInv, AllocatedInv, Valid, may_write, DbKeys
  <1>8. QED
    BY <1>1, <1>2, <1>3, <1>4, <1>5, <1>6, <1>7, OperationStep DEF Next

-----------------------------------------------------------------------------
(* The theorems *)

\* A step changes a key of the layer or an allocator's candidate only by the
\* commit of a transaction, or if the key is the version.
LEMMA OnlyCommits ==
    ASSUME IInv, [Next]_vars, NEW k \in DbKeys, k[1] # "content", db'[k] # db[k]
    PROVE  \/ k = Version /\ upgrade
           \/ \E p \in Clients : commit(p) /\ k \in DOMAIN tx[p].writes
  <1>1. k \in DOMAIN db
    BY DEF IInv, TxShape
  <1>2. CASE upgrade
    BY <1>1, <1>2 DEF upgrade
  <1>3. ASSUME NEW n \in AutoNames, set_outside(n) PROVE FALSE
    BY <1>1, <1>3, Kinds DEF set_outside
  <1>4. ASSUME NEW p \in Clients, set(p) PROVE FALSE
    BY <1>1, <1>4, Kinds DEF set
  <1>5. ASSUME NEW p \in Clients, commit(p) PROVE k \in DOMAIN tx[p].writes
    BY <1>1, <1>5 DEF commit, Over
  <1>6. ASSUME NEW p \in Clients, NEW path \in Paths,
                  \/ open(p, path)
                  \/ create(p, path)
                  \/ \E name \in ManualNames : create_manual(p, path, name)
                  \/ remove(p, path)
                  \/ remove_missing(p, path)
                  \/ \E new \in Paths : move(p, path, new)
        PROVE  FALSE
    <2>1. db' = db
      BY <1>6 DEF open, create, create_manual, create_int, remove, remove_missing, move, Begin
    <2>2. QED
      BY <2>1
  <1>7. ASSUME NEW p \in Clients, conflict(p) PROVE FALSE
    BY <1>7 DEF conflict
  <1>8. CASE UNCHANGED vars
    BY <1>8 DEF vars
  <1>9. QED
    BY <1>2, <1>3, <1>4, <1>5, <1>6, <1>7, <1>8 DEF Next

\* Every transaction rests on what it has read: the version allows it to
\* write, and an allocated name is empty.
THEOREM Invariance == Spec => []IInv
  BY InitIInv, NextIInv, PTL DEF Spec

\* Once a newer version of the layer is stored, check_version/3 holds back
\* every change of the tree, also of an operation that was under way.
THEOREM NewerKept == Spec => NewerUntouched
  <1>1. ASSUME IInv, [Next]_vars, db[Version] \in {"newer minor", "newer major"},
               NEW k \in DbKeys, k[1] # "content"
        PROVE  db'[k] = db[k]
    <2> SUFFICES ASSUME db'[k] # db[k] PROVE FALSE
      OBVIOUS
    <2>1. ~upgrade
      BY <1>1, DirectoryAssumption DEF upgrade
    <2>2. PICK p \in Clients : commit(p)
      BY <1>1, <2>1, OnlyCommits
    <2>3. Valid(p)
      BY <2>2 DEF commit, Valid
    <2>4. may_write
      BY <1>1, <2>3 DEF IInv, VersionInv
    <2>5. QED
      BY <1>1, <2>4 DEF may_write
  <1>2. IInv /\ [Next]_vars =>
            [db[Version] \in {"newer minor", "newer major"} =>
                \A k \in DbKeys : k[1] # "content" => db'[k] = db[k]]_vars
    BY <1>1
  <1>3. QED
    BY Invariance, <1>2, PTL DEF Spec, NewerUntouched

\* A directory with an allocated name starts empty, whatever other programs
\* set while it is created (create_node_name/3).
THEOREM StartsEmpty == Spec => AllocatedIsEmpty
  <1>1. ASSUME IInv, [Next]_vars, NEW n \in AutoNames, db[Given(n)] # db'[Given(n)],
               NEW m \in Names, StartsWith(m, n)
        PROVE  db'[Content(m)] = None
    <2>1. Given(n) \in DbKeys /\ Given(n)[1] # "content" /\ Given(n) # Version
      BY KeysOf, Kinds DEF Given
    <2>2. PICK p \in Clients : commit(p) /\ Given(n) \in DOMAIN tx[p].writes
      BY <1>1, <2>1, OnlyCommits
    <2>3. Valid(p)
      BY <2>2 DEF commit, Valid
    <2>4. db[Content(m)] = None /\ Content(m) \notin DOMAIN tx[p].writes
      BY <1>1, <2>2, <2>3 DEF IInv, AllocatedInv
    <2>5. Content(m) \in DOMAIN db
      BY <1>1, KeysOf DEF IInv, TxShape
    <2>6. QED
      BY <2>2, <2>4, <2>5 DEF commit, Over
  <1>2. IInv /\ [Next]_vars =>
            [\A n \in AutoNames :
                db[Given(n)] # db'[Given(n)] =>
                    \A m \in Names : StartsWith(m, n) => db'[Content(m)] = None]_vars
    BY <1>1
  <1>3. QED
    BY Invariance, <1>2, PTL DEF Spec, AllocatedIsEmpty

-----------------------------------------------------------------------------
(* Induction on numbers, with sets *)

\* A set of numbers has a least one.
LEMMA LeastOf ==
    ASSUME NEW S \in SUBSET Nat, S # {}
    PROVE  \E n \in S : \A m \in S : n <= m
  <1>1. PICK n \in S : \A m \in S : ~(<<m, n>> \in OpToRel(<, Nat))
    BY NatLessThanWellFounded, WFMin
  <1>2. \A m \in S : ~(m < n)
    BY <1>1 DEF OpToRel
  <1>3. QED
    BY <1>2

\* A set with 0 and every successor has all numbers.
LEMMA SetInduction ==
    ASSUME NEW S \in SUBSET Nat, 0 \in S, \A n \in S : n + 1 \in S
    PROVE  \A n \in Nat : n \in S
  <1> SUFFICES ASSUME Nat \ S # {} PROVE FALSE
    OBVIOUS
  <1>1. PICK n \in Nat \ S : \A m \in Nat \ S : n <= m
    <2> DEFINE N == Nat \ S
    <2>1. N \in SUBSET Nat /\ N # {}
      OBVIOUS
    <2> HIDE DEF N
    <2>2. \E n \in N : \A m \in N : n <= m
      BY <2>1, LeastOf
    <2>3. QED
      BY <2>2 DEF N
  <1>2. n # 0 /\ n - 1 \in Nat /\ ~(n <= n - 1)
    BY <1>1
  <1>3. n - 1 \in S
    BY <1>1, <1>2
  <1>4. (n - 1) + 1 \in S /\ (n - 1) + 1 = n
    BY <1>2, <1>3
  <1>5. QED
    BY <1>1, <1>4

-----------------------------------------------------------------------------
(* Reading the tree *)

\* The node after n at name a of the tree in d.
After(d, n, a) == IF n = None THEN None ELSE d[Entry(n, a)]

\* h leads along path in d, for its first k names.
Leads(d, path, k, h) ==
    h = [i \in 0..k |-> IF i = 0 THEN Root ELSE After(d, h[i - 1], path[i])]

\* There is a function that follows a path.
LEMMA LeadsExists == ASSUME NEW d, NEW path, NEW k \in Nat PROVE \E h : Leads(d, path, k, h)
  <1> DEFINE S == {n \in Nat : \E h : Leads(d, path, n, h)}
  <1>1. 0 \in S
    <2> DEFINE h == [i \in 0..0 |-> Root]
    <2>1. h = [i \in 0..0 |-> IF i = 0 THEN Root ELSE After(d, h[i - 1], path[i])]
      OBVIOUS
    <2> HIDE DEF h
    <2>2. QED
      BY <2>1 DEF Leads
  <1>2. ASSUME NEW n \in S PROVE n + 1 \in S
    <2>1. n \in Nat /\ n + 1 \in Nat
      OBVIOUS
    <2>2. PICK h : Leads(d, path, n, h)
      OBVIOUS
    <2> DEFINE g == [i \in 0..(n + 1) |-> IF i <= n THEN h[i] ELSE After(d, h[n], path[n + 1])]
    <2>3. \A i \in 0..n : g[i] = h[i] /\ h[i] = IF i = 0 THEN Root ELSE After(d, h[i - 1], path[i])
      BY <2>1, <2>2 DEF Leads
    <2>4. g[n + 1] = After(d, h[n], path[n + 1]) /\ h[n] = g[n]
      BY <2>1
    <2>5. ASSUME NEW i \in 0..(n + 1)
          PROVE  g[i] = IF i = 0 THEN Root ELSE After(d, g[i - 1], path[i])
      <3> HIDE DEF g
      <3>1. CASE i = 0
        BY <2>1, <2>3, <3>1
      <3>2. CASE i \in 1..n
        <4>1. i \in 0..n /\ i - 1 \in 0..n /\ i # 0
          BY <2>1, <3>2
        <4>2. QED
          BY <2>3, <4>1
      <3>3. CASE i = n + 1
        <4>1. i # 0 /\ i - 1 = n
          BY <2>1, <3>3
        <4>2. QED
          BY <2>4, <3>3, <4>1
      <3>4. QED
        BY <2>1, <3>1, <3>2, <3>3
    <2>6. g = [i \in 0..(n + 1) |-> IF i = 0 THEN Root ELSE After(d, g[i - 1], path[i])]
      <3>1. g = [i \in 0..(n + 1) |-> g[i]]
        OBVIOUS
      <3> HIDE DEF g
      <3>2. QED
        BY <2>5, <3>1
    <2> HIDE DEF g
    <2>7. QED
      BY <2>1, <2>6 DEF Leads
  <1>3. S \in SUBSET Nat
    OBVIOUS
  <1> HIDE DEF S
  <1>4. k \in S
    BY <1>1, <1>2, <1>3, SetInduction
  <1>5. QED
    BY <1>4 DEF S

\* Walk follows the path from the root, entry by entry.
LEMMA WalkLeads ==
    ASSUME NEW path \in Seq(PathNames)
    PROVE  /\ Walk(path)[0] = Root
           /\ \A i \in 1..Len(path) : Walk(path)[i] = After(db, Walk(path)[i - 1], path[i])
  <1> DEFINE n == Len(path)
  <1>1. n \in Nat
    OBVIOUS
  <1>2. Walk(path) = CHOOSE node : Leads(db, path, n, node)
    <2>1. Walk(path) = CHOOSE node : node = [i \in 0..Len(path) |->
                IF i = 0 THEN Root ELSE IF node[i - 1] = None THEN None
                ELSE db[Entry(node[i - 1], path[i])]]
      BY DEF Walk
    <2>2. QED
      BY <2>1 DEF Leads, After
  <1>3. \E node : Leads(db, path, n, node)
    BY <1>1, LeadsExists
  <1>4. Leads(db, path, n, Walk(path))
    BY <1>2, <1>3, Zenon
  <1>5. QED
    BY <1>1, <1>4 DEF Leads

\* A set of nodes with all their children in d.
Closed(d, S) ==
    \A k \in S, a \in PathNames : d[Entry(k, a)] \in Names => d[Entry(k, a)] \in S

\* One level more.
Wider(S) == S \cup Children(S)

Only(n) == {n}

\* B grows from n along the children, up to k levels.
Grows(n, k, B) ==
    B = [i \in 0..k |-> IF i = 0 THEN Only(n) ELSE Wider(B[i - 1])]

\* There is a function of the levels below a node.
LEMMA GrowsExists == ASSUME NEW m, NEW k \in Nat PROVE \E B : Grows(m, k, B)
  <1> DEFINE S == {n \in Nat : \E B : Grows(m, n, B)}
  <1>1. 0 \in S
    <2> DEFINE B == [i \in 0..0 |-> Only(m)]
    <2>1. B = [i \in 0..0 |-> IF i = 0 THEN Only(m) ELSE Wider(B[i - 1])]
      OBVIOUS
    <2> HIDE DEF B
    <2>2. QED
      BY <2>1 DEF Grows
  <1>2. ASSUME NEW n \in S PROVE n + 1 \in S
    <2>1. n \in Nat /\ n + 1 \in Nat
      OBVIOUS
    <2>2. PICK B : Grows(m, n, B)
      OBVIOUS
    <2> DEFINE C == [i \in 0..(n + 1) |-> IF i <= n THEN B[i] ELSE Wider(B[n])]
    <2>3. \A i \in 0..n : C[i] = B[i]
                /\ B[i] = IF i = 0 THEN Only(m) ELSE Wider(B[i - 1])
      BY <2>1, <2>2 DEF Grows
    <2>4. C[n + 1] = Wider(B[n]) /\ B[n] = C[n]
      BY <2>1
    <2>5. ASSUME NEW i \in 0..(n + 1)
          PROVE  C[i] = IF i = 0 THEN Only(m) ELSE Wider(C[i - 1])
      <3> HIDE DEF C
      <3>1. CASE i = 0
        BY <2>1, <2>3, <3>1
      <3>2. CASE i \in 1..n
        <4>1. i \in 0..n /\ i - 1 \in 0..n /\ i # 0
          BY <2>1, <3>2
        <4>2. QED
          BY <2>3, <4>1
      <3>3. CASE i = n + 1
        <4>1. i # 0 /\ i - 1 = n
          BY <2>1, <3>3
        <4>2. QED
          BY <2>4, <3>3, <4>1
      <3>4. QED
        BY <2>1, <3>1, <3>2, <3>3
    <2>6. C = [i \in 0..(n + 1) |-> IF i = 0 THEN Only(m) ELSE Wider(C[i - 1])]
      <3>1. C = [i \in 0..(n + 1) |-> C[i]]
        OBVIOUS
      <3> HIDE DEF C
      <3>2. QED
        BY <2>5, <3>1
    <2> HIDE DEF C
    <2>7. QED
      BY <2>1, <2>6 DEF Grows
  <1>3. S \in SUBSET Nat
    OBVIOUS
  <1> HIDE DEF S
  <1>4. k \in S
    BY <1>1, <1>2, <1>3, SetInduction
  <1>5. QED
    BY <1>4 DEF S

\* Subtree(n) is the least closed set with n: after as many levels as there are
\* names nothing is added any more.
LEMMA SubtreeLeast ==
    ASSUME NEW n \in Names \cup {Root}
    PROVE  /\ n \in Subtree(n) /\ Subtree(n) \subseteq Names \cup {n}
           /\ Closed(db, Subtree(n))
           /\ \A S : n \in S /\ Closed(db, S) => Subtree(n) \subseteq S
  <1> DEFINE N == Cardinality(Names)
             All == Names \cup {n}
  <1>1. IsFiniteSet(Names) /\ N \in Nat
    BY DirectoryAssumption, FS_CardinalityType DEF Names
  <1>2. IsFiniteSet(All) /\ Cardinality(All) \in Nat /\ Cardinality(All) <= N + 1
    <2>1. IsFiniteSet(All) /\ Cardinality(All) = IF n \in Names THEN N ELSE N + 1
      BY <1>1, FS_AddElement
    <2>2. QED
      BY <1>1, <2>1
  <1>3. PICK B : Grows(n, N, B) /\ Subtree(n) = B[N]
    <2>1. Subtree(n) = (CHOOSE B : Grows(n, N, B))[N]
      <3>1. Subtree(n) = (CHOOSE B : B = [i \in 0..Cardinality(Names) |->
                    IF i = 0 THEN {n} ELSE B[i - 1] \cup Children(B[i - 1])])[Cardinality(Names)]
        BY DEF Subtree
      <3>2. QED
        BY <3>1 DEF Grows, Wider, Only
    <2>2. \E B : Grows(n, N, B)
      BY <1>1, GrowsExists
    <2>3. QED
      BY <2>1, <2>2, Zenon
  <1> HIDE DEF N, All
  <1>4. /\ B[0] = {n}
        /\ \A i \in 0..N : i + 1 <= N => B[i + 1] = B[i] \cup Children(B[i])
    <2>1. \A i \in 0..N : B[i] = IF i = 0 THEN Only(n) ELSE Wider(B[i - 1])
      BY <1>3 DEF Grows
    <2>2. ASSUME NEW i \in 0..N, i + 1 <= N PROVE B[i + 1] = Wider(B[i])
      <3>1. i + 1 \in 0..N /\ i + 1 # 0 /\ (i + 1) - 1 = i
        BY <1>1, <2>2
      <3>2. QED
        BY <2>1, <3>1
    <2>3. 0 \in 0..N
      BY <1>1
    <2>4. QED
      BY <2>1, <2>2, <2>3 DEF Wider, Only
  <1>5. \A S : Children(S) \subseteq S <=> Closed(db, S)
    BY DEF Children, Closed
  <1> DEFINE P(i) == /\ n \in B[i] /\ B[i] \subseteq All
                     /\ \A S : n \in S /\ Closed(db, S) => B[i] \subseteq S
                     /\ Children(B[i]) \subseteq B[i] \/ Cardinality(B[i]) >= i + 1
             I == {i \in Nat : i <= N => P(i)}
  <1>6. 0 \in I
    <2>1. Cardinality({n}) = 1
      BY FS_EmptySet, FS_AddElement, FS_Singleton
    <2>2. QED
      BY <1>4, <2>1 DEF All
  <1>7. ASSUME NEW i \in I PROVE i + 1 \in I
    <2> SUFFICES ASSUME i + 1 <= N PROVE P(i + 1)
      BY <1>1
    <2>1. P(i) /\ i \in Nat /\ i \in 0..N
      BY <1>1
    <2>2. B[i + 1] = B[i] \cup Children(B[i])
      BY <1>4, <2>1
    <2>3. n \in B[i + 1] /\ B[i + 1] \subseteq All
      BY <2>1, <2>2 DEF All, Children
    <2>4. ASSUME NEW S, n \in S, Closed(db, S) PROVE B[i + 1] \subseteq S
      <3>1. B[i] \subseteq S
        BY <2>1, <2>4
      <3>2. Children(B[i]) \subseteq Children(S)
        BY <3>1 DEF Children
      <3>3. QED
        BY <1>5, <2>2, <2>4, <3>1, <3>2
    <2>5. CASE Children(B[i]) \subseteq B[i]
      <3>1. B[i + 1] = B[i]
        BY <2>2, <2>5
      <3>2. QED
        BY <2>3, <2>4, <2>5, <3>1
    <2>6. CASE ~(Children(B[i]) \subseteq B[i]) /\ Cardinality(B[i]) >= i + 1
      <3>1. IsFiniteSet(B[i + 1]) /\ Cardinality(B[i + 1]) \in Nat
        BY <1>2, <2>3, FS_Subset, FS_CardinalityType
      <3>2. B[i] \in SUBSET B[i + 1] /\ B[i] # B[i + 1]
        BY <2>2, <2>6
      <3>3. Cardinality(B[i]) <= Cardinality(B[i + 1]) /\ Cardinality(B[i]) # Cardinality(B[i + 1])
              /\ Cardinality(B[i]) \in Nat
        BY <3>1, <3>2, FS_Subset, FS_CardinalityType
      <3>4. Cardinality(B[i + 1]) >= (i + 1) + 1
        BY <2>1, <2>6, <3>1, <3>3
      <3>5. QED
        BY <2>3, <2>4, <3>4
    <2>7. QED
      BY <2>1, <2>5, <2>6
  <1>8. N \in I
    <2>1. I \in SUBSET Nat
      OBVIOUS
    <2> HIDE DEF I
    <2>2. QED
      BY <1>1, <1>6, <1>7, <2>1, SetInduction
  <1>9. P(N)
    BY <1>1, <1>8
  <1>10. Children(B[N]) \subseteq B[N]
    <2>1. CASE Cardinality(B[N]) >= N + 1
      <3>1. B[N] \in SUBSET All
        BY <1>9
      <3>2. Cardinality(B[N]) <= Cardinality(All) /\ Cardinality(B[N]) \in Nat
              /\ (Cardinality(All) = Cardinality(B[N]) => All = B[N])
        BY <1>2, <3>1, FS_Subset, FS_CardinalityType
      <3>3. B[N] = All
        BY <1>1, <1>2, <2>1, <3>2
      <3>4. QED
        BY <3>3 DEF All, Children
    <2>2. QED
      BY <1>9, <2>1
  <1>11. QED
    BY <1>3, <1>5, <1>9, <1>10 DEF All

-----------------------------------------------------------------------------
(* The tree *)

\* Where entries can be.
Places == Names \cup {Root}

NodesOf(d) == {n \in Names : d[Layer(n)] # None}

\* What the database d is at every moment: entries lead from nodes to nodes,
\* one to each, and every node is reached from the root, which is to say that
\* every closed set with the root has it.  A node with an automatic name was
\* given it by the allocator.
Entered(d) == \A k \in Places, a \in PathNames : d[Entry(k, a)] \in Names \cup {None}

Single(d) ==
    \A k, l \in Places, a, b \in PathNames :
        d[Entry(k, a)] # None /\ d[Entry(k, a)] = d[Entry(l, b)] => k = l /\ a = b

Kept(d) ==
    \A k \in Places, a \in PathNames :
        d[Entry(k, a)] # None => d[Entry(k, a)] \in NodesOf(d) /\ k \in NodesOf(d) \cup {Root}

Reached(d) == \A S \in SUBSET Places : Root \in S /\ Closed(d, S) => NodesOf(d) \subseteq S

WereGiven(d) == \A n \in AutoNames : n \in NodesOf(d) => d[Given(n)] # None

Tree(d) == Entered(d) /\ Single(d) /\ Kept(d) /\ Reached(d) /\ WereGiven(d)

\* The root and the absence of a node are no names.
LEMMA NoneRoot == None \notin Names /\ Root \notin Names /\ Root # None
  BY DirectoryAssumption DEF Names

\* Other keys do not matter.
LEMMA TreeSame ==
    ASSUME NEW d, NEW e, Tree(d),
           \A k \in Places, a \in PathNames : e[Entry(k, a)] = d[Entry(k, a)],
           \A m \in Names : e[Layer(m)] = d[Layer(m)],
           \A m \in AutoNames : e[Given(m)] = d[Given(m)]
    PROVE  Tree(e)
  <1>1. NodesOf(e) = NodesOf(d)
    BY DEF NodesOf
  <1>2. \A S \in SUBSET Places : Closed(e, S) => Closed(d, S)
    BY DEF Closed
  <1>3. Entered(e) /\ Single(e)
    BY DEF Tree, Entered, Single
  <1>4. Kept(e)
    BY <1>1 DEF Tree, Kept
  <1>5. Reached(e)
    BY <1>1, <1>2 DEF Tree, Reached
  <1>6. WereGiven(e)
    BY <1>1 DEF Tree, WereGiven
  <1>7. QED
    BY <1>3, <1>4, <1>5, <1>6 DEF Tree

\* A node n moves from the entry (v, b) to the entry (u, a), where u is not
\* below n: it is outside of a closed set C with n.
LEMMA MoveKeeps ==
    ASSUME NEW d, NEW e, Tree(d), NEW u \in Places, NEW v \in Places,
           NEW a \in PathNames, NEW b \in PathNames, NEW n \in Names,
           d[Entry(v, b)] = n, d[Entry(u, a)] = None, u \in NodesOf(d) \cup {Root},
           NEW C \in SUBSET Places, n \in C, u \notin C, Closed(d, C),
           e[Entry(u, a)] = n, e[Entry(v, b)] = None,
           \A k \in Places, c \in PathNames :
               ~(k = u /\ c = a) /\ ~(k = v /\ c = b) => e[Entry(k, c)] = d[Entry(k, c)],
           \A m \in Names : e[Layer(m)] = d[Layer(m)],
           \A m \in AutoNames : e[Given(m)] = d[Given(m)]
    PROVE  Tree(e)
  <1>1. NodesOf(e) = NodesOf(d)
    BY DEF NodesOf
  <1>2. n \in NodesOf(d) /\ n # None
    BY NoneRoot DEF Tree, Kept
  <1>3. Entered(e)
    BY DEF Tree, Entered
  <1>4. Single(e)
    <2> SUFFICES ASSUME NEW k \in Places, NEW l \in Places, NEW c \in PathNames, NEW f \in PathNames,
                        e[Entry(k, c)] # None, e[Entry(k, c)] = e[Entry(l, f)]
                 PROVE  k = l /\ c = f
      BY DEF Single
    <2>1. ~(k = v /\ c = b) /\ ~(l = v /\ f = b)
      OBVIOUS
    <2>2. CASE k = u /\ c = a
      <3>1. CASE ~(l = u /\ f = a)
        <4>1. d[Entry(l, f)] = n
          BY <2>1, <2>2, <3>1
        <4>2. QED
          BY <1>2, <2>1, <4>1 DEF Tree, Single
      <3>2. QED
        BY <2>2, <3>1
    <2>3. CASE l = u /\ f = a
      <3>1. CASE ~(k = u /\ c = a)
        <4>1. d[Entry(k, c)] = n
          BY <2>1, <2>3, <3>1
        <4>2. QED
          BY <1>2, <2>1, <4>1 DEF Tree, Single
      <3>2. QED
        BY <2>3, <3>1
    <2>4. CASE ~(k = u /\ c = a) /\ ~(l = u /\ f = a)
      BY <2>1, <2>4 DEF Tree, Single
    <2>5. QED
      BY <2>2, <2>3, <2>4
  <1>5. Kept(e)
    <2> SUFFICES ASSUME NEW k \in Places, NEW c \in PathNames, e[Entry(k, c)] # None
                 PROVE  e[Entry(k, c)] \in NodesOf(d) /\ k \in NodesOf(d) \cup {Root}
      BY <1>1 DEF Kept
    <2>1. CASE k = u /\ c = a
      BY <1>2, <2>1
    <2>2. CASE ~(k = u /\ c = a)
      BY <2>2 DEF Tree, Kept
    <2>3. QED
      BY <2>1, <2>2
  <1>6. Reached(e)
    <2> SUFFICES ASSUME NEW S \in SUBSET Places, Root \in S, Closed(e, S)
                 PROVE  NodesOf(d) \subseteq S
      BY <1>1 DEF Reached
    <2>1. ASSUME NEW k \in S, NEW c \in PathNames, d[Entry(k, c)] \in Names
          PROVE  d[Entry(k, c)] \in S \/ d[Entry(k, c)] = n
      <3>1. CASE k = v /\ c = b
        BY <3>1
      <3>2. CASE ~(k = v /\ c = b)
        <4>1. ~(k = u /\ c = a)
          BY <2>1, NoneRoot
        <4>2. QED
          BY <2>1, <3>2, <4>1 DEF Closed
      <3>3. QED
        BY <3>1, <3>2
    <2>2. Closed(d, S \cup C)
      BY <2>1 DEF Closed
    <2>3. NodesOf(d) \subseteq S \cup C
      <3>1. (S \cup C) \in SUBSET Places /\ Root \in S \cup C
        OBVIOUS
      <3>2. QED
        BY <2>2, <3>1 DEF Tree, Reached
    <2>4. n \in S
      BY <2>3 DEF Closed
    <2>5. Closed(d, S)
      BY <2>1, <2>4 DEF Closed
    <2>6. QED
      BY <2>5 DEF Tree, Reached
  <1>7. WereGiven(e)
    BY <1>1 DEF Tree, WereGiven
  <1>8. QED
    BY <1>3, <1>4, <1>5, <1>6, <1>7 DEF Tree

\* A node n is removed from the entry (v, b), with the set S of all below it.
LEMMA RemoveKeeps ==
    ASSUME NEW d, NEW e, Tree(d), NEW v \in Places, NEW b \in PathNames, NEW n \in Names,
           d[Entry(v, b)] = n, NEW S \in SUBSET NodesOf(d), n \in S, Closed(d, S),
           \A m \in S \ {n} : \E k \in S, c \in PathNames : d[Entry(k, c)] = m,
           e[Entry(v, b)] = None, \A k \in S, c \in PathNames : e[Entry(k, c)] = None,
           \A k \in Places, c \in PathNames :
               k \notin S /\ ~(k = v /\ c = b) => e[Entry(k, c)] = d[Entry(k, c)],
           \A m \in Names : e[Layer(m)] = IF m \in S THEN None ELSE d[Layer(m)],
           \A m \in AutoNames : e[Given(m)] = d[Given(m)]
    PROVE  Tree(e)
  <1>1. NodesOf(e) = NodesOf(d) \ S
    BY DEF NodesOf
  <1>2. ASSUME NEW k \in Places, NEW c \in PathNames, e[Entry(k, c)] # None
        PROVE  k \notin S /\ ~(k = v /\ c = b) /\ e[Entry(k, c)] = d[Entry(k, c)]
    BY <1>2
  <1>3. Entered(e)
    BY <1>2 DEF Tree, Entered
  <1>4. Single(e)
    <2> SUFFICES ASSUME NEW k \in Places, NEW l \in Places, NEW c \in PathNames, NEW f \in PathNames,
                        e[Entry(k, c)] # None, e[Entry(k, c)] = e[Entry(l, f)]
                 PROVE  k = l /\ c = f
      BY DEF Single
    <2>1. d[Entry(k, c)] # None /\ d[Entry(k, c)] = d[Entry(l, f)]
      BY <1>2
    <2>2. QED
      BY <2>1 DEF Tree, Single
  <1>5. Kept(e)
    <2> SUFFICES ASSUME NEW k \in Places, NEW c \in PathNames, e[Entry(k, c)] # None
                 PROVE  e[Entry(k, c)] \in NodesOf(e) /\ k \in NodesOf(e) \cup {Root}
      BY DEF Kept
    <2> DEFINE m == d[Entry(k, c)]
    <2>1. k \notin S /\ ~(k = v /\ c = b) /\ e[Entry(k, c)] = m /\ m # None
      BY <1>2
    <2>2. m \in NodesOf(d) /\ k \in NodesOf(d) \cup {Root}
      BY <2>1 DEF Tree, Kept
    <2>3. m # n
      BY <2>1 DEF Tree, Single
    <2>4. m \notin S
      <3> SUFFICES ASSUME m \in S PROVE FALSE
        OBVIOUS
      <3>1. PICK l \in S, f \in PathNames : d[Entry(l, f)] = m
        BY <2>3
      <3>2. l \in Places
        BY DEF NodesOf, Places
      <3>3. l = k
        BY <2>1, <3>1, <3>2 DEF Tree, Single
      <3>4. QED
        BY <2>1, <3>3
    <2>5. QED
      BY <1>1, <2>1, <2>2, <2>4
  <1>6. Reached(e)
    <2> SUFFICES ASSUME NEW T \in SUBSET Places, Root \in T, Closed(e, T)
                 PROVE  NodesOf(d) \ S \subseteq T
      BY <1>1 DEF Reached
    <2>1. Closed(d, T \cup S)
      <3> SUFFICES ASSUME NEW k \in T \cup S, NEW c \in PathNames, d[Entry(k, c)] \in Names
                   PROVE  d[Entry(k, c)] \in T \cup S
        BY DEF Closed
      <3>1. CASE k \in S
        BY <3>1 DEF Closed
      <3>2. CASE k \notin S /\ k = v /\ c = b
        BY <3>2
      <3>3. CASE k \notin S /\ ~(k = v /\ c = b)
        BY <3>3 DEF Closed
      <3>4. QED
        BY <3>1, <3>2, <3>3
    <2>2. (T \cup S) \in SUBSET Places /\ Root \in T \cup S
      BY DEF NodesOf, Places
    <2>3. QED
      BY <2>1, <2>2 DEF Tree, Reached
  <1>7. WereGiven(e)
    BY <1>1 DEF Tree, WereGiven
  <1>8. QED
    BY <1>3, <1>4, <1>5, <1>6, <1>7 DEF Tree

\* New nodes u[l + 1], ..., u[L] are created along path, below the node u[l].
Adds(d, e, L, l, u, path) ==
    /\ \A i \in (l + 1)..L : path[i] \in PathNames /\ u[i] \in Names /\ u[i] \notin NodesOf(d)
    /\ \A i, j \in (l + 1)..L : u[i] = u[j] => i = j
    /\ u[l] \in NodesOf(d) \cup {Root} /\ d[Entry(u[l], path[l + 1])] = None
    /\ \A i \in (l + 1)..L : e[Entry(u[i - 1], path[i])] = u[i]
    /\ \A k \in Places, c \in PathNames :
          \/ e[Entry(k, c)] = d[Entry(k, c)]
          \/ \E i \in (l + 1)..L : k = u[i - 1] /\ c = path[i]
    /\ \A i \in (l + 1)..L : e[Layer(u[i])] # None
    /\ \A m \in Names : e[Layer(m)] = d[Layer(m)] \/ \E i \in (l + 1)..L : m = u[i]
    /\ \A i \in (l + 1)..L : u[i] \in AutoNames => e[Given(u[i])] # None
    /\ \A m \in AutoNames : e[Given(m)] = d[Given(m)] \/ e[Given(m)] # None

\* A path that is added to a tree gives a tree.
LEMMA CreateKeeps ==
    ASSUME NEW d, NEW e, Tree(d), NEW L \in Nat, NEW l \in Nat, l < L, NEW u, NEW path,
           Adds(d, e, L, l, u, path)
    PROVE  Tree(e)
  <1> USE DEF Adds
  <1> DEFINE New == {u[i] : i \in (l + 1)..L}
  <1>1. NodesOf(e) = NodesOf(d) \cup New /\ New \cap NodesOf(d) = {} /\ New \subseteq Names
    <2>1. New \cap NodesOf(d) = {} /\ New \subseteq Names
      OBVIOUS
    <2>2. \A m \in New : m \in NodesOf(e)
      BY DEF NodesOf
    <2>3. \A m \in Names \ New : m \in NodesOf(e) <=> m \in NodesOf(d)
      BY DEF NodesOf
    <2> HIDE DEF New
    <2>4. NodesOf(e) \subseteq Names /\ NodesOf(d) \subseteq Names
      BY DEF NodesOf
    <2>5. QED
      BY <2>1, <2>2, <2>3, <2>4
  <1>2. ASSUME NEW i \in (l + 1)..L
        PROVE  /\ u[i - 1] \in NodesOf(e) \cup {Root} /\ u[i - 1] \in Places
               /\ d[Entry(u[i - 1], path[i])] = None
    <2>1. CASE i = l + 1
      <3>1. i - 1 = l
        BY <2>1
      <3>2. QED
        BY <1>1, <2>1, <3>1 DEF Places, NodesOf
    <2>2. CASE i # l + 1
      <3>1. i - 1 \in (l + 1)..L
        BY <2>2
      <3>2. u[i - 1] \in New /\ u[i - 1] \in Names /\ u[i - 1] \notin NodesOf(d)
        BY <3>1
      <3>3. u[i - 1] # Root
        BY <3>2, NoneRoot
      <3>4. QED
        BY <1>1, <3>2, <3>3 DEF Places, Tree, Kept
    <2>3. QED
      BY <2>1, <2>2
  <1>3. ASSUME NEW k \in Places, NEW c \in PathNames, e[Entry(k, c)] # None
        PROVE  \/ e[Entry(k, c)] = d[Entry(k, c)] /\ e[Entry(k, c)] \notin New
               \/ \E i \in (l + 1)..L : k = u[i - 1] /\ c = path[i] /\ e[Entry(k, c)] = u[i]
    <2>1. CASE e[Entry(k, c)] = d[Entry(k, c)]
      BY <1>1, <1>3, <2>1 DEF Tree, Kept
    <2>2. CASE \E i \in (l + 1)..L : k = u[i - 1] /\ c = path[i]
      BY <2>2
    <2>3. QED
      BY <2>1, <2>2
  <1>4. Entered(e)
    BY <1>3 DEF Tree, Entered
  <1>5. Single(e)
    <2> SUFFICES ASSUME NEW k \in Places, NEW m \in Places, NEW c \in PathNames, NEW f \in PathNames,
                        e[Entry(k, c)] # None, e[Entry(k, c)] = e[Entry(m, f)]
                 PROVE  k = m /\ c = f
      BY DEF Single
    <2>1. CASE e[Entry(k, c)] \notin New
      <3>1. e[Entry(k, c)] = d[Entry(k, c)] /\ e[Entry(m, f)] = d[Entry(m, f)]
        BY <1>3, <2>1
      <3>2. d[Entry(k, c)] # None /\ d[Entry(k, c)] = d[Entry(m, f)]
        BY <3>1
      <3>3. Single(d)
        BY DEF Tree
      <3>4. QED
        BY <3>2, <3>3 DEF Single
    <2>2. CASE e[Entry(k, c)] \in New
      <3>1. PICK i \in (l + 1)..L : k = u[i - 1] /\ c = path[i] /\ e[Entry(k, c)] = u[i]
        BY <1>3, <2>2
      <3>2. PICK j \in (l + 1)..L : m = u[j - 1] /\ f = path[j] /\ e[Entry(m, f)] = u[j]
        BY <1>3, <2>2
      <3>3. QED
        BY <3>1, <3>2
    <2>3. QED
      BY <2>1, <2>2
  <1>6. Kept(e)
    <2> SUFFICES ASSUME NEW k \in Places, NEW c \in PathNames, e[Entry(k, c)] # None
                 PROVE  e[Entry(k, c)] \in NodesOf(e) /\ k \in NodesOf(e) \cup {Root}
      BY DEF Kept
    <2>1. CASE e[Entry(k, c)] = d[Entry(k, c)]
      BY <1>1, <2>1 DEF Tree, Kept
    <2>2. CASE \E i \in (l + 1)..L : k = u[i - 1] /\ c = path[i] /\ e[Entry(k, c)] = u[i]
      BY <1>1, <1>2, <2>2
    <2>3. QED
      BY <1>3, <2>1, <2>2
  <1>7. Reached(e)
    <2> SUFFICES ASSUME NEW S \in SUBSET Places, Root \in S, Closed(e, S)
                 PROVE  NodesOf(e) \subseteq S
      BY DEF Reached
    <2>1. Closed(d, S)
      <3> SUFFICES ASSUME NEW k \in S, NEW c \in PathNames, d[Entry(k, c)] \in Names
                   PROVE  d[Entry(k, c)] \in S
        BY DEF Closed
      <3>1. e[Entry(k, c)] = d[Entry(k, c)]
        BY <1>2, NoneRoot
      <3>2. QED
        BY <3>1 DEF Closed
    <2>2. NodesOf(d) \subseteq S
      BY <2>1 DEF Tree, Reached
    <2> DEFINE I == {i \in Nat : l + i <= L => u[l + i] \in S}
    <2>3. 0 \in I
      BY <2>2
    <2>4. ASSUME NEW i \in I PROVE i + 1 \in I
      <3> SUFFICES ASSUME l + (i + 1) <= L PROVE u[l + (i + 1)] \in S
        OBVIOUS
      <3>1. i \in Nat /\ u[l + i] \in S
        OBVIOUS
      <3>2. PICK j \in (l + 1)..L : j = l + (i + 1) /\ j - 1 = l + i
        BY <3>1
      <3>3. e[Entry(u[j - 1], path[j])] = u[j] /\ u[j] \in Names /\ u[j - 1] \in S
              /\ path[j] \in PathNames
        BY <3>1, <3>2
      <3>4. u[j] \in S
        BY <3>3 DEF Closed
      <3>5. QED
        BY <3>2, <3>4
    <2>5. ASSUME NEW j \in (l + 1)..L PROVE u[j] \in S
      <3>1. I \in SUBSET Nat
        OBVIOUS
      <3>2. j - l \in Nat /\ l + (j - l) = j
        OBVIOUS
      <3>3. j - l \in I
        <4> HIDE DEF I
        <4>1. QED
          BY <2>3, <2>4, <3>1, <3>2, SetInduction
      <3>4. QED
        BY <3>2, <3>3
    <2>6. QED
      BY <1>1, <2>2, <2>5
  <1>8. WereGiven(e)
    <2> SUFFICES ASSUME NEW m \in AutoNames, m \in NodesOf(e)
                 PROVE  e[Given(m)] # None
      BY DEF WereGiven
    <2>1. CASE m \in New
      BY <2>1
    <2>2. CASE m \in NodesOf(d)
      BY <2>2 DEF Tree, WereGiven
    <2>3. QED
      BY <1>1, <2>1, <2>2
  <1>9. QED
    BY <1>4, <1>5, <1>6, <1>7, <1>8 DEF Tree

-----------------------------------------------------------------------------
(* Paths *)

\* A transaction with the reads R has found the nodes x along path, and the
\* entries that it has read are those of d.
Found(d, R, path, x) ==
    /\ path \in Seq(PathNames) /\ path # <<>>
    /\ x[0] = Root
    /\ \A i \in 1..Len(path) :
          /\ x[i] \in Names \cup {None}
          /\ x[i - 1] = None => x[i] = None
          /\ x[i - 1] # None => /\ Entry(x[i - 1], path[i]) \in R
                                /\ d[Entry(x[i - 1], path[i])] = x[i]

\* In a tree there is one path to a node.
LEMMA OnePath ==
    ASSUME NEW d, Tree(d), NEW R, NEW p, NEW x, Found(d, R, p, x), NEW q, NEW y, Found(d, R, q, y),
           NEW i \in 0..Len(p), NEW j \in 0..Len(q), x[i] = y[j], x[i] # None
    PROVE  i = j /\ \A h \in 1..i : p[h] = q[h]
  <1> DEFINE Same(m) == \A k \in 0..Len(q) : x[m] = y[k] /\ x[m] # None =>
                           m = k /\ \A h \in 1..m : p[h] = q[h]
             I == {m \in Nat : m <= Len(p) => Same(m)}
  <1>0. /\ Len(p) \in Nat /\ Len(q) \in Nat
        /\ \A k \in 1..Len(p) : p[k] \in PathNames /\ k - 1 \in 0..Len(p)
        /\ \A k \in 1..Len(q) : q[k] \in PathNames /\ k - 1 \in 0..Len(q)
    BY DEF Found
  <1>1. /\ \A k \in 0..Len(p) : x[k] # None => x[k] \in Places
        /\ \A k \in 0..Len(q) : y[k] # None => y[k] \in Places
    <2>1. \A k \in 0..Len(p) : k = 0 \/ k \in 1..Len(p)
      BY <1>0
    <2>2. \A k \in 0..Len(q) : k = 0 \/ k \in 1..Len(q)
      BY <1>0
    <2>3. QED
      BY <2>1, <2>2 DEF Found, Places
  <1>2. 0 \in I
    <2> SUFFICES ASSUME NEW k \in 0..Len(q), x[0] = y[k] PROVE k = 0
      BY <1>0
    <2>1. CASE k \in 1..Len(q)
      BY <2>1, NoneRoot DEF Found
    <2>2. QED
      BY <1>0, <2>1
  <1>3. ASSUME NEW m \in I PROVE m + 1 \in I
    <2>0. m \in Nat
      OBVIOUS
    <2> SUFFICES ASSUME m + 1 <= Len(p), NEW k \in 0..Len(q), x[m + 1] = y[k], x[m + 1] # None
                 PROVE  m + 1 = k /\ \A h \in 1..(m + 1) : p[h] = q[h]
      BY <2>0
    <2>1. m + 1 \in 1..Len(p) /\ (m + 1) - 1 = m /\ m \in 0..Len(p) /\ Same(m)
      BY <1>0, <2>0
    <2>2. x[m] # None /\ d[Entry(x[m], p[m + 1])] = x[m + 1] /\ x[m + 1] \in Names
      BY <2>1 DEF Found
    <2>3. k # 0
      BY <2>2, NoneRoot DEF Found
    <2>4. k \in 1..Len(q) /\ k - 1 \in 0..Len(q)
      BY <1>0, <2>3
    <2>5. y[k - 1] # None /\ d[Entry(y[k - 1], q[k])] = y[k]
      BY <2>4 DEF Found
    <2>6. x[m] = y[k - 1] /\ p[m + 1] = q[k]
      <3>1. x[m] \in Places /\ y[k - 1] \in Places /\ p[m + 1] \in PathNames /\ q[k] \in PathNames
        <4>1. x[m] \in Places /\ y[k - 1] \in Places
          BY <1>1, <2>1, <2>2, <2>4, <2>5
        <4>2. p[m + 1] \in PathNames /\ q[k] \in PathNames
          BY <1>0, <2>1, <2>4
        <4>3. QED
          BY <4>1, <4>2
      <3>2. QED
        BY <2>2, <2>5, <3>1, NoneRoot DEF Tree, Single
    <2>7. m = k - 1 /\ \A h \in 1..m : p[h] = q[h]
      BY <2>1, <2>2, <2>4, <2>6
    <2>8. m + 1 = k
      BY <2>0, <2>4, <2>7
    <2>9. \A h \in 1..(m + 1) : h \in 1..m \/ h = m + 1
      BY <2>0
    <2>10. QED
      BY <2>6, <2>7, <2>8, <2>9
  <1>4. i \in I
    <2>1. I \in SUBSET Nat /\ i \in Nat
      OBVIOUS
    <2> HIDE DEF I
    <2>2. QED
      BY <1>2, <1>3, <2>1, SetInduction
  <1>5. QED
    BY <1>0, <1>4

\* check_not_subpath/2: the new parent of a node is not below it.
LEMMA NotBelow ==
    ASSUME NEW d, Tree(d), NEW R, NEW old, NEW x, Found(d, R, old, x),
           NEW new, NEW y, Found(d, R, new, y), check_not_subpath(old, new),
           x[Len(old)] # None, y[Len(new) - 1] # None
    PROVE  \E C \in SUBSET Places : /\ x[Len(old)] \in C /\ y[Len(new) - 1] \notin C
                                    /\ Closed(d, C)
  <1> DEFINE M == Len(old)
             N == Len(new)
             n == x[M]
             C == Places \ {y[i] : i \in 0..(N - 1)}
  <1>1. M \in Nat \ {0} /\ N \in Nat \ {0} /\ N - 1 \in 0..(N - 1) /\ M \in 0..M /\ M \in 1..M
    <2>1. old \in Seq(PathNames) /\ old # <<>> /\ new \in Seq(PathNames) /\ new # <<>>
      BY DEF Found
    <2>2. M \in Nat /\ N \in Nat /\ M # 0 /\ N # 0
      BY <2>1, EmptySeq
    <2>3. QED
      BY <2>2
  <1>2. y[N - 1] \notin C
    BY <1>1
  <1>3. n \in C
    <2>1. n \in Places
      BY <1>1 DEF Found, Places
    <2>2. ASSUME NEW i \in 0..(N - 1), n = y[i] PROVE FALSE
      <3>1. i \in 0..N /\ x[M] = y[i] /\ x[M] # None
        BY <1>1, <2>2
      <3>2. M = i /\ \A h \in 1..M : old[h] = new[h]
        BY <1>1, <3>1, OnePath
      <3>3. StartsWith(new, old)
        <4>1. M <= N /\ old \in Seq(PathNames) /\ new \in Seq(PathNames)
          BY <1>1, <2>2, <3>2 DEF Found
        <4>2. SubSeq(new, 1, M) = old
          BY <1>1, <3>2, <4>1
        <4>3. QED
          BY <4>1, <4>2 DEF StartsWith
      <3>4. QED
        BY <3>3 DEF check_not_subpath
    <2>3. QED
      BY <2>1, <2>2
  <1>4. Closed(d, C)
    <2> SUFFICES ASSUME NEW k \in C, NEW a \in PathNames, d[Entry(k, a)] \in Names,
                        d[Entry(k, a)] \notin C
                 PROVE  FALSE
      BY DEF Closed
    <2>1. PICK i \in 0..(N - 1) : d[Entry(k, a)] = y[i]
      BY DEF Places
    <2>2. i # 0
      BY <2>1, NoneRoot DEF Found
    <2>3. i \in 1..N /\ i - 1 \in 0..(N - 1) /\ i - 1 \in 0..N
      BY <1>1, <2>2
    <2>4. y[i] # None
      BY <2>1, NoneRoot
    <2>5. y[i - 1] # None /\ d[Entry(y[i - 1], new[i])] = y[i] /\ new[i] \in PathNames
      BY <2>3, <2>4 DEF Found
    <2>6. y[i - 1] \in Places
      <3>1. CASE i - 1 = 0
        BY <3>1 DEF Found, Places
      <3>2. CASE i - 1 # 0
        <4>1. i - 1 \in 1..N
          BY <1>1, <2>3, <3>2
        <4>2. QED
          BY <2>5, <4>1 DEF Found, Places
      <3>3. QED
        BY <3>1, <3>2
    <2>7. k = y[i - 1]
      BY <2>1, <2>4, <2>5, <2>6 DEF Tree, Single
    <2>8. QED
      BY <2>3, <2>7
  <1> HIDE DEF C
  <1>5. C \in SUBSET Places
    BY DEF C
  <1>6. QED
    BY <1>2, <1>3, <1>4, <1>5

-----------------------------------------------------------------------------
(* What a transaction that can commit is about to do *)

\* No node overlaps with the manual name n: transaction R has read the layer of
\* every name that continues n, and of every name that n continues or of a node
\* which such a name would overlap with.
Unclaimed(d, R, n) ==
    \A k \in Names :
        /\ StartsWith(k, n) => Layer(k) \in R /\ d[Layer(k)] = None
        /\ StartsWith(n, k) /\ k # n =>
              \/ Layer(k) \in R /\ d[Layer(k)] = None
              \/ \E m \in Names : /\ Layer(m) \in R /\ d[Layer(m)] # None
                                  /\ StartsWith(m, k) /\ m # k

\* The name of a new node.
Unused(d, R, n) ==
    \/ n \in AutoNames /\ Given(n) \in R /\ d[Given(n)] = None
    \/ n \in ManualNames /\ Unclaimed(d, R, n)

\* The version that initialize_directory/2 sets.
OfVersion(W, k) == k = Version /\ W[k] = "current"

\* create_int/5: the nodes u[l + 1], ... are added along path.
Creates(d, R, W, path, x, l, u) ==
    /\ Found(d, R, path, x) /\ l \in Nat /\ l < Len(path)
    /\ x[l] # None /\ x[l + 1] = None /\ u[l] = x[l]
    /\ \A i \in (l + 1)..Len(path) : u[i] \in Names /\ Unused(d, R, u[i])
    /\ \A i, j \in (l + 1)..Len(path) : u[i] = u[j] => i = j
    /\ \A i \in (l + 1)..Len(path) : u[i] \in AutoNames \/ i = Len(path)
    /\ \A i \in (l + 1)..Len(path) :
          /\ Entry(u[i - 1], path[i]) \in DOMAIN W /\ W[Entry(u[i - 1], path[i])] = u[i]
          /\ Layer(u[i]) \in DOMAIN W /\ W[Layer(u[i])] = "layer"
          /\ u[i] \in AutoNames => Given(u[i]) \in DOMAIN W
    /\ \A k \in DOMAIN W :
          \/ \E i \in (l + 1)..Len(path) : k = Entry(u[i - 1], path[i]) \/ k = Layer(u[i])
          \/ \E n \in AutoNames : k = Given(n) /\ W[k] = "given"
          \/ OfVersion(W, k)

\* move/4: from the last entry of old to the last one of new.
Moves(d, R, W, old, x, new, y) ==
    /\ Found(d, R, old, x) /\ Found(d, R, new, y) /\ check_not_subpath(old, new)
    /\ x[Len(old)] # None /\ y[Len(new)] = None /\ y[Len(new) - 1] # None
    /\ LET from == Entry(x[Len(old) - 1], old[Len(old)])
           to   == Entry(y[Len(new) - 1], new[Len(new)])
       IN /\ from \in DOMAIN W /\ W[from] = None
          /\ to \in DOMAIN W /\ W[to] = x[Len(old)]
          /\ \A k \in DOMAIN W : k = from \/ k = to \/ OfVersion(W, k)

\* remove_int/4: the last node of path with the set S of all below it.
Removes(d, R, W, path, x, S) ==
    /\ Found(d, R, path, x) /\ S \subseteq Names
    /\ x[Len(path)] # None /\ x[Len(path)] \in S
    /\ \A m \in S : /\ Layer(m) \in R /\ d[Layer(m)] # None
                    /\ \A a \in PathNames : Entry(m, a) \in R
    /\ Closed(d, S)
    /\ \A m \in S \ {x[Len(path)]} : \E k \in S, a \in PathNames : d[Entry(k, a)] = m
    /\ LET e == Entry(x[Len(path) - 1], path[Len(path)])
       IN /\ e \in DOMAIN W
          /\ \A m \in S : Layer(m) \in DOMAIN W /\ \A a \in PathNames : Entry(m, a) \in DOMAIN W
          /\ \A k \in DOMAIN W :
                \/ OfVersion(W, k)
                \/ /\ W[k] = None
                   /\ \/ k = e
                      \/ \E m \in S : k = Layer(m) \/ \E a \in PathNames : k = Entry(m, a)
                      \/ \E m \in S, j \in Names : StartsWith(j, m) /\ k = Content(j)

\* remove_if_exists/3 of a missing path.
Initializes(W) == \A k \in DOMAIN W : OfVersion(W, k)

Operation(d, R, W) ==
    \/ Initializes(W)
    \/ \E path, x, l, u : Creates(d, R, W, path, x, l, u)
    \/ \E old, x, new, y : Moves(d, R, W, old, x, new, y)
    \/ \E path, x, S : Removes(d, R, W, path, x, S)

\* It does the same as long as the keys that it has read are not written.
LEMMA FoundStays ==
    ASSUME NEW d, NEW e, NEW R, \A k \in R : e[k] = d[k],
           NEW path, NEW x, Found(d, R, path, x)
    PROVE  Found(e, R, path, x)
  BY DEF Found

\* A name stays unused until a key that was read is written.
LEMMA UnusedStays ==
    ASSUME NEW d, NEW e, NEW R, \A k \in R : e[k] = d[k], NEW n, Unused(d, R, n)
    PROVE  Unused(e, R, n)
  <1>1. CASE n \in AutoNames /\ Given(n) \in R /\ d[Given(n)] = None
    BY <1>1 DEF Unused
  <1>2. CASE n \in ManualNames /\ Unclaimed(d, R, n)
    <2>1. Unclaimed(e, R, n)
      BY <1>2 DEF Unclaimed
    <2>2. QED
      BY <1>2, <2>1 DEF Unused
  <1>3. QED
    BY <1>1, <1>2 DEF Unused

\* An operation stays one until a key that it has read is written.
LEMMA OperationStays ==
    ASSUME NEW d, NEW e, NEW R, NEW W, \A k \in R : e[k] = d[k], Operation(d, R, W)
    PROVE  Operation(e, R, W)
  <1>1. CASE Initializes(W)
    BY <1>1 DEF Operation
  <1>2. ASSUME NEW path, NEW x, NEW l, NEW u, Creates(d, R, W, path, x, l, u)
        PROVE  Operation(e, R, W)
    <2>1. Found(e, R, path, x)
      BY <1>2, FoundStays DEF Creates
    <2>2. \A i \in (l + 1)..Len(path) : Unused(e, R, u[i])
      BY <1>2, UnusedStays DEF Creates
    <2>3. Creates(e, R, W, path, x, l, u)
      BY <1>2, <2>1, <2>2 DEF Creates
    <2>4. QED
      BY <2>3 DEF Operation
  <1>3. ASSUME NEW old, NEW x, NEW new, NEW y, Moves(d, R, W, old, x, new, y)
        PROVE  Operation(e, R, W)
    <2>1. Found(e, R, old, x) /\ Found(e, R, new, y)
      BY <1>3, FoundStays DEF Moves
    <2>2. Moves(e, R, W, old, x, new, y)
      BY <1>3, <2>1 DEF Moves
    <2>3. QED
      BY <2>2 DEF Operation
  <1>4. ASSUME NEW path, NEW x, NEW S, Removes(d, R, W, path, x, S)
        PROVE  Operation(e, R, W)
    <2>1. Found(e, R, path, x)
      BY <1>4, FoundStays DEF Removes
    <2>2. \A m \in S : e[Layer(m)] = d[Layer(m)] /\ \A a \in PathNames : e[Entry(m, a)] = d[Entry(m, a)]
      BY <1>4 DEF Removes
    <2>3. Closed(e, S)
      BY <1>4, <2>2 DEF Removes, Closed
    <2>4. \A m \in S \ {x[Len(path)]} : \E k \in S, a \in PathNames : e[Entry(k, a)] = m
      BY <1>4, <2>2 DEF Removes
    <2>5. Removes(e, R, W, path, x, S)
      BY <1>4, <2>1, <2>2, <2>3, <2>4 DEF Removes
    <2>6. QED
      BY <2>5 DEF Operation
  <1>5. QED
    BY <1>1, <1>2, <1>3, <1>4 DEF Operation

\* The keys of the tree are keys of the database.
LEMMA TreeKeys ==
    /\ \A k \in Places, a \in PathNames : Entry(k, a) \in DbKeys
    /\ \A m \in Names : Layer(m) \in DbKeys
    /\ \A m \in AutoNames : Given(m) \in DbKeys /\ m \in Names
  BY DEF DbKeys, AllEntries, Entries, Places, Names

\* A new name is not that of a node.
LEMMA UnusedIsNew ==
    ASSUME NEW d, Tree(d), NEW R, NEW n \in Names, Unused(d, R, n), StartsWith(n, n)
    PROVE  n \notin NodesOf(d)
  BY DEF Unused, Unclaimed, Tree, WereGiven, NodesOf

\* A name begins with itself.
LEMMA StartsItself == \A n \in Names : StartsWith(n, n)
  <1> SUFFICES ASSUME NEW n \in Names PROVE StartsWith(n, n)
    OBVIOUS
  <1>1. n \in Seq(Nat)
    BY DirectoryAssumption DEF Names
  <1>2. SubSeq(n, 1, Len(n)) = n
    BY <1>1
  <1>3. QED
    BY <1>1, <1>2 DEF StartsWith

\* The last entry of a path that was found.
LEMMA LastFound ==
    ASSUME NEW d, Tree(d), NEW R, NEW path, NEW x, Found(d, R, path, x),
           NEW i \in 1..Len(path), x[i - 1] # None
    PROVE  /\ path[i] \in PathNames /\ x[i - 1] \in Places /\ x[i - 1] \in NodesOf(d) \cup {Root}
           /\ d[Entry(x[i - 1], path[i])] = x[i] /\ x[i] \in Names \cup {None}
  <1>1. path \in Seq(PathNames) /\ Len(path) \in Nat
    BY DEF Found
  <1>2. path[i] \in PathNames
    BY <1>1
  <1>3. CASE i = 1
    BY <1>2, <1>3 DEF Found, Places
  <1>4. CASE i # 1
    <2>1. i - 1 \in 1..Len(path) /\ (i - 1) - 1 \in 0..Len(path)
      BY <1>1, <1>4
    <2> DEFINE j == i - 1
               z == x[j - 1]
    <2>2. x[j] \in Names /\ z # None /\ d[Entry(z, path[j])] = x[j] /\ path[j] \in PathNames
      BY <1>1, <2>1 DEF Found
    <2>3. z \in Places
      <3>1. CASE j - 1 = 0
        BY <3>1 DEF Found, Places
      <3>2. CASE j - 1 # 0
        <4>1. j - 1 \in 1..Len(path)
          BY <2>1, <3>2
        <4>2. QED
          BY <2>2, <4>1 DEF Found, Places
      <3>3. QED
        BY <3>1, <3>2
    <2>4. x[j] \in NodesOf(d)
      BY <2>2, <2>3, NoneRoot DEF Tree, Kept
    <2>5. QED
      BY <1>2, <2>2, <2>4 DEF Found, Places
  <1>5. QED
    BY <1>3, <1>4

-----------------------------------------------------------------------------
(* The commit of an operation keeps the tree *)

\* The database after a commit, key by key.
LEMMA Overridden ==
    ASSUME NEW d, NEW W, DbKeys \subseteq DOMAIN d
    PROVE  \A k \in DbKeys : Over(d, W)[k] = IF k \in DOMAIN W THEN W[k] ELSE d[k]
  BY DEF Over

\* create/4: the new nodes hang below the last one that existed.
LEMMA CreatesTree ==
    ASSUME NEW d, Tree(d), DbKeys \subseteq DOMAIN d, NEW R, NEW W,
           NEW path, NEW x, NEW l, NEW u, Creates(d, R, W, path, x, l, u)
    PROVE  Tree(Over(d, W))
  <1> DEFINE e == Over(d, W)
             L == Len(path)
  <1>1. /\ Found(d, R, path, x) /\ l \in Nat /\ l < L /\ L \in Nat /\ path \in Seq(PathNames)
        /\ x[l] # None /\ x[l + 1] = None /\ u[l] = x[l]
    BY DEF Creates, Found
  <1>2. \A k \in DbKeys : e[k] = IF k \in DOMAIN W THEN W[k] ELSE d[k]
    BY Overridden
  <1> HIDE DEF e
  <1>3. u[l] \in NodesOf(d) \cup {Root} /\ d[Entry(u[l], path[l + 1])] = None
    <2>1. l + 1 \in 1..L /\ (l + 1) - 1 = l
      BY <1>1
    <2>2. PICK j \in 1..L : j = l + 1 /\ j - 1 = l
      BY <2>1
    <2>3. x[j - 1] \in NodesOf(d) \cup {Root} /\ d[Entry(x[j - 1], path[j])] = x[j]
      BY <1>1, <2>2, LastFound
    <2>4. QED
      BY <1>1, <2>2, <2>3
  <1>4. \A i \in (l + 1)..L : path[i] \in PathNames /\ u[i] \in Names /\ u[i] \notin NodesOf(d)
    <2> SUFFICES ASSUME NEW i \in (l + 1)..L
                 PROVE  path[i] \in PathNames /\ u[i] \in Names /\ u[i] \notin NodesOf(d)
      OBVIOUS
    <2>1. i \in 1..L
      BY <1>1
    <2>2. path[i] \in PathNames
      BY <1>1, <2>1
    <2>3. u[i] \in Names /\ Unused(d, R, u[i])
      BY DEF Creates
    <2>4. QED
      BY <2>2, <2>3, StartsItself, UnusedIsNew
  <1>5. \A i, j \in (l + 1)..L : u[i] = u[j] => i = j
    BY DEF Creates
  <1>6. \A i \in (l + 1)..L : u[i - 1] \in Places
    <2> SUFFICES ASSUME NEW i \in (l + 1)..L PROVE u[i - 1] \in Places
      OBVIOUS
    <2>1. CASE i = l + 1
      <3>1. i - 1 = l
        BY <1>1, <2>1
      <3>2. QED
        BY <1>3, <3>1 DEF Places, NodesOf
    <2>2. CASE i # l + 1
      <3>1. i - 1 \in (l + 1)..L
        BY <1>1, <2>2
      <3>2. QED
        BY <1>4, <3>1 DEF Places
    <2>3. QED
      BY <2>1, <2>2
  <1>7. \A i \in (l + 1)..L :
            /\ e[Entry(u[i - 1], path[i])] = u[i]
            /\ e[Layer(u[i])] # None
            /\ u[i] \in AutoNames => e[Given(u[i])] # None
    <2> SUFFICES ASSUME NEW i \in (l + 1)..L
                 PROVE  /\ e[Entry(u[i - 1], path[i])] = u[i]
                        /\ e[Layer(u[i])] # None
                        /\ u[i] \in AutoNames => e[Given(u[i])] # None
      OBVIOUS
    <2>1. /\ Entry(u[i - 1], path[i]) \in DOMAIN W /\ W[Entry(u[i - 1], path[i])] = u[i]
          /\ Layer(u[i]) \in DOMAIN W /\ W[Layer(u[i])] = "layer"
          /\ u[i] \in AutoNames => Given(u[i]) \in DOMAIN W
      BY DEF Creates
    <2>2. Entry(u[i - 1], path[i]) \in DbKeys /\ Layer(u[i]) \in DbKeys
            /\ (u[i] \in AutoNames => Given(u[i]) \in DbKeys)
      BY <1>4, <1>6, TreeKeys
    <2>3. ASSUME u[i] \in AutoNames PROVE e[Given(u[i])] # None
      <3>1. e[Given(u[i])] = W[Given(u[i])] /\ Given(u[i]) \in DOMAIN W
        BY <1>2, <2>1, <2>2, <2>3
      <3>2. W[Given(u[i])] = "given"
        BY <3>1, Kinds DEF Creates, OfVersion
      <3>3. QED
        BY <3>1, <3>2, DirectoryAssumption
    <2>4. e[Layer(u[i])] = "layer" /\ e[Entry(u[i - 1], path[i])] = u[i]
      BY <1>2, <2>1, <2>2
    <2>5. QED
      BY <2>3, <2>4, DirectoryAssumption
  <1>8. \A k \in Places, c \in PathNames :
            \/ e[Entry(k, c)] = d[Entry(k, c)]
            \/ \E i \in (l + 1)..L : k = u[i - 1] /\ c = path[i]
    <2> SUFFICES ASSUME NEW k \in Places, NEW c \in PathNames, Entry(k, c) \in DOMAIN W
                 PROVE  \E i \in (l + 1)..L : k = u[i - 1] /\ c = path[i]
      BY <1>2, TreeKeys
    <2>1. PICK i \in (l + 1)..L : Entry(k, c) = Entry(u[i - 1], path[i]) \/ Entry(k, c) = Layer(u[i])
      BY Kinds DEF Creates, OfVersion
    <2>2. QED
      BY <2>1, Kinds
  <1>9. \A m \in Names : e[Layer(m)] = d[Layer(m)] \/ \E i \in (l + 1)..L : m = u[i]
    <2> SUFFICES ASSUME NEW m \in Names, Layer(m) \in DOMAIN W
                 PROVE  \E i \in (l + 1)..L : m = u[i]
      BY <1>2, TreeKeys
    <2>1. \/ \E i \in (l + 1)..L : Layer(m) = Entry(u[i - 1], path[i]) \/ Layer(m) = Layer(u[i])
          \/ \E n \in AutoNames : Layer(m) = Given(n)
          \/ Layer(m) = Version
      BY DEF Creates, OfVersion
    <2>2. PICK i \in (l + 1)..L : Layer(m) = Entry(u[i - 1], path[i]) \/ Layer(m) = Layer(u[i])
      BY <2>1, Kinds
    <2>3. QED
      BY <2>2, Kinds
  <1>10. \A m \in AutoNames : e[Given(m)] = d[Given(m)] \/ e[Given(m)] # None
    <2> SUFFICES ASSUME NEW m \in AutoNames, Given(m) \in DOMAIN W PROVE e[Given(m)] # None
      BY <1>2, TreeKeys
    <2>1. W[Given(m)] = "given"
      BY Kinds DEF Creates, OfVersion
    <2>2. e[Given(m)] = W[Given(m)]
      BY <1>2, TreeKeys
    <2>3. QED
      BY <2>1, <2>2, DirectoryAssumption
  <1>11. /\ \A i \in (l + 1)..L : e[Entry(u[i - 1], path[i])] = u[i]
         /\ \A i \in (l + 1)..L : e[Layer(u[i])] # None
         /\ \A i \in (l + 1)..L : u[i] \in AutoNames => e[Given(u[i])] # None
    BY <1>7
  <1>12. L \in Nat /\ l \in Nat /\ l < L
    BY <1>1
  <1> HIDE DEF L
  <1>13. Tree(e)
    <2>1. Adds(d, e, L, l, u, path)
      BY <1>3, <1>4, <1>5, <1>8, <1>9, <1>10, <1>11 DEF Adds
    <2>2. QED
      BY <1>12, <2>1, CreateKeeps
  <1>14. QED
    BY <1>13 DEF e

\* move/4: the node's new parent is not below it.
LEMMA MovesTree ==
    ASSUME NEW d, Tree(d), DbKeys \subseteq DOMAIN d, NEW R, NEW W,
           NEW old, NEW x, NEW new, NEW y, Moves(d, R, W, old, x, new, y)
    PROVE  Tree(Over(d, W))
  <1> DEFINE e == Over(d, W)
  <1>1. PICK M, N, n, v, b, u, a :
            /\ M = Len(old) /\ N = Len(new) /\ n = x[M] /\ v = x[M - 1] /\ b = old[M]
            /\ u = y[N - 1] /\ a = new[N]
    OBVIOUS
  <1>2. /\ Found(d, R, old, x) /\ Found(d, R, new, y) /\ check_not_subpath(old, new)
        /\ n # None /\ y[N] = None /\ u # None
        /\ Entry(v, b) \in DOMAIN W /\ W[Entry(v, b)] = None
        /\ Entry(u, a) \in DOMAIN W /\ W[Entry(u, a)] = n
        /\ \A k \in DOMAIN W : k = Entry(v, b) \/ k = Entry(u, a) \/ OfVersion(W, k)
    BY <1>1 DEF Moves
  <1>3. M \in 1..Len(old) /\ N \in 1..Len(new)
    <2>1. old \in Seq(PathNames) /\ old # <<>> /\ new \in Seq(PathNames) /\ new # <<>>
      BY <1>2 DEF Found
    <2>2. M \in Nat /\ N \in Nat /\ M # 0 /\ N # 0
      BY <1>1, <2>1, EmptySeq
    <2>3. QED
      BY <1>1, <2>2
  <1>4. v # None
    BY <1>1, <1>2, <1>3 DEF Found
  <1>5. b \in PathNames /\ v \in Places /\ d[Entry(v, b)] = n /\ n \in Names
    BY <1>1, <1>2, <1>3, <1>4, LastFound
  <1>6. a \in PathNames /\ u \in Places /\ d[Entry(u, a)] = None /\ u \in NodesOf(d) \cup {Root}
    BY <1>1, <1>2, <1>3, LastFound
  <1>7. PICK C \in SUBSET Places : n \in C /\ u \notin C /\ Closed(d, C)
    BY <1>1, <1>2, NotBelow
  <1>8. \A k \in DbKeys : e[k] = IF k \in DOMAIN W THEN W[k] ELSE d[k]
    BY Overridden
  <1> HIDE DEF e
  <1>9. e[Entry(u, a)] = n /\ e[Entry(v, b)] = None
    BY <1>2, <1>5, <1>6, <1>8, TreeKeys
  <1>10. \A k \in Places, c \in PathNames :
            ~(k = u /\ c = a) /\ ~(k = v /\ c = b) => e[Entry(k, c)] = d[Entry(k, c)]
    BY <1>2, <1>8, TreeKeys, Kinds DEF OfVersion
  <1>11. \A m \in Names : e[Layer(m)] = d[Layer(m)]
    BY <1>2, <1>8, TreeKeys, Kinds DEF OfVersion
  <1>12. \A m \in AutoNames : e[Given(m)] = d[Given(m)]
    BY <1>2, <1>8, TreeKeys, Kinds DEF OfVersion
  <1>13. Tree(e)
    BY <1>5, <1>6, <1>7, <1>9, <1>10, <1>11, <1>12, MoveKeeps
  <1>14. QED
    BY <1>13 DEF e

\* remove/3: all nodes below go with the node.
LEMMA RemovesTree ==
    ASSUME NEW d, Tree(d), DbKeys \subseteq DOMAIN d, NEW R, NEW W,
           NEW path, NEW x, NEW S, Removes(d, R, W, path, x, S)
    PROVE  Tree(Over(d, W))
  <1> DEFINE e == Over(d, W)
  <1>1. PICK M, n, v, b : M = Len(path) /\ n = x[M] /\ v = x[M - 1] /\ b = path[M]
    OBVIOUS
  <1>2. /\ Found(d, R, path, x) /\ S \subseteq Names /\ n # None /\ n \in S
        /\ \A m \in S : d[Layer(m)] # None
        /\ Closed(d, S)
        /\ \A m \in S \ {n} : \E k \in S, c \in PathNames : d[Entry(k, c)] = m
    BY <1>1 DEF Removes
  <1>3. /\ Entry(v, b) \in DOMAIN W
        /\ \A m \in S : Layer(m) \in DOMAIN W /\ \A c \in PathNames : Entry(m, c) \in DOMAIN W
        /\ \A k \in DOMAIN W :
              \/ OfVersion(W, k)
              \/ /\ W[k] = None
                 /\ \/ k = Entry(v, b)
                    \/ \E m \in S : k = Layer(m) \/ \E c \in PathNames : k = Entry(m, c)
                    \/ \E m \in S, j \in Names : StartsWith(j, m) /\ k = Content(j)
    BY <1>1 DEF Removes
  <1>4. M \in 1..Len(path)
    <2>1. path \in Seq(PathNames) /\ path # <<>>
      BY <1>2 DEF Found
    <2>2. M \in Nat /\ M # 0
      BY <1>1, <2>1, EmptySeq
    <2>3. QED
      BY <1>1, <2>2
  <1>5. v # None
    BY <1>1, <1>2, <1>4 DEF Found
  <1>6. b \in PathNames /\ v \in Places /\ d[Entry(v, b)] = n /\ n \in Names
    BY <1>1, <1>2, <1>4, <1>5, LastFound
  <1>7. S \in SUBSET NodesOf(d) /\ S \subseteq Places
    BY <1>2 DEF NodesOf, Places
  <1>8. \A k \in DbKeys : e[k] = IF k \in DOMAIN W THEN W[k] ELSE d[k]
    BY Overridden
  <1> HIDE DEF e
  <1>9. ASSUME NEW k \in Places, NEW c \in PathNames
        PROVE  /\ Entry(k, c) \in DOMAIN W => W[Entry(k, c)] = None /\ (k \in S \/ (k = v /\ c = b))
               /\ Entry(k, c) \in DbKeys
    BY <1>3, Kinds, TreeKeys DEF OfVersion
  <1>10. e[Entry(v, b)] = None /\ \A k \in S, c \in PathNames : e[Entry(k, c)] = None
    BY <1>3, <1>6, <1>7, <1>8, <1>9
  <1>11. \A k \in Places, c \in PathNames :
            k \notin S /\ ~(k = v /\ c = b) => e[Entry(k, c)] = d[Entry(k, c)]
    BY <1>8, <1>9
  <1>12. \A m \in Names : e[Layer(m)] = IF m \in S THEN None ELSE d[Layer(m)]
    <2> SUFFICES ASSUME NEW m \in Names
                 PROVE  e[Layer(m)] = IF m \in S THEN None ELSE d[Layer(m)]
      OBVIOUS
    <2>1. Layer(m) \in DOMAIN W => W[Layer(m)] = None /\ m \in S
      BY <1>3, Kinds DEF OfVersion
    <2>2. QED
      BY <1>3, <1>8, <2>1, TreeKeys
  <1>13. \A m \in AutoNames : e[Given(m)] = d[Given(m)]
    BY <1>3, <1>8, TreeKeys, Kinds DEF OfVersion
  <1>14. Tree(e)
    BY <1>2, <1>6, <1>7, <1>10, <1>11, <1>12, <1>13, RemoveKeeps
  <1>15. QED
    BY <1>14 DEF e

\* An operation on a tree gives a tree.
LEMMA OperationTree ==
    ASSUME NEW d, Tree(d), DbKeys \subseteq DOMAIN d, NEW R, NEW W, Operation(d, R, W)
    PROVE  Tree(Over(d, W))
  <1>1. CASE Initializes(W)
    <2> DEFINE e == Over(d, W)
    <2>1. \A k \in DbKeys : e[k] = IF k \in DOMAIN W THEN W[k] ELSE d[k]
      BY Overridden
    <2> HIDE DEF e
    <2>2. \A k \in DbKeys : k # Version => e[k] = d[k]
      BY <1>1, <2>1 DEF Initializes, OfVersion
    <2>3. Tree(e)
      BY <2>2, TreeKeys, Kinds, TreeSame
    <2>4. QED
      BY <2>3 DEF e
  <1>2. QED
    BY <1>1, CreatesTree, MovesTree, RemovesTree DEF Operation

\* An operation writes keys of the database, and as the version only its own.
LEMMA OperationKeys ==
    ASSUME NEW d, Tree(d), NEW R, NEW W, Operation(d, R, W)
    PROVE  /\ DOMAIN W \subseteq DbKeys
           /\ Version \in DOMAIN W => W[Version] = "current"
  <1> DEFINE Fine == /\ DOMAIN W \subseteq DbKeys
                     /\ Version \in DOMAIN W => W[Version] = "current"
  <1>0. Version \in DbKeys /\ \A j \in Names : Content(j) \in DbKeys
    BY DEF DbKeys
  <1>1. CASE Initializes(W)
    BY <1>0, <1>1 DEF Initializes, OfVersion
  <1>2. ASSUME NEW path, NEW x, NEW l, NEW u, Creates(d, R, W, path, x, l, u) PROVE Fine
    <2>1. \A i \in (l + 1)..Len(path) : /\ path[i] \in PathNames /\ u[i] \in Names
                                        /\ u[i - 1] \in Places
      <3>1. /\ Found(d, R, path, x) /\ l \in Nat /\ l < Len(path) /\ Len(path) \in Nat
            /\ path \in Seq(PathNames) /\ x[l] # None /\ u[l] = x[l]
            /\ \A i \in (l + 1)..Len(path) : u[i] \in Names
        BY <1>2 DEF Creates, Found
      <3>2. PICK j \in 1..Len(path) : j = l + 1 /\ j - 1 = l
        BY <3>1
      <3>3. x[j - 1] \in Places
        BY <3>1, <3>2, LastFound
      <3> SUFFICES ASSUME NEW i \in (l + 1)..Len(path) PROVE path[i] \in PathNames /\ u[i - 1] \in Places
        BY <3>1
      <3>4. i \in 1..Len(path) /\ path[i] \in PathNames
        BY <3>1
      <3>5. CASE i - 1 = l
        BY <3>1, <3>2, <3>3, <3>4, <3>5
      <3>6. CASE i - 1 # l
        <4>1. i - 1 \in (l + 1)..Len(path)
          BY <3>1, <3>6
        <4>2. QED
          BY <3>1, <3>4, <4>1 DEF Places
      <3>7. QED
        BY <3>5, <3>6
    <2>2. \A k \in DOMAIN W : k \in DbKeys /\ (k = Version => W[k] = "current")
      <3> SUFFICES ASSUME NEW k \in DOMAIN W PROVE k \in DbKeys /\ (k = Version => W[k] = "current")
        OBVIOUS
      <3>1. \/ \E i \in (l + 1)..Len(path) : k = Entry(u[i - 1], path[i]) \/ k = Layer(u[i])
            \/ \E n \in AutoNames : k = Given(n)
            \/ k = Version /\ W[k] = "current"
        BY <1>2 DEF Creates, OfVersion
      <3>2. QED
        BY <1>0, <2>1, <3>1, TreeKeys, Kinds
    <2>3. QED
      BY <2>2
  <1>3. ASSUME NEW old, NEW x, NEW new, NEW y, Moves(d, R, W, old, x, new, y) PROVE Fine
    <2>1. PICK M, N, v, b, u, a : /\ M = Len(old) /\ N = Len(new) /\ v = x[M - 1] /\ b = old[M]
                                  /\ u = y[N - 1] /\ a = new[N]
      OBVIOUS
    <2>2. /\ Found(d, R, old, x) /\ Found(d, R, new, y) /\ x[M] # None /\ u # None
          /\ \A k \in DOMAIN W : k = Entry(v, b) \/ k = Entry(u, a) \/ OfVersion(W, k)
      BY <1>3, <2>1 DEF Moves
    <2>3. M \in 1..Len(old) /\ N \in 1..Len(new)
      <3>1. old \in Seq(PathNames) /\ old # <<>> /\ new \in Seq(PathNames) /\ new # <<>>
        BY <2>2 DEF Found
      <3>2. M \in Nat /\ N \in Nat /\ M # 0 /\ N # 0
        BY <2>1, <3>1, EmptySeq
      <3>3. QED
        BY <2>1, <3>2
    <2>4. v # None
      BY <2>1, <2>2, <2>3 DEF Found
    <2>5. b \in PathNames /\ v \in Places
      BY <2>1, <2>2, <2>3, <2>4, LastFound
    <2>6. a \in PathNames /\ u \in Places
      BY <2>1, <2>2, <2>3, LastFound
    <2>7. QED
      BY <1>0, <2>2, <2>5, <2>6, TreeKeys, Kinds DEF OfVersion
  <1>4. ASSUME NEW path, NEW x, NEW S, Removes(d, R, W, path, x, S) PROVE Fine
    <2>1. PICK M, v, b : M = Len(path) /\ v = x[M - 1] /\ b = path[M]
      OBVIOUS
    <2>2. /\ Found(d, R, path, x) /\ x[M] # None /\ S \subseteq Names
          /\ \A k \in DOMAIN W :
                \/ OfVersion(W, k)
                \/ k = Entry(v, b)
                \/ \E m \in S : k = Layer(m) \/ \E c \in PathNames : k = Entry(m, c)
                \/ \E j \in Names : k = Content(j)
      BY <1>4, <2>1 DEF Removes
    <2>3. M \in 1..Len(path)
      <3>1. path \in Seq(PathNames) /\ path # <<>>
        BY <2>2 DEF Found
      <3>2. M \in Nat /\ M # 0
        BY <2>1, <3>1, EmptySeq
      <3>3. QED
        BY <2>1, <3>2
    <2>4. v # None
      BY <2>1, <2>2, <2>3 DEF Found
    <2>5. b \in PathNames /\ v \in Places
      BY <2>1, <2>2, <2>3, <2>4, LastFound
    <2>6. QED
      BY <1>0, <2>2, <2>5, TreeKeys, Kinds DEF OfVersion, Places
  <1>5. QED
    BY <1>1, <1>2, <1>3, <1>4 DEF Operation

\* To read more does no harm.
LEMMA MoreReads ==
    ASSUME NEW d, NEW R, NEW Q, R \subseteq Q, NEW W, Operation(d, R, W)
    PROVE  Operation(d, Q, W)
  <1>0. \A path, x : Found(d, R, path, x) => Found(d, Q, path, x)
    BY DEF Found
  <1>1. CASE Initializes(W)
    BY <1>1 DEF Operation
  <1>2. ASSUME NEW path, NEW x, NEW l, NEW u, Creates(d, R, W, path, x, l, u)
        PROVE  Operation(d, Q, W)
    <2>1. \A n : Unclaimed(d, R, n) => Unclaimed(d, Q, n)
      BY DEF Unclaimed
    <2>2. \A i \in (l + 1)..Len(path) : Unused(d, Q, u[i])
      BY <1>2, <2>1 DEF Creates, Unused
    <2>3. Creates(d, Q, W, path, x, l, u)
      BY <1>0, <1>2, <2>2 DEF Creates
    <2>4. QED
      BY <2>3 DEF Operation
  <1>3. ASSUME NEW old, NEW x, NEW new, NEW y, Moves(d, R, W, old, x, new, y)
        PROVE  Operation(d, Q, W)
    <2>1. Moves(d, Q, W, old, x, new, y)
      BY <1>0, <1>3 DEF Moves
    <2>2. QED
      BY <2>1 DEF Operation
  <1>4. ASSUME NEW path, NEW x, NEW S, Removes(d, R, W, path, x, S)
        PROVE  Operation(d, Q, W)
    <2>1. Removes(d, Q, W, path, x, S)
      BY <1>0, <1>4 DEF Removes
    <2>2. QED
      BY <2>1 DEF Operation
  <1>5. QED
    BY <1>1, <1>2, <1>3, <1>4 DEF Operation

-----------------------------------------------------------------------------
(* The transactions that go on to commit *)

\* The keys of transactions and handles, and of the version.
KeysInv ==
    /\ DOMAIN db = DbKeys /\ db[Version] \in Versions
    /\ \A p \in Clients : tx[p].reads \subseteq DbKeys /\ DOMAIN tx[p].writes \subseteq DbKeys
    /\ handle \in [Clients -> Names \cup {None}]

\* The directories are a tree, and a transaction whose commit would succeed is
\* an operation on the tree as it is by now.
TreeInv ==
    /\ KeysInv /\ Tree(db)
    /\ \A p \in Clients : Valid(p) => Operation(db, tx[p].reads, tx[p].writes)

\* The directories begin as a tree.
LEMMA TreeInit == Init => TreeInv
  <1> SUFFICES ASSUME Init PROVE TreeInv
    OBVIOUS
  <1>1. NoTx.reads = {} /\ DOMAIN NoTx.writes = {} /\ NoTx.open = FALSE
    BY DEF NoTx
  <1>2. DOMAIN db = DbKeys /\ \A p \in Clients : tx[p] = NoTx
    BY DEF Init
  <1>3. \A k \in DbKeys : db[k] = None
    BY DEF Init
  <1>4. KeysInv
    BY <1>1, <1>2, <1>3, KeysOf DEF KeysInv, Init, Versions
  <1>5. /\ \A k \in Places, a \in PathNames : db[Entry(k, a)] = None
        /\ \A m \in Names : db[Layer(m)] = None
    BY <1>3, TreeKeys
  <1>6. NodesOf(db) = {}
    BY <1>5 DEF NodesOf
  <1>7. Tree(db)
    BY <1>5, <1>6 DEF Tree, Entered, Single, Kept, Reached, WereGiven
  <1>8. QED
    BY <1>1, <1>2, <1>4, <1>7 DEF TreeInv, Valid

\* The other transactions: what they have read has not been written.
LEMMA OthersStay ==
    ASSUME TreeInv, NEW q \in Clients, Valid(q),
           tx'[q].reads = tx[q].reads, tx'[q].writes = tx[q].writes,
           \A k \in tx[q].reads : db'[k] = db[k]
    PROVE  Operation(db', tx'[q].reads, tx'[q].writes)
  <1>1. PICK R, W : R = tx[q].reads /\ W = tx[q].writes
    OBVIOUS
  <1>2. Operation(db, R, W) /\ \A k \in R : db'[k] = db[k]
    BY <1>1 DEF TreeInv
  <1>3. Operation(db', R, W)
    BY <1>2, OperationStays
  <1>4. QED
    BY <1>1, <1>3

\* A new transaction.
LEMMA BeginTree ==
    ASSUME IInv, TreeInv, NEW p \in Clients, NEW R, NEW W, Begin(p, R, W),
           R \subseteq DbKeys, Operation(db, R, W)
    PROVE  TreeInv'
  <1> DEFINE t == [reads |-> R \cup check_version_reads, writes |-> W, ok |-> TRUE, open |-> TRUE]
  <1>1. t.writes = W /\ t.reads = R \cup {Version}
    BY DEF check_version_reads
  <1>2. DOMAIN tx = Clients /\ tx' = [tx EXCEPT ![p] = t] /\ db' = db /\ handle' = handle
    BY DEF IInv, TxShape, Begin
  <1> HIDE DEF t
  <1>3. tx'[p] = t /\ \A q \in Clients : q # p => tx'[q] = tx[q]
    BY <1>2
  <1>4. DOMAIN W \subseteq DbKeys
    BY OperationKeys DEF TreeInv
  <1>5. KeysInv'
    BY <1>1, <1>2, <1>3, <1>4, KeysOf DEF TreeInv, KeysInv, Versions, DbKeys
  <1>6. Operation(db, R \cup {Version}, W)
    <2>1. PICK Q : Q = R \cup {Version}
      OBVIOUS
    <2>2. Operation(db, Q, W)
      BY <2>1, MoreReads
    <2>3. QED
      BY <2>1, <2>2
  <1>7. QED
    <2>1. ASSUME NEW q \in Clients, Valid(q)' PROVE Operation(db', tx'[q].reads, tx'[q].writes)
      <3>1. CASE q = p
        BY <1>1, <1>2, <1>3, <1>6, <3>1
      <3>2. CASE q # p
        BY <1>2, <1>3, <2>1, <3>2, OthersStay DEF Valid
      <3>3. QED
        BY <3>1, <3>2
    <2>2. QED
      BY <1>2, <1>5, <2>1 DEF TreeInv

\* A commit applies an operation on the tree as it is now.
LEMMA CommitTree ==
    ASSUME IInv, TreeInv, NEW p \in Clients, commit(p)
    PROVE  TreeInv'
  <1>0. PICK R, W : R = tx[p].reads /\ W = tx[p].writes
    OBVIOUS
  <1>1. db' = Over(db, W) /\ Operation(db, R, W) /\ Tree(db) /\ DOMAIN db = DbKeys
    BY <1>0 DEF commit, TreeInv, KeysInv, Valid
  <1>2. DOMAIN W \subseteq DbKeys /\ (Version \in DOMAIN W => W[Version] = "current")
    BY <1>1, OperationKeys
  <1>3. /\ DOMAIN db' = DbKeys
        /\ \A k \in DbKeys \ DOMAIN W : db'[k] = db[k]
        /\ \A k \in DOMAIN W : db'[k] = W[k]
    <2>1. /\ DOMAIN Over(db, W) = DOMAIN db \cup DOMAIN W
          /\ \A k \in DOMAIN W : Over(db, W)[k] = W[k]
          /\ \A k \in DOMAIN db \ DOMAIN W : Over(db, W)[k] = db[k]
      BY OverDomain, Zenon
    <2>2. DOMAIN db \cup DOMAIN W = DbKeys
      BY <1>1, <1>2
    <2>3. QED
      BY <1>1, <2>1, <2>2
  <1>4. Tree(db')
    BY <1>1, OperationTree
  <1>5. NoTx.reads = {} /\ DOMAIN NoTx.writes = {} /\ NoTx.open = FALSE
    BY DEF NoTx
  <1>6. /\ tx'[p] = NoTx /\ handle' = handle
        /\ \A q \in Clients : q # p =>
              tx'[q] = [tx[q] EXCEPT !.ok = tx[q].ok /\ tx[q].reads \cap DOMAIN W = {}]
    BY <1>0 DEF commit
  <1>7. ASSUME NEW q \in Clients, q # p
        PROVE  /\ tx'[q].reads = tx[q].reads /\ tx'[q].writes = tx[q].writes
               /\ tx'[q].open = tx[q].open
               /\ tx'[q].ok => tx[q].ok /\ \A k \in tx[q].reads : k \notin DOMAIN W
    BY <1>6, <1>7 DEF IInv, TxShape
  <1>8. KeysInv'
    <2>1. db'[Version] \in Versions
      BY <1>2, <1>3, KeysOf DEF TreeInv, KeysInv, Versions
    <2>2. \A q \in Clients : tx'[q].reads \subseteq DbKeys /\ DOMAIN tx'[q].writes \subseteq DbKeys
      BY <1>5, <1>6, <1>7 DEF TreeInv, KeysInv
    <2>3. QED
      BY <1>3, <1>6, <2>1, <2>2 DEF TreeInv, KeysInv, DbKeys, Versions
  <1>9. ASSUME NEW q \in Clients, Valid(q)' PROVE Operation(db', tx'[q].reads, tx'[q].writes)
    <2>1. q # p
      BY <1>5, <1>6, <1>9 DEF Valid
    <2>2. Valid(q) /\ \A k \in tx[q].reads : k \notin DOMAIN W /\ k \in DbKeys
      BY <1>7, <1>9, <2>1 DEF Valid, TreeInv, KeysInv
    <2>3. QED
      BY <1>3, <1>7, <2>1, <2>2, OthersStay
  <1>10. QED
    BY <1>4, <1>8, <1>9 DEF TreeInv

\* A key is set that is not of the tree.
LEMMA SetTree ==
    ASSUME IInv, TreeInv, NEW k, NEW v,
           db' = [db EXCEPT ![k] = v], handle' = handle,
           tx' = [q \in Clients |-> [tx[q] EXCEPT !.ok = @ /\ k \notin tx[q].reads]],
           (k = Version /\ v \in Versions) \/ \E n \in Names : k = Content(n)
    PROVE  TreeInv'
  <1>1. DOMAIN db = DbKeys /\ DOMAIN db' = DbKeys /\ \A j \in DbKeys : j # k => db'[j] = db[j]
    BY DEF TreeInv, KeysInv
  <1>2. ASSUME NEW q \in Clients
        PROVE  /\ tx'[q].reads = tx[q].reads /\ tx'[q].writes = tx[q].writes
               /\ tx'[q].open = tx[q].open
               /\ tx'[q].ok => tx[q].ok /\ k \notin tx[q].reads
    BY <1>2 DEF IInv, TxShape
  <1>3. Tree(db')
    <2>1. PICK e : e = db'
      OBVIOUS
    <2>2. /\ \A j \in Places, a \in PathNames : e[Entry(j, a)] = db[Entry(j, a)]
          /\ \A m \in Names : e[Layer(m)] = db[Layer(m)]
          /\ \A m \in AutoNames : e[Given(m)] = db[Given(m)]
      BY <1>1, <2>1, TreeKeys, Kinds
    <2>3. Tree(db)
      BY DEF TreeInv
    <2>4. QED
      BY <2>1, <2>2, <2>3, TreeSame
  <1>4. KeysInv'
    <2>1. db'[Version] \in Versions
      BY <1>1, KeysOf, Kinds DEF TreeInv, KeysInv
    <2>2. \A q \in Clients : tx'[q].reads \subseteq DbKeys /\ DOMAIN tx'[q].writes \subseteq DbKeys
      BY <1>2 DEF TreeInv, KeysInv
    <2>3. QED
      BY <1>1, <2>1, <2>2 DEF TreeInv, KeysInv, DbKeys, Versions
  <1>5. ASSUME NEW q \in Clients, Valid(q)' PROVE Operation(db', tx'[q].reads, tx'[q].writes)
    <2>1. Valid(q) /\ \A j \in tx[q].reads : j # k /\ j \in DbKeys
      BY <1>2, <1>5 DEF Valid, TreeInv, KeysInv
    <2>2. QED
      BY <1>1, <1>2, <2>1, OthersStay
  <1>6. QED
    BY <1>3, <1>4, <1>5 DEF TreeInv

-----------------------------------------------------------------------------
(* What an operation finds *)

\* Paths are sequences of names and not empty.
LEMMA PathOf == \A path \in Paths : path \in Seq(PathNames) /\ path # <<>> /\ Len(path) \in Nat /\ Len(path) # 0
  <1> SUFFICES ASSUME NEW path \in Paths
               PROVE  path \in Seq(PathNames) /\ path # <<>> /\ Len(path) \in Nat /\ Len(path) # 0
    OBVIOUS
  <1>1. path \in Seq(PathNames) /\ path # <<>>
    BY DirectoryAssumption
  <1>2. QED
    BY <1>1, EmptySeq

\* The nodes along a path.
LEMMA WalkNodes ==
    ASSUME Tree(db), NEW path \in Seq(PathNames)
    PROVE  \A i \in 0..Len(path) : Walk(path)[i] \in Places \cup {None}
  <1> DEFINE S == {i \in Nat : i \in 0..Len(path) => Walk(path)[i] \in Places \cup {None}}
  <1>1. 0 \in S
    BY WalkLeads DEF Places
  <1>2. ASSUME NEW n \in S PROVE n + 1 \in S
    <2> SUFFICES ASSUME n + 1 \in 0..Len(path) PROVE Walk(path)[n + 1] \in Places \cup {None}
      OBVIOUS
    <2>1. PICK i \in 1..Len(path) : i = n + 1 /\ i - 1 = n
      OBVIOUS
    <2>2. Walk(path)[i - 1] \in Places \cup {None} /\ path[i] \in PathNames
      BY <2>1
    <2>3. Walk(path)[i] = After(db, Walk(path)[i - 1], path[i])
      BY WalkLeads
    <2>4. QED
      BY <2>1, <2>2, <2>3 DEF After, Tree, Entered, Places
  <1>3. S \in SUBSET Nat
    OBVIOUS
  <1> HIDE DEF S
  <1>4. \A n \in Nat : n \in S
    BY <1>1, <1>2, <1>3, SetInduction
  <1>5. QED
    BY <1>4 DEF S

\* Following a path reads the entries that it leads along.
LEMMA WalkFound ==
    ASSUME Tree(db), NEW path \in Paths, NEW R, find_reads(path) \subseteq R
    PROVE  Found(db, R, path, Walk(path))
  <1>1. path \in Seq(PathNames) /\ path # <<>>
    BY PathOf
  <1>2. Walk(path)[0] = Root
    BY <1>1, WalkLeads
  <1>3. ASSUME NEW i \in 1..Len(path)
        PROVE  /\ Walk(path)[i] \in Names \cup {None}
               /\ Walk(path)[i - 1] = None => Walk(path)[i] = None
               /\ Walk(path)[i - 1] # None => /\ Entry(Walk(path)[i - 1], path[i]) \in R
                                              /\ db[Entry(Walk(path)[i - 1], path[i])] = Walk(path)[i]
    <2>1. Walk(path)[i] = After(db, Walk(path)[i - 1], path[i]) /\ path[i] \in PathNames
      BY <1>1, WalkLeads
    <2>2. Walk(path)[i - 1] \in Places \cup {None}
      BY <1>1, WalkNodes
    <2>3. Walk(path)[i - 1] # None => Entry(Walk(path)[i - 1], path[i]) \in R
      BY DEF find_reads
    <2>4. QED
      BY <2>1, <2>2, <2>3 DEF After, Tree, Entered
  <1>4. QED
    BY <1>1, <1>2, <1>3 DEF Found

\* find of the parent of a path.
LEMMA ParentWalk ==
    ASSUME NEW path \in Paths
    PROVE  find(Parent(path)) = Walk(path)[Len(path) - 1]
  <1> DEFINE q == Parent(path)
             S == {i \in Nat : i \in 0..Len(q) => Walk(q)[i] = Walk(path)[i]}
  <1>1. path \in Seq(PathNames) /\ Len(path) \in Nat /\ Len(path) # 0
    BY PathOf
  <1>2. /\ q \in Seq(PathNames) /\ Len(q) = Len(path) - 1 /\ Len(q) \in Nat
        /\ \A i \in 1..Len(q) : q[i] = path[i]
    <2>1. Len(path) - 1 \in Nat /\ Len(path) - 1 <= Len(path)
      BY <1>1
    <2>2. PICK N : N = Len(path) - 1
      OBVIOUS
    <2>3. SubSeq(path, 1, N) \in Seq(PathNames)
      <3>1. \A i \in 1..N : path[i] \in PathNames
        BY <1>1, <2>1, <2>2
      <3>2. QED
        BY <1>1, <2>1, <2>2, <3>1, SubSeqProperties
    <2>4. Len(SubSeq(path, 1, N)) = N /\ \A i \in 1..N : SubSeq(path, 1, N)[i] = path[i]
      BY <1>1, <2>1, <2>2
    <2>5. QED
      BY <2>1, <2>2, <2>3, <2>4 DEF Parent
  <1> HIDE DEF q
  <1>3. 0 \in S
    BY <1>1, <1>2, WalkLeads
  <1>4. ASSUME NEW n \in S PROVE n + 1 \in S
    <2> SUFFICES ASSUME n + 1 \in 0..Len(q) PROVE Walk(q)[n + 1] = Walk(path)[n + 1]
      OBVIOUS
    <2>1. PICK i \in 1..Len(q) : i = n + 1 /\ i - 1 = n /\ i \in 1..Len(path)
      BY <1>1, <1>2
    <2>2. Walk(q)[i - 1] = Walk(path)[i - 1] /\ q[i] = path[i]
      BY <1>2, <2>1
    <2>3. Walk(path)[i] = After(db, Walk(path)[i - 1], path[i])
      BY <1>1, <2>1, WalkLeads
    <2>4. Walk(q)[i] = After(db, Walk(q)[i - 1], q[i])
      BY <1>2, <2>1, WalkLeads
    <2>5. QED
      BY <2>1, <2>2, <2>3, <2>4
  <1>5. S \in SUBSET Nat
    OBVIOUS
  <1> HIDE DEF S
  <1>6. Len(q) \in S
    BY <1>2, <1>3, <1>4, <1>5, SetInduction
  <1>7. Walk(q)[Len(q)] = Walk(path)[Len(q)]
    BY <1>2, <1>6 DEF S
  <1>8. QED
    BY <1>2, <1>7 DEF find, q

\* find_deepest/3 of a path that is missing.
LEMMA Deepest ==
    ASSUME NEW path \in Paths, find(path) = None
    PROVE  /\ find_deepest(path) \in Nat /\ find_deepest(path) < Len(path)
           /\ Walk(path)[find_deepest(path)] # None /\ Walk(path)[find_deepest(path) + 1] = None
  <1> DEFINE S == {i \in 0..Len(path) : Walk(path)[i] = None}
             P(i) == Walk(path)[i] # None /\ (i < Len(path) => Walk(path)[i + 1] = None)
  <1>1. path \in Seq(PathNames) /\ Len(path) \in Nat /\ Len(path) # 0
    BY PathOf
  <1>2. Walk(path)[0] = Root /\ Walk(path)[Len(path)] = None
    BY <1>1, WalkLeads DEF find
  <1>3. S \in SUBSET Nat /\ S # {} /\ 0 \notin S /\ S \subseteq 0..Len(path)
    BY <1>1, <1>2, NoneRoot
  <1>4. PICK n \in S : \A m \in S : n <= m
    <2> HIDE DEF S
    <2>1. QED
      BY <1>3, LeastOf
  <1>5. n \in 1..Len(path) /\ n - 1 \in 0..Len(path) /\ n - 1 \notin S /\ Walk(path)[n] = None
    BY <1>1, <1>3, <1>4
  <1>6. Walk(path)[n - 1] # None /\ (n - 1) + 1 = n
    BY <1>5
  <1>7. P(n - 1)
    BY <1>5, <1>6
  <1>8. \E i \in 0..Len(path) : P(i)
    BY <1>5, <1>7
  <1>9. find_deepest(path) = CHOOSE i \in 0..Len(path) : P(i)
    BY DEF find_deepest
  <1> HIDE DEF P
  <1>10. find_deepest(path) \in 0..Len(path) /\ P(find_deepest(path))
    BY <1>8, <1>9, Zenon
  <1>11. QED
    <2>1. PICK l \in 0..Len(path) : l = find_deepest(path)
      BY <1>10
    <2>2. Walk(path)[l] # None /\ (l < Len(path) => Walk(path)[l + 1] = None)
      BY <1>10, <2>1 DEF P
    <2>3. l # Len(path)
      BY <1>2, <2>2
    <2>4. l \in Nat /\ l < Len(path)
      BY <1>1, <2>1, <2>3
    <2>5. QED
      BY <2>1, <2>2, <2>4

-----------------------------------------------------------------------------
(* Every operation of the model is one on the tree *)

\* The writes of create_int/5, for names of which those in auto are automatic.
CreateWrites(path, names, auto) ==
    Over(Over(create_node(path, names), NewNodes(names)),
         Over(GivenTo(auto), initialize_directory))

\* create_node/5: the entry of every new node in its parent.
Extends(path, l, L, names, u) ==
    /\ l \in Nat /\ L \in Nat /\ l < L /\ DOMAIN names = (l + 1)..L
    /\ u[l] = Walk(path)[l] /\ \A i \in (l + 1)..L : u[i] = names[i]
    /\ \A i, j \in l..L : u[i] = u[j] => i = j

EntersAll(A, path, l, L, u) ==
    /\ DOMAIN A = {Entry(u[i - 1], path[i]) : i \in (l + 1)..L}
    /\ \A i \in (l + 1)..L : A[Entry(u[i - 1], path[i])] = u[i]

\* create_node enters all that is new on the path.
LEMMA NewEntries ==
    ASSUME NEW path, NEW l, NEW L, NEW names, NEW u, Extends(path, l, L, names, u)
    PROVE  EntersAll(create_node(path, names), path, l, L, u)
  <1> USE DEF Extends
  <1> DEFINE D == (l + 1)..L
             up(i) == IF i - 1 \in DOMAIN names THEN names[i - 1] ELSE Walk(path)[i - 1]
             pick(k) == CHOOSE i \in DOMAIN names : k = Entry(up(i), path[i])
             K == {Entry(u[i - 1], path[i]) : i \in D}
  <1>1. \A i \in D : up(i) = u[i - 1]
    <2> SUFFICES ASSUME NEW i \in D PROVE up(i) = u[i - 1]
      OBVIOUS
    <2>1. CASE i = l + 1
      <3>1. i - 1 = l /\ l \notin D
        BY <2>1
      <3>2. QED
        BY <3>1
    <2>2. CASE i # l + 1
      <3>1. i - 1 \in D
        BY <2>2
      <3>2. QED
        BY <3>1
    <2>3. QED
      BY <2>1, <2>2
  <1>2. create_node(path, names) =
            [k \in {Entry(up(i), path[i]) : i \in DOMAIN names} |-> names[pick(k)]]
    BY DEF create_node
  <1> HIDE DEF up, pick
  <1>3. {Entry(up(i), path[i]) : i \in DOMAIN names} = K
    BY <1>1
  <1>4. DOMAIN create_node(path, names) = K
    BY <1>2, <1>3
  <1>5. ASSUME NEW i \in D PROVE create_node(path, names)[Entry(u[i - 1], path[i])] = u[i]
    <2>1. PICK k : k = Entry(u[i - 1], path[i]) /\ k \in K
      OBVIOUS
    <2>2. create_node(path, names)[k] = names[pick(k)]
      <3> HIDE DEF K
      <3>1. QED
        BY <1>2, <1>3, <2>1
    <2>3. \A j \in D : k = Entry(up(j), path[j]) <=> j = i
      <3> SUFFICES ASSUME NEW j \in D PROVE k = Entry(up(j), path[j]) <=> j = i
        OBVIOUS
      <3>1. k = Entry(up(j), path[j]) => u[j - 1] = u[i - 1]
        <4>1. up(j) = u[j - 1]
          BY <1>1
        <4>2. QED
          BY <2>1, <4>1 DEF Entry
      <3>2. i - 1 \in l..L /\ j - 1 \in l..L
        OBVIOUS
      <3>3. u[j - 1] = u[i - 1] => j = i
        BY <3>2
      <3>4. QED
        BY <1>1, <2>1, <3>1, <3>3
    <2>4. pick(k) = i
      <3> DEFINE P(j) == k = Entry(up(j), path[j])
      <3>1. \A j \in D : P(j) <=> j = i
        BY <2>3
      <3> HIDE DEF P
      <3>2. (CHOOSE j \in D : P(j)) \in D /\ P(CHOOSE j \in D : P(j))
        BY <3>1, Zenon
      <3>3. (CHOOSE j \in D : P(j)) = i
        BY <3>1, <3>2
      <3>4. QED
        BY <3>3 DEF P, pick
    <2>5. QED
      BY <2>1, <2>2, <2>4
  <1>6. QED
    BY <1>4, <1>5 DEF EntersAll

\* The initial version is the only other write.
LEMMA VersionWrite ==
    /\ DOMAIN initialize_directory \subseteq {Version}
    /\ \A k \in DOMAIN initialize_directory : initialize_directory[k] = "current"
  BY DEF initialize_directory

\* What a create writes is an operation on the tree that it has read.
LEMMA CreateOperation ==
    ASSUME Tree(db), NEW path \in Paths, find(path) = None, NEW R, find_reads(path) \subseteq R,
           NEW names, DOMAIN names = (find_deepest(path) + 1)..Len(path),
           NEW auto, DOMAIN auto \subseteq DOMAIN names,
           \A i \in DOMAIN names : names[i] \in Names /\ Unused(db, R, names[i]),
           \A i, j \in DOMAIN names : names[i] = names[j] => i = j,
           \A i \in DOMAIN auto : auto[i] \in AutoNames,
           \A i \in DOMAIN names : names[i] \in AutoNames \/ i = Len(path),
           \A i \in DOMAIN names : names[i] \in AutoNames => i \in DOMAIN auto /\ auto[i] = names[i]
    PROVE  Operation(db, R, CreateWrites(path, names, auto))
  <1>1. PICK l, L, x : l = find_deepest(path) /\ L = Len(path) /\ x = Walk(path)
    OBVIOUS
  <1>2. l \in Nat /\ L \in Nat /\ l < L /\ x[l] # None /\ x[l + 1] = None /\ DOMAIN names = (l + 1)..L
    BY <1>1, Deepest, PathOf
  <1>3. Found(db, R, path, x)
    BY <1>1, WalkFound
  <1>4. PICK u : u = [i \in l..L |-> IF i = l THEN x[l] ELSE names[i]]
    OBVIOUS
  <1>5. u[l] = x[l] /\ \A i \in (l + 1)..L : u[i] = names[i]
    BY <1>2, <1>4
  <1>6. \A i \in (l + 1)..L : u[i] \in Names /\ Unused(db, R, u[i]) /\ u[i] \notin NodesOf(db)
    BY <1>2, <1>5, UnusedIsNew, StartsItself
  <1>7. u[l] \in NodesOf(db) \cup {Root}
    <2>1. PICK j \in 1..L : j = l + 1 /\ j - 1 = l
      BY <1>2
    <2>2. x[j - 1] \in NodesOf(db) \cup {Root}
      BY <1>1, <1>2, <1>3, <2>1, LastFound
    <2>3. QED
      BY <1>5, <2>1, <2>2
  <1>8. \A i, j \in l..L : u[i] = u[j] => i = j
    <2> SUFFICES ASSUME NEW i \in l..L, NEW j \in l..L, u[i] = u[j] PROVE i = j
      OBVIOUS
    <2>1. CASE i = l /\ j # l
      <3>1. j \in (l + 1)..L
        BY <1>2, <2>1
      <3>2. QED
        BY <1>6, <1>7, <2>1, <3>1, NoneRoot
    <2>2. CASE j = l /\ i # l
      <3>1. i \in (l + 1)..L
        BY <1>2, <2>2
      <3>2. QED
        BY <1>6, <1>7, <2>2, <3>1, NoneRoot
    <2>3. CASE i # l /\ j # l
      <3>1. i \in (l + 1)..L /\ j \in (l + 1)..L
        BY <1>2, <2>3
      <3>2. QED
        BY <1>2, <1>5, <3>1
    <2>4. QED
      BY <2>1, <2>2, <2>3
  <1>9. PICK A : A = create_node(path, names)
    OBVIOUS
  <1>10. /\ DOMAIN A = {Entry(u[i - 1], path[i]) : i \in (l + 1)..L}
         /\ \A i \in (l + 1)..L : A[Entry(u[i - 1], path[i])] = u[i]
    <2>1. Extends(path, l, L, names, u)
      BY <1>1, <1>2, <1>5, <1>8 DEF Extends
    <2>2. EntersAll(A, path, l, L, u)
      BY <1>9, <2>1, NewEntries, Zenon
    <2>3. QED
      BY <2>2 DEF EntersAll
  <1>11. PICK B : B = NewNodes(names)
    OBVIOUS
  <1>12. /\ DOMAIN B = {Layer(u[i]) : i \in (l + 1)..L}
         /\ \A k \in DOMAIN B : B[k] = "layer"
    BY <1>2, <1>5, <1>11 DEF NewNodes
  <1>13. PICK C : C = GivenTo(auto)
    OBVIOUS
  <1>14. /\ \A k \in DOMAIN C : C[k] = "given" /\ \E n \in AutoNames : k = Given(n)
         /\ \A i \in (l + 1)..L : u[i] \in AutoNames => Given(u[i]) \in DOMAIN C
    BY <1>2, <1>5, <1>13 DEF GivenTo
  <1>15. PICK D : D = initialize_directory
    OBVIOUS
  <1>16. \A k \in DOMAIN D : k = Version /\ D[k] = "current"
    BY <1>15, VersionWrite
  <1>17. PICK W : W = CreateWrites(path, names, auto)
    OBVIOUS
  <1>18. W = Over(Over(A, B), Over(C, D))
    BY <1>9, <1>11, <1>13, <1>15, <1>17 DEF CreateWrites
  <1>19. /\ DOMAIN W = (DOMAIN A \cup DOMAIN B) \cup (DOMAIN C \cup DOMAIN D)
         /\ \A k \in DOMAIN W : W[k] = IF k \in DOMAIN D THEN D[k]
                                       ELSE IF k \in DOMAIN C THEN C[k]
                                       ELSE IF k \in DOMAIN B THEN B[k] ELSE A[k]
    BY <1>18 DEF Over
  <1>20. ASSUME NEW i \in (l + 1)..L
         PROVE  /\ Entry(u[i - 1], path[i]) \in DOMAIN W /\ W[Entry(u[i - 1], path[i])] = u[i]
                /\ Layer(u[i]) \in DOMAIN W /\ W[Layer(u[i])] = "layer"
                /\ u[i] \in AutoNames => Given(u[i]) \in DOMAIN W
    <2>1. PICK k : k = Entry(u[i - 1], path[i])
      OBVIOUS
    <2>2. k \in DOMAIN A /\ A[k] = u[i] /\ k \notin DOMAIN B /\ k \notin DOMAIN C /\ k \notin DOMAIN D
      <3>1. k \in DOMAIN A /\ A[k] = u[i]
        BY <1>10, <2>1
      <3>2. k \notin DOMAIN B
        BY <1>12, <2>1, Kinds
      <3>3. k \notin DOMAIN C /\ k \notin DOMAIN D
        BY <1>14, <1>16, <2>1, Kinds
      <3>4. QED
        BY <3>1, <3>2, <3>3
    <2>3. PICK h : h = Layer(u[i])
      OBVIOUS
    <2>4. h \in DOMAIN B /\ B[h] = "layer" /\ h \notin DOMAIN C /\ h \notin DOMAIN D
      BY <1>12, <1>14, <1>16, <2>3, Kinds
    <2>5. QED
      BY <1>14, <1>19, <2>1, <2>2, <2>3, <2>4
  <1>21. ASSUME NEW k \in DOMAIN W
         PROVE  \/ \E i \in (l + 1)..L : k = Entry(u[i - 1], path[i]) \/ k = Layer(u[i])
                \/ \E n \in AutoNames : k = Given(n) /\ W[k] = "given"
                \/ OfVersion(W, k)
    <2>1. CASE k \in DOMAIN D
      BY <1>16, <1>19, <2>1 DEF OfVersion
    <2>2. CASE k \in DOMAIN C /\ k \notin DOMAIN D
      BY <1>14, <1>19, <2>2
    <2>3. CASE k \in DOMAIN A \/ k \in DOMAIN B
      BY <1>10, <1>12, <2>3
    <2>4. QED
      BY <1>19, <2>1, <2>2, <2>3
  <1>22. \A i, j \in (l + 1)..L : u[i] = u[j] => i = j
    BY <1>2, <1>5
  <1>23. \A i \in (l + 1)..L : u[i] \in AutoNames \/ i = L
    BY <1>1, <1>2, <1>5
  <1>24. Creates(db, R, W, path, x, l, u)
    BY <1>1, <1>2, <1>3, <1>5, <1>6, <1>20, <1>21, <1>22, <1>23 DEF Creates
  <1>25. QED
    BY <1>17, <1>24 DEF Operation

-----------------------------------------------------------------------------
(* The order of names *)

\* Names are sequences of digits.
LEMMA NamesAreSeq == \A n \in Names : n \in Seq(Nat) /\ Len(n) \in Nat /\ DOMAIN n = 1..Len(n)
  <1> SUFFICES ASSUME NEW n \in Names PROVE n \in Seq(Nat) /\ Len(n) \in Nat /\ DOMAIN n = 1..Len(n)
    OBVIOUS
  <1>1. n \in Seq(Nat)
    BY DirectoryAssumption DEF Names
  <1>2. QED
    BY <1>1

\* Two beginnings are the same if they are the same everywhere.
LEMMA PrefixPoints ==
    ASSUME NEW s \in Seq(Nat), NEW t \in Seq(Nat), NEW i \in Nat, i <= Len(s), i <= Len(t)
    PROVE  SubSeq(s, 1, i) = SubSeq(t, 1, i) <=> \A j \in 1..i : s[j] = t[j]
  <1>1. \A j \in 1..i : s[j] \in Nat /\ t[j] \in Nat
    OBVIOUS
  <1>2. /\ SubSeq(s, 1, i) \in Seq(Nat) /\ Len(SubSeq(s, 1, i)) = i
        /\ \A j \in 1..i : SubSeq(s, 1, i)[j] = s[j]
    BY <1>1, SubSeqProperties
  <1>3. /\ SubSeq(t, 1, i) \in Seq(Nat) /\ Len(SubSeq(t, 1, i)) = i
        /\ \A j \in 1..i : SubSeq(t, 1, i)[j] = t[j]
    BY <1>1, SubSeqProperties
  <1>4. PICK a \in Seq(Nat), b \in Seq(Nat) : a = SubSeq(s, 1, i) /\ b = SubSeq(t, 1, i)
    BY <1>2, <1>3
  <1>5. (\A j \in 1..i : a[j] = b[j]) => a = b
    BY <1>2, <1>3, <1>4, SeqEqual
  <1>6. QED
    BY <1>2, <1>3, <1>4, <1>5

\* A name begins with another, digit by digit.
LEMMA StartsPoints ==
    ASSUME NEW s \in Seq(Nat), NEW t \in Seq(Nat)
    PROVE  StartsWith(s, t) <=> Len(t) <= Len(s) /\ \A j \in 1..Len(t) : s[j] = t[j]
  <1>1. Len(t) \in Nat /\ SubSeq(t, 1, Len(t)) = t
    OBVIOUS
  <1>2. PICK i \in Nat : i = Len(t)
    BY <1>1
  <1>3. CASE Len(t) <= Len(s)
    <2>1. SubSeq(s, 1, i) = SubSeq(t, 1, i) <=> \A j \in 1..i : s[j] = t[j]
      BY <1>2, <1>3, PrefixPoints
    <2>2. QED
      BY <1>1, <1>2, <1>3, <2>1 DEF StartsWith
  <1>4. CASE ~(Len(t) <= Len(s))
    BY <1>4 DEF StartsWith
  <1>5. QED
    BY <1>3, <1>4

\* s comes before t because of the place i: it ends there, or has a smaller digit.
LessAt(s, t, i) ==
    /\ i \in 1..Len(t) /\ i <= Len(s) + 1
    /\ \A j \in 1..(i - 1) : s[j] = t[j]
    /\ i = Len(s) + 1 \/ s[i] < t[i]

\* The order of names, by the first digit that differs.
LEMMA LessIff ==
    ASSUME NEW s \in Seq(Nat), NEW t \in Seq(Nat)
    PROVE  Less(s, t) <=> \E i \in Nat : LessAt(s, t, i)
  <1>0. Len(s) \in Nat /\ Len(t) \in Nat /\ DOMAIN s = 1..Len(s) /\ DOMAIN t = 1..Len(t)
    OBVIOUS
  <1>1. ASSUME StartsWith(t, s), s # t PROVE \E i \in Nat : LessAt(s, t, i)
    <2>1. Len(s) <= Len(t) /\ \A j \in 1..Len(s) : t[j] = s[j]
      BY <1>1, StartsPoints
    <2>2. Len(s) # Len(t)
      BY <1>1, <2>1, SeqEqual
    <2>3. PICK i \in Nat : i = Len(s) + 1 /\ i - 1 = Len(s)
      BY <1>0
    <2>4. i \in 1..Len(t) /\ i <= Len(s) + 1
      <3>1. PICK a \in Nat, b \in Nat : a = Len(s) /\ b = Len(t)
        BY <1>0
      <3>2. a <= b /\ a # b /\ i = a + 1
        BY <2>1, <2>2, <2>3, <3>1
      <3>3. i \in 1..b /\ i <= a + 1
        BY <3>2
      <3>4. QED
        BY <3>1, <3>3
    <2>5. \A j \in 1..(i - 1) : s[j] = t[j]
      BY <2>1, <2>3
    <2>6. LessAt(s, t, i)
      BY <2>3, <2>4, <2>5 DEF LessAt
    <2>7. QED
      BY <2>6
  <1>2. ASSUME NEW i \in DOMAIN s \cap DOMAIN t, SubSeq(s, 1, i - 1) = SubSeq(t, 1, i - 1), s[i] < t[i]
        PROVE  \E j \in Nat : LessAt(s, t, j)
    <2>1. i \in Nat /\ i - 1 \in Nat /\ i - 1 <= Len(s) /\ i - 1 <= Len(t) /\ i <= Len(s) + 1
      BY <1>0
    <2>2. PICK h \in Nat : h = i - 1
      BY <2>1
    <2>3. \A j \in 1..h : s[j] = t[j]
      BY <1>2, <2>1, <2>2, PrefixPoints
    <2>4. LessAt(s, t, i)
      BY <1>0, <1>2, <2>1, <2>2, <2>3 DEF LessAt
    <2>5. QED
      BY <2>1, <2>4
  <1>3. ASSUME NEW i \in Nat, LessAt(s, t, i) PROVE Less(s, t)
    <2>1. CASE i = Len(s) + 1
      <3>1. i - 1 = Len(s) /\ Len(s) < Len(t)
        BY <1>0, <1>3, <2>1 DEF LessAt
      <3>2. \A j \in 1..Len(s) : t[j] = s[j]
        BY <1>3, <3>1 DEF LessAt
      <3>3. StartsWith(t, s) /\ s # t
        <4>1. Len(s) <= Len(t) /\ Len(s) # Len(t)
          <5>1. PICK a \in Nat, b \in Nat : a = Len(s) /\ b = Len(t) /\ a < b
            BY <1>0, <3>1
          <5>2. a <= b /\ a # b
            BY <5>1
          <5>3. QED
            BY <5>1, <5>2
        <4>2. StartsWith(t, s)
          BY <3>2, <4>1, StartsPoints
        <4>3. QED
          BY <4>1, <4>2
      <3>4. QED
        BY <3>3 DEF Less
    <2>2. CASE i # Len(s) + 1
      <3>1. i \in DOMAIN s \cap DOMAIN t /\ s[i] < t[i]
        BY <1>0, <1>3, <2>2 DEF LessAt
      <3>2. i - 1 \in Nat /\ i - 1 <= Len(s) /\ i - 1 <= Len(t)
        BY <1>0, <3>1
      <3>3. PICK h \in Nat : h = i - 1
        BY <3>2
      <3>4. \A j \in 1..h : s[j] = t[j]
        BY <1>3, <3>3 DEF LessAt
      <3>5. SubSeq(s, 1, h) = SubSeq(t, 1, h)
        BY <3>2, <3>3, <3>4, PrefixPoints
      <3>6. QED
        BY <3>1, <3>3, <3>5 DEF Less
    <2>3. QED
      BY <2>1, <2>2
  <1>4. Less(s, t) => \E i \in Nat : LessAt(s, t, i)
    BY <1>1, <1>2 DEF Less
  <1>5. QED
    BY <1>3, <1>4

\* Of two different names one is before the other.
LEMMA LessTotal ==
    ASSUME NEW s \in Seq(Nat), NEW t \in Seq(Nat), s # t
    PROVE  Less(s, t) \/ Less(t, s)
  <1>0. Len(s) \in Nat /\ Len(t) \in Nat
    OBVIOUS
  <1> DEFINE D == {i \in Nat : i \in 1..Len(s) /\ i \in 1..Len(t) /\ s[i] # t[i]}
  <1>1. CASE D = {}
    <2>1. \A i \in 1..Len(s) : i \in 1..Len(t) => s[i] = t[i]
      BY <1>1
    <2>2. CASE Len(s) <= Len(t)
      <3>1. StartsWith(t, s)
        BY <1>0, <2>1, <2>2, StartsPoints
      <3>2. QED
        BY <3>1 DEF Less
    <2>3. CASE Len(t) <= Len(s)
      <3>1. StartsWith(s, t)
        BY <1>0, <2>1, <2>3, StartsPoints
      <3>2. QED
        BY <3>1 DEF Less
    <2>4. QED
      BY <1>0, <2>2, <2>3
  <1>2. CASE D # {}
    <2>1. D \in SUBSET Nat
      OBVIOUS
    <2>2. PICK i \in D : \A m \in D : i <= m
      <3> HIDE DEF D
      <3>1. QED
        BY <1>2, <2>1, LeastOf
    <2>3. i \in Nat /\ i \in 1..Len(s) /\ i \in 1..Len(t) /\ s[i] # t[i] /\ s[i] \in Nat /\ t[i] \in Nat
      OBVIOUS
    <2>4. \A j \in 1..(i - 1) : s[j] = t[j]
      <3> SUFFICES ASSUME NEW j \in 1..(i - 1), s[j] # t[j] PROVE FALSE
        OBVIOUS
      <3>1. j \in Nat /\ j \in 1..Len(s) /\ j \in 1..Len(t) /\ j < i
        BY <1>0, <2>3
      <3>2. j \in D
        BY <3>1
      <3>3. QED
        BY <2>2, <2>3, <3>1, <3>2
    <2>5. LessAt(s, t, i) \/ LessAt(t, s, i)
      BY <1>0, <2>3, <2>4 DEF LessAt
    <2>6. QED
      BY <2>3, <2>5, LessIff
  <1>3. QED
    BY <1>1, <1>2

\* The order of names is transitive.
LEMMA LessTransitive ==
    ASSUME NEW s \in Seq(Nat), NEW t \in Seq(Nat), NEW w \in Seq(Nat), Less(s, t), Less(t, w)
    PROVE  Less(s, w)
  <1>0. /\ Len(s) \in Nat /\ Len(t) \in Nat /\ Len(w) \in Nat
        /\ \A j \in 1..Len(s) : s[j] \in Nat
        /\ \A j \in 1..Len(t) : t[j] \in Nat
        /\ \A j \in 1..Len(w) : w[j] \in Nat
    OBVIOUS
  <1>1. PICK i \in Nat : LessAt(s, t, i)
    BY LessIff
  <1>2. PICK j \in Nat : LessAt(t, w, j)
    BY LessIff
  <1>3. CASE i < j
    <2>1. t[i] = w[i] /\ i \in 1..Len(w) /\ \A h \in 1..(i - 1) : s[h] = w[h]
      BY <1>0, <1>1, <1>2, <1>3 DEF LessAt
    <2>2. LessAt(s, w, i)
      BY <1>0, <1>1, <2>1 DEF LessAt
    <2>3. QED
      BY <2>2, LessIff
  <1>4. CASE i = j
    <2>1. t[i] < w[i] /\ i \in 1..Len(w) /\ \A h \in 1..(i - 1) : s[h] = w[h]
      BY <1>0, <1>1, <1>2, <1>4 DEF LessAt
    <2>2. LessAt(s, w, i)
      BY <1>0, <1>1, <2>1 DEF LessAt
    <2>3. QED
      BY <2>2, LessIff
  <1>5. CASE j < i
    <2>1. j \in 1..Len(s) /\ j \in 1..Len(t) /\ j \in 1..Len(w) /\ s[j] = t[j] /\ t[j] < w[j]
      <3>1. /\ i \in 1..Len(t) /\ i <= Len(s) + 1 /\ j \in 1..Len(w)
            /\ \A h \in 1..(i - 1) : s[h] = t[h]
            /\ j = Len(t) + 1 \/ t[j] < w[j]
        BY <1>1, <1>2 DEF LessAt
      <3>2. j \in 1..(i - 1) /\ j # Len(t) + 1 /\ j \in 1..Len(s) /\ j \in 1..Len(t)
        BY <1>0, <1>5, <3>1
      <3>3. QED
        BY <3>1, <3>2
    <2>2. \A h \in 1..(j - 1) : s[h] = w[h]
      BY <1>0, <1>1, <1>2, <1>5 DEF LessAt
    <2>3. LessAt(s, w, j)
      BY <1>0, <2>1, <2>2 DEF LessAt
    <2>4. QED
      BY <2>3, LessIff
  <1>6. QED
    BY <1>3, <1>4, <1>5

\* No name is before itself.
LEMMA LessIrreflexive == ASSUME NEW s \in Seq(Nat) PROVE ~Less(s, s)
  <1> SUFFICES ASSUME NEW i \in Nat, LessAt(s, s, i) PROVE FALSE
    BY LessIff
  <1>1. Len(s) \in Nat /\ \A j \in 1..Len(s) : s[j] \in Nat
    OBVIOUS
  <1>2. QED
    BY <1>1 DEF LessAt

\* What lies between a name and one that continues it continues it too.
LEMMA Between ==
    ASSUME NEW k \in Seq(Nat), NEW m \in Seq(Nat), NEW n \in Seq(Nat),
           Less(k, m), Less(m, n), StartsWith(n, k)
    PROVE  StartsWith(m, k) /\ m # k
  <1>0. /\ Len(k) \in Nat /\ Len(m) \in Nat /\ Len(n) \in Nat
        /\ \A j \in 1..Len(k) : k[j] \in Nat
        /\ \A j \in 1..Len(m) : m[j] \in Nat
        /\ \A j \in 1..Len(n) : n[j] \in Nat
    OBVIOUS
  <1>1. PICK i \in Nat : LessAt(k, m, i)
    BY LessIff
  <1>2. PICK j \in Nat : LessAt(m, n, j)
    BY LessIff
  <1>3. Len(k) <= Len(n) /\ \A h \in 1..Len(k) : n[h] = k[h]
    BY StartsPoints
  <1>4. CASE i = Len(k) + 1
    <2>1. i - 1 = Len(k) /\ Len(k) < Len(m)
      BY <1>0, <1>1, <1>4 DEF LessAt
    <2>2. \A h \in 1..Len(k) : m[h] = k[h]
      BY <1>1, <2>1 DEF LessAt
    <2>3. QED
      BY <1>0, <2>1, <2>2, StartsPoints
  <1>5. CASE i # Len(k) + 1
    <2>1. i \in 1..Len(k) /\ i \in 1..Len(m) /\ k[i] < m[i] /\ n[i] = k[i]
      BY <1>0, <1>1, <1>3, <1>5 DEF LessAt
    <2>2. CASE j < i
      <3>1. j \in 1..Len(k) /\ j \in 1..Len(m) /\ k[j] = m[j] /\ n[j] = k[j] /\ m[j] < n[j]
        <4>1. /\ j \in 1..Len(n) /\ \A h \in 1..(i - 1) : k[h] = m[h]
              /\ j = Len(m) + 1 \/ m[j] < n[j]
          BY <1>1, <1>2 DEF LessAt
        <4>2. j \in 1..(i - 1) /\ j # Len(m) + 1 /\ j \in 1..Len(k) /\ j \in 1..Len(m)
          <5>1. PICK a \in Nat, b \in Nat : a = Len(k) /\ b = Len(m) /\ i \in 1..a /\ i \in 1..b
            BY <1>0, <2>1
          <5>2. j # 0
            BY <4>1
          <5>3. j \in 1..(i - 1) /\ j # b + 1 /\ j \in 1..a /\ j \in 1..b
            BY <2>2, <5>1, <5>2
          <5>4. QED
            BY <5>1, <5>3
        <4>3. QED
          BY <1>3, <4>1, <4>2
      <3>2. QED
        BY <1>0, <3>1
    <2>3. CASE j = i
      <3>1. m[i] < n[i] /\ i \in 1..Len(n)
        BY <1>0, <1>2, <2>1, <2>3 DEF LessAt
      <3>2. QED
        BY <1>0, <2>1, <3>1
    <2>4. CASE i < j
      <3>1. m[i] = n[i]
        BY <1>0, <1>2, <2>1, <2>4 DEF LessAt
      <3>2. QED
        BY <1>0, <2>1, <3>1
    <2>5. QED
      BY <2>2, <2>3, <2>4
  <1>6. QED
    BY <1>4, <1>5

\* A finite set of names has a last one.
LEMMA LastName ==
    ASSUME NEW S, S \subseteq Seq(Nat), IsFiniteSet(S), S # {}
    PROVE  \E m \in S : \A k \in S : k = m \/ Less(k, m)
  <1> DEFINE after(x) == {y \in S : Less(x, y)}
             C == {Cardinality(after(x)) : x \in S}
  <1>1. \A x \in S : IsFiniteSet(after(x)) /\ Cardinality(after(x)) \in Nat
    <2> SUFFICES ASSUME NEW x \in S PROVE IsFiniteSet(after(x)) /\ Cardinality(after(x)) \in Nat
      OBVIOUS
    <2>1. IsFiniteSet(after(x))
      BY FS_Subset
    <2>2. QED
      BY <2>1, FS_CardinalityType
  <1>2. C \in SUBSET Nat /\ C # {}
    BY <1>1
  <1>3. PICK c \in C : \A a \in C : c <= a
    <2> HIDE DEF C
    <2>1. QED
      BY <1>2, LeastOf
  <1>4. PICK m \in S : c = Cardinality(after(m))
    OBVIOUS
  <1>5. ASSUME NEW k \in S, Less(m, k) PROVE FALSE
    <2>1. after(k) \subseteq after(m)
      BY <1>5, LessTransitive
    <2>2. k \in after(m) /\ k \notin after(k)
      BY <1>5, LessIrreflexive
    <2>3. IsFiniteSet(after(m)) /\ Cardinality(after(m)) \in Nat /\ Cardinality(after(k)) \in Nat
      BY <1>1
    <2>4. Cardinality(after(k)) \in C
      OBVIOUS
    <2>5. PICK A, B : A = after(k) /\ B = after(m)
      OBVIOUS
    <2>6. A \in SUBSET B /\ A # B /\ IsFiniteSet(B)
      BY <2>1, <2>2, <2>3, <2>5
    <2>7. Cardinality(A) < Cardinality(B)
      BY <2>6, FS_Subset, FS_CardinalityType
    <2>8. Cardinality(B) <= Cardinality(A)
      BY <1>3, <1>4, <2>4, <2>5
    <2>9. QED
      BY <2>3, <2>5, <2>7, <2>8
  <1>6. QED
    BY <1>5, LessTotal

-----------------------------------------------------------------------------
(* The operations begin *)

\* is_prefix_free/3 of a manual name has read enough: a directory whose name the
\* new one would continue is the last one before it, or is followed by a node
\* that continues it too, which there is not.
LEMMA PrefixRead ==
    ASSUME NEW n \in Names, is_prefix_free(n), NEW R, is_prefix_free_reads(n) \subseteq R
    PROVE  Unclaimed(db, R, n)
  <1>1. \A m \in LastBelow(n) \cup {k \in Names : StartsWith(k, n)} : Layer(m) \in R
    BY DEF is_prefix_free_reads
  <1>2. \A m \in Names : db[Layer(m)] # None <=> m \in Nodes
    BY DEF Nodes
  <1>3. ASSUME NEW k \in Names, StartsWith(k, n)
        PROVE  Layer(k) \in R /\ db[Layer(k)] = None
    BY <1>1, <1>2, <1>3 DEF is_prefix_free
  <1>4. ASSUME NEW k \in Names, StartsWith(n, k), k # n
        PROVE  \/ Layer(k) \in R /\ db[Layer(k)] = None
               \/ \E m \in Names : /\ Layer(m) \in R /\ db[Layer(m)] # None
                                   /\ StartsWith(m, k) /\ m # k
    <2>1. Less(k, n)
      BY <1>4 DEF Less
    <2>2. CASE k \in LastBelow(n)
      BY <1>1, <1>2, <1>4, <2>2 DEF is_prefix_free
    <2>3. CASE k \notin LastBelow(n)
      <3> DEFINE S == {m \in Nodes : Less(m, n)}
      <3>1. PICK z \in S : z # k /\ ~Less(z, k)
        BY <2>1, <2>3 DEF LastBelow
      <3>2. S \subseteq Names /\ S \subseteq Seq(Nat) /\ IsFiniteSet(S) /\ S # {}
        <4>1. S \subseteq Names /\ IsFiniteSet(Names)
          BY DirectoryAssumption DEF Nodes, Names
        <4>2. IsFiniteSet(S)
          BY <4>1, FS_Subset
        <4>3. QED
          BY <3>1, <4>1, <4>2, NamesAreSeq
      <3>3. PICK m \in S : \A h \in S : h = m \/ Less(h, m)
        <4> HIDE DEF S
        <4>1. QED
          BY <3>2, LastName
      <3>4. m \in Names /\ m \in Nodes /\ Less(m, n)
        BY <3>2
      <3>5. m \in LastBelow(n)
        BY <3>3, <3>4 DEF LastBelow
      <3>6. k \in Seq(Nat) /\ m \in Seq(Nat) /\ n \in Seq(Nat) /\ z \in Seq(Nat)
        BY <3>2, <3>4, NamesAreSeq
      <3>7. Less(k, z) /\ (z = m \/ Less(z, m))
        BY <3>1, <3>3, <3>6, LessTotal
      <3>8. Less(k, m)
        BY <3>6, <3>7, LessTransitive
      <3>9. StartsWith(m, k) /\ m # k
        BY <1>4, <3>4, <3>6, <3>8, Between
      <3>10. QED
        BY <1>1, <1>2, <3>4, <3>5, <3>9
    <2>4. QED
      BY <2>2, <2>3
  <1>5. QED
    BY <1>3, <1>4 DEF Unclaimed

\* The keys that an operation reads.
LEMMA ReadKeys ==
    /\ Tree(db) => \A path \in Paths : find_reads(path) \subseteq DbKeys
    /\ \A n : is_prefix_free_reads(n) \subseteq DbKeys
    /\ \A names : (\A i \in DOMAIN names : names[i] \in AutoNames) => AllocatedReads(names) \subseteq DbKeys
  <1>1. ASSUME Tree(db), NEW path \in Paths PROVE find_reads(path) \subseteq DbKeys
    <2>1. PICK x : x = Walk(path)
      OBVIOUS
    <2>2. PICK R : R = find_reads(path)
      OBVIOUS
    <2>3. Found(db, R, path, x)
      BY <1>1, <2>1, <2>2, WalkFound
    <2>4. \A i \in 1..Len(path) : x[i - 1] # None => Entry(x[i - 1], path[i]) \in DbKeys
      BY <1>1, <2>3, LastFound, TreeKeys
    <2>5. \A i \in 1..Len(path) : x[i] # None => Layer(x[i]) \in DbKeys
      BY <2>3, TreeKeys DEF Found
    <2>6. QED
      BY <2>1, <2>4, <2>5 DEF find_reads
  <1>2. ASSUME NEW n PROVE is_prefix_free_reads(n) \subseteq DbKeys
    <2>1. LastBelow(n) \cup {k \in Names : StartsWith(k, n)} \subseteq Names
      BY DEF LastBelow
    <2>2. \A m \in Names : Entries(m) \cup {Layer(m)} \subseteq DbKeys
      BY DEF DbKeys, AllEntries
    <2>3. QED
      BY <2>1, <2>2 DEF is_prefix_free_reads
  <1>3. ASSUME NEW names, \A i \in DOMAIN names : names[i] \in AutoNames
        PROVE  AllocatedReads(names) \subseteq DbKeys
    <2>1. \A i \in DOMAIN names : Given(names[i]) \in DbKeys
      BY <1>3, KeysOf
    <2>2. \A m \in Names : Content(m) \in DbKeys
      BY KeysOf
    <2>3. QED
      BY <2>1, <2>2 DEF AllocatedReads
  <1>4. QED
    BY <1>1, <1>2, <1>3

\* create/3 with an automatic name.
LEMMA CreateTree ==
    ASSUME IInv, TreeInv, NEW p \in Clients, NEW path \in Paths, create(p, path)
    PROVE  TreeInv'
  <1>1. PICK names \in [(find_deepest(path) + 1)..Len(path) -> AutoNames] :
            Allocated(names) /\ create_int(p, path, names, names, {})
    BY DEF create
  <1>2. PICK R, W : /\ R = find_reads(path) \cup AllocatedReads(names) \cup {}
                    /\ W = CreateWrites(path, names, names)
    OBVIOUS
  <1>3. Begin(p, R, W) /\ find(path) = None /\ Tree(db)
    BY <1>1, <1>2 DEF create_int, CreateWrites, create, TreeInv
  <1>4. R \subseteq DbKeys
    BY <1>1, <1>2, <1>3, ReadKeys
  <1>5. \A i \in DOMAIN names : /\ names[i] \in AutoNames /\ names[i] \in Names
                                /\ Given(names[i]) \in R /\ db[Given(names[i])] = None
    BY <1>1, <1>2 DEF Allocated, AllocatedReads, Names
  <1>6. \A i \in DOMAIN names : names[i] \in Names /\ Unused(db, R, names[i])
    BY <1>5 DEF Unused
  <1>7. \A i, j \in DOMAIN names : names[i] = names[j] => i = j
    BY <1>1 DEF Allocated
  <1>8. DOMAIN names = (find_deepest(path) + 1)..Len(path) /\ find_reads(path) \subseteq R
    BY <1>1, <1>2
  <1>9. Operation(db, R, W)
    BY <1>2, <1>3, <1>5, <1>6, <1>7, <1>8, CreateOperation
  <1>10. QED
    BY <1>3, <1>4, <1>9, BeginTree

\* create/3 with a name of the caller.
LEMMA CreateManualTree ==
    ASSUME IInv, TreeInv, NamesDiffer, NEW p \in Clients, NEW path \in Paths,
           NEW name \in ManualNames, create_manual(p, path, name)
    PROVE  TreeInv'
  <1>1. PICK auto \in [(find_deepest(path) + 1)..(Len(path) - 1) -> AutoNames] :
            /\ Allocated(auto)
            /\ create_int(p, path, Over(auto, [i \in {Len(path)} |-> name]), auto,
                          is_prefix_free_reads(name))
    BY DEF create_manual
  <1>2. PICK names, R, W :
            /\ names = Over(auto, [i \in {Len(path)} |-> name])
            /\ R = find_reads(path) \cup AllocatedReads(auto) \cup is_prefix_free_reads(name)
            /\ W = CreateWrites(path, names, auto)
    OBVIOUS
  <1>3. Begin(p, R, W) /\ find(path) = None /\ Tree(db) /\ is_prefix_free(name)
    BY <1>1, <1>2 DEF create_int, CreateWrites, create_manual, TreeInv
  <1>4. R \subseteq DbKeys
    BY <1>1, <1>2, <1>3, ReadKeys
  <1>5. PICK l \in Nat, L \in Nat : l = find_deepest(path) /\ L = Len(path) /\ l < L
    BY <1>3, Deepest, PathOf
  <1>6. DOMAIN auto = (l + 1)..(L - 1) /\ \A i \in DOMAIN auto : auto[i] \in AutoNames
    BY <1>1, <1>5
  <1>7. /\ DOMAIN names = DOMAIN auto \cup {L} /\ names[L] = name
        /\ \A i \in DOMAIN auto : i # L => names[i] = auto[i]
    BY <1>2, <1>5 DEF Over
  <1>8. /\ DOMAIN names = (l + 1)..L /\ L \notin DOMAIN auto
        /\ \A i \in (l + 1)..L : i = L \/ i \in DOMAIN auto
    BY <1>5, <1>6, <1>7
  <1>9. name \in Names /\ name \notin AutoNames /\ \A i \in DOMAIN auto : auto[i] # name
    <2>1. name \in Names /\ StartsWith(name, name)
      BY StartsItself DEF Names
    <2>2. name \notin AutoNames
      BY DEF NamesDiffer
    <2>3. QED
      BY <1>6, <2>1, <2>2
  <1>10. Unused(db, R, name)
    <2>1. Unclaimed(db, R, name)
      BY <1>2, <1>3, <1>9, PrefixRead
    <2>2. QED
      BY <2>1 DEF Unused
  <1>11. \A i \in DOMAIN auto : /\ auto[i] \in AutoNames /\ auto[i] \in Names
                                /\ Given(auto[i]) \in R /\ db[Given(auto[i])] = None
    BY <1>1, <1>2, <1>6 DEF Allocated, AllocatedReads, Names
  <1>12. \A i \in DOMAIN auto : Unused(db, R, auto[i])
    BY <1>11 DEF Unused
  <1>13. \A i \in DOMAIN names : names[i] \in Names /\ Unused(db, R, names[i])
    BY <1>7, <1>8, <1>9, <1>10, <1>11, <1>12
  <1>14. \A i, j \in DOMAIN auto : auto[i] = auto[j] => i = j
    BY <1>1 DEF Allocated
  <1>15. \A i, j \in DOMAIN names : names[i] = names[j] => i = j
    BY <1>7, <1>8, <1>9, <1>14
  <1>16. \A i \in DOMAIN names : names[i] \in AutoNames => i \in DOMAIN auto /\ auto[i] = names[i]
    BY <1>7, <1>8, <1>9
  <1>17. /\ DOMAIN names = (find_deepest(path) + 1)..Len(path) /\ find_reads(path) \subseteq R
         /\ DOMAIN auto \subseteq DOMAIN names
         /\ \A i \in DOMAIN names : names[i] \in AutoNames \/ i = Len(path)
    BY <1>2, <1>5, <1>6, <1>7, <1>8
  <1>18. Operation(db, R, W)
    BY <1>2, <1>3, <1>6, <1>13, <1>15, <1>16, <1>17, CreateOperation
  <1>19. QED
    BY <1>3, <1>4, <1>18, BeginTree

\* move/4.
LEMMA MoveTree ==
    ASSUME IInv, TreeInv, NEW p \in Clients, NEW old \in Paths, NEW new \in Paths, move(p, old, new)
    PROVE  TreeInv'
  <1>1. PICK R, x, y, M, N :
            /\ R = find_reads(old) \cup find_reads(new)
            /\ x = Walk(old) /\ y = Walk(new) /\ M = Len(old) /\ N = Len(new)
    OBVIOUS
  <1>2. /\ find(old) = x[M] /\ find(new) = y[N]
        /\ find(Parent(old)) = x[M - 1] /\ find(Parent(new)) = y[N - 1]
    BY <1>1, ParentWalk DEF find
  <1>3. PICK A, B, D, from, to :
            /\ from = Entry(x[M - 1], old[M]) /\ to = Entry(y[N - 1], new[N])
            /\ A = [k \in {to} |-> x[M]] /\ B = Cleared({from}) /\ D = initialize_directory
    OBVIOUS
  <1>4. PICK W : W = Over(Over(A, B), D)
    OBVIOUS
  <1>5. /\ Begin(p, R, W) /\ Tree(db) /\ check_not_subpath(old, new)
        /\ x[M] # None /\ y[N] = None /\ y[N - 1] # None
    BY <1>1, <1>2, <1>3, <1>4 DEF move, TreeInv
  <1>6. R \subseteq DbKeys
    BY <1>1, <1>5, ReadKeys
  <1>7. Found(db, R, old, x) /\ Found(db, R, new, y)
    BY <1>1, <1>5, WalkFound
  <1>8. M \in 1..Len(old) /\ N \in 1..Len(new)
    BY <1>1, PathOf
  <1>9. db[from] = x[M] /\ db[to] = None
    <2>1. x[M - 1] # None
      BY <1>5, <1>7, <1>8 DEF Found
    <2>2. db[Entry(x[M - 1], old[M])] = x[M]
      BY <1>7, <1>8, <2>1 DEF Found
    <2>3. db[Entry(y[N - 1], new[N])] = y[N]
      BY <1>5, <1>7, <1>8 DEF Found
    <2>4. QED
      BY <1>3, <1>5, <2>2, <2>3
  <1>10. from # to /\ from # Version /\ to # Version
    BY <1>3, <1>5, <1>9, Kinds
  <1>11. /\ DOMAIN A = {to} /\ A[to] = x[M] /\ DOMAIN B = {from} /\ B[from] = None
         /\ \A k \in DOMAIN D : k = Version /\ D[k] = "current"
    BY <1>3, VersionWrite DEF Cleared
  <1>12. /\ DOMAIN W = (DOMAIN A \cup DOMAIN B) \cup DOMAIN D
         /\ \A k \in DOMAIN W : W[k] = IF k \in DOMAIN D THEN D[k]
                                       ELSE IF k \in DOMAIN B THEN B[k] ELSE A[k]
    BY <1>4 DEF Over
  <1>13. /\ from \in DOMAIN W /\ W[from] = None /\ to \in DOMAIN W /\ W[to] = x[M]
         /\ \A k \in DOMAIN W : k = from \/ k = to \/ OfVersion(W, k)
    BY <1>10, <1>11, <1>12 DEF OfVersion
  <1>14. Moves(db, R, W, old, x, new, y)
    BY <1>1, <1>3, <1>5, <1>7, <1>13 DEF Moves
  <1>15. Operation(db, R, W)
    BY <1>14 DEF Operation
  <1>16. QED
    BY <1>5, <1>6, <1>15, BeginTree

\* remove/3.
LEMMA RemoveTree ==
    ASSUME IInv, TreeInv, NEW p \in Clients, NEW path \in Paths, remove(p, path)
    PROVE  TreeInv'
  <1>1. PICK x, M, n : x = Walk(path) /\ M = Len(path) /\ n = x[M]
    OBVIOUS
  <1>2. find(path) = n /\ find(Parent(path)) = x[M - 1]
    BY <1>1, ParentWalk DEF find
  <1>3. PICK S, R : S = Subtree(n) /\ R = find_reads(path) \cup list_reads(n)
    OBVIOUS
  <1>4. PICK A, B, D, e :
            /\ e = Entry(x[M - 1], path[M])
            /\ A = remove_recursive(n) /\ B = Cleared({e}) /\ D = initialize_directory
    OBVIOUS
  <1>5. PICK W : W = Over(Over(A, B), D)
    OBVIOUS
  <1>6. Begin(p, R, W) /\ Tree(db) /\ n # None
    BY <1>1, <1>2, <1>3, <1>4, <1>5 DEF remove, TreeInv
  <1>7. Found(db, R, path, x)
    BY <1>1, <1>3, <1>6, WalkFound
  <1>8. M \in 1..Len(path)
    BY <1>1, PathOf
  <1>9. x[M - 1] # None
    BY <1>1, <1>6, <1>7, <1>8 DEF Found
  <1>10. n \in Names /\ n \in NodesOf(db)
    <2>1. path[M] \in PathNames /\ x[M - 1] \in Places /\ db[Entry(x[M - 1], path[M])] = n /\ n \in Names
      BY <1>1, <1>6, <1>7, <1>8, <1>9, LastFound
    <2>2. QED
      BY <1>6, <2>1 DEF Tree, Kept
  <1>11. /\ n \in S /\ S \subseteq Names /\ Closed(db, S)
         /\ \A T : n \in T /\ Closed(db, T) => S \subseteq T
    <2>1. n \in Names \cup {Root}
      BY <1>10
    <2>2. /\ n \in Subtree(n) /\ Subtree(n) \subseteq Names \cup {n} /\ Closed(db, Subtree(n))
          /\ \A T : n \in T /\ Closed(db, T) => Subtree(n) \subseteq T
      BY <2>1, SubtreeLeast
    <2>3. QED
      BY <1>3, <1>10, <2>2
  <1>12. \A m \in S : db[Layer(m)] # None
    <2>1. Closed(db, NodesOf(db))
      <3>1. NodesOf(db) \subseteq Places
        BY DEF NodesOf, Places
      <3>2. QED
        BY <1>6, <3>1, NoneRoot DEF Closed, Tree, Kept
    <2>2. S \subseteq NodesOf(db)
      BY <1>10, <1>11, <2>1
    <2>3. QED
      BY <2>2 DEF NodesOf
  <1>13. \A m \in S : Layer(m) \in R /\ \A a \in PathNames : Entry(m, a) \in R
    BY <1>3 DEF list_reads, Entries
  <1>14. ASSUME NEW m \in S \ {n}
         PROVE  \E k \in S, a \in PathNames : db[Entry(k, a)] = m
    <2> SUFFICES ASSUME \A k \in S, a \in PathNames : db[Entry(k, a)] # m PROVE FALSE
      OBVIOUS
    <2>1. PICK T : T = S \ {m}
      OBVIOUS
    <2>2. n \in T /\ Closed(db, T)
      BY <1>11, <2>1 DEF Closed
    <2>3. S \subseteq T
      BY <1>11, <2>2
    <2>4. QED
      BY <2>1, <2>3
  <1>15. PICK K : K = UNION {Entries(m) \cup {Layer(m)}
                               \cup {Content(k) : k \in {j \in Names : StartsWith(j, m)}} : m \in S}
    OBVIOUS
  <1>16. A = Cleared(K)
    BY <1>3, <1>4, <1>15 DEF remove_recursive
  <1>17. /\ \A m \in S : Layer(m) \in K /\ \A a \in PathNames : Entry(m, a) \in K
         /\ \A k \in K : \/ \E m \in S : k = Layer(m) \/ \E a \in PathNames : k = Entry(m, a)
                         \/ \E m \in S, j \in Names : StartsWith(j, m) /\ k = Content(j)
    BY <1>15 DEF Entries
  <1>18. /\ DOMAIN A = K /\ \A k \in K : A[k] = None
         /\ DOMAIN B = {e} /\ B[e] = None
         /\ \A k \in DOMAIN D : k = Version /\ D[k] = "current"
    BY <1>4, <1>16, VersionWrite DEF Cleared
  <1>19. /\ DOMAIN W = (DOMAIN A \cup DOMAIN B) \cup DOMAIN D
         /\ \A k \in DOMAIN W : W[k] = IF k \in DOMAIN D THEN D[k]
                                       ELSE IF k \in DOMAIN B THEN B[k] ELSE A[k]
    BY <1>5 DEF Over
  <1>20. /\ e \in DOMAIN W
         /\ \A m \in S : Layer(m) \in DOMAIN W /\ \A a \in PathNames : Entry(m, a) \in DOMAIN W
    BY <1>17, <1>18, <1>19
  <1>21. ASSUME NEW k \in DOMAIN W
         PROVE  \/ OfVersion(W, k)
                \/ /\ W[k] = None
                   /\ \/ k = e
                      \/ \E m \in S : k = Layer(m) \/ \E a \in PathNames : k = Entry(m, a)
                      \/ \E m \in S, j \in Names : StartsWith(j, m) /\ k = Content(j)
    <2>1. CASE k \in DOMAIN D
      BY <1>18, <1>19, <2>1 DEF OfVersion
    <2>2. CASE k \notin DOMAIN D
      <3>1. W[k] = None /\ (k = e \/ k \in K)
        BY <1>18, <1>19, <2>2
      <3>2. QED
        BY <1>17, <3>1
    <2>3. QED
      BY <2>1, <2>2
  <1>22. Removes(db, R, W, path, x, S)
    BY <1>1, <1>4, <1>6, <1>7, <1>11, <1>12, <1>13, <1>14, <1>20, <1>21 DEF Removes
  <1>23. Operation(db, R, W)
    BY <1>22 DEF Operation
  <1>24. R \subseteq DbKeys
    <2>1. list_reads(n) \subseteq DbKeys
      BY <1>3, <1>11 DEF list_reads, DbKeys, AllEntries
    <2>2. QED
      BY <1>3, <1>6, <2>1, ReadKeys
  <1>25. QED
    BY <1>6, <1>23, <1>24, BeginTree

\* Every action keeps the tree and the operations on it.
LEMMA TreeNext == ASSUME NamesDiffer PROVE IInv /\ TreeInv /\ [Next]_vars => TreeInv'
  <1> SUFFICES ASSUME IInv, TreeInv, [Next]_vars PROVE TreeInv'
    OBVIOUS
  <1>1. CASE upgrade
    <2>1. PICK v \in {"newer minor", "newer major"} : db' = [db EXCEPT ![Version] = v]
      BY <1>1 DEF upgrade
    <2>2. v \in Versions
      BY DEF Versions
    <2>3. QED
      BY <1>1, <2>1, <2>2, SetTree DEF upgrade
  <1>2. ASSUME NEW n \in AutoNames, set_outside(n) PROVE TreeInv'
    <2>1. n \in Names
      BY DEF Names
    <2>2. QED
      BY <1>2, <2>1, SetTree DEF set_outside
  <1>3. ASSUME NEW p \in Clients, commit(p) PROVE TreeInv'
    BY <1>3, CommitTree
  <1>4. ASSUME NEW p \in Clients, conflict(p) PROVE TreeInv'
    <2>1. NoTx.reads = {} /\ DOMAIN NoTx.writes = {} /\ NoTx.open = FALSE
      BY DEF NoTx
    <2>2. /\ tx'[p] = NoTx /\ db' = db /\ handle' = handle
          /\ \A q \in Clients : q # p => tx'[q] = tx[q]
      BY <1>4 DEF conflict, IInv, TxShape
    <2>3. KeysInv'
      BY <2>1, <2>2 DEF TreeInv, KeysInv, DbKeys, Versions
    <2>4. QED
      BY <2>1, <2>2, <2>3 DEF TreeInv, Valid
  <1>5. ASSUME NEW p \in Clients, set(p) PROVE TreeInv'
    <2>1. PICK n : n = handle[p]
      OBVIOUS
    <2>2. n \in Names
      BY <1>5, <2>1 DEF set, TreeInv, KeysInv
    <2>3. QED
      BY <1>5, <2>1, <2>2, SetTree DEF set
  <1>6. ASSUME NEW p \in Clients, NEW path \in Paths, open(p, path) PROVE TreeInv'
    <2>1. find(path) \in Names
      <3>1. Found(db, find_reads(path), path, Walk(path))
        BY WalkFound DEF TreeInv
      <3>2. QED
        BY <1>6, <3>1, PathOf DEF Found, find, open
    <2>2. handle' \in [Clients -> Names \cup {None}]
      BY <1>6, <2>1 DEF open, TreeInv, KeysInv
    <2>3. UNCHANGED <<db, tx>>
      BY <1>6 DEF open
    <2>4. KeysInv'
      BY <2>2, <2>3 DEF TreeInv, KeysInv, DbKeys, Versions
    <2>5. QED
      BY <2>3, <2>4 DEF TreeInv, Valid
  <1>7. ASSUME NEW p \in Clients, NEW path \in Paths, remove_missing(p, path) PROVE TreeInv'
    <2>1. PICK R, W : R = find_reads(path) /\ W = initialize_directory
      OBVIOUS
    <2>2. Begin(p, R, W) /\ Operation(db, R, W)
      BY <1>7, <2>1, VersionWrite DEF remove_missing, Operation, Initializes, OfVersion
    <2>3. R \subseteq DbKeys
      BY <2>1, ReadKeys DEF TreeInv
    <2>4. QED
      BY <2>2, <2>3, BeginTree
  <1>8. CASE UNCHANGED vars
    BY <1>8 DEF vars, TreeInv, KeysInv, Valid, DbKeys, Versions
  <1>9. QED
    BY <1>1, <1>2, <1>3, <1>4, <1>5, <1>6, <1>7, <1>8,
       CreateTree, CreateManualTree, MoveTree, RemoveTree DEF Next

\* At every moment the directories are a tree, and a transaction that can still
\* commit does on it what create/4, move/4 or remove/3 meant to do on the tree
\* that it had read.
THEOREM TreeInvariance == ASSUME NamesDiffer PROVE Spec => []TreeInv
  BY TreeInit, TreeNext, Invariance, PTL DEF Spec

\* The directories are a tree at every moment (remove/3, move/4 and create/4 of
\* any clients at the same time), for any paths, and for any names of which none
\* is both asked for by a caller and given by the allocator.
THEOREM TreeKept == ASSUME NamesDiffer PROVE Spec => []IsTree
  <1>1. ASSUME TreeInv PROVE IsTree
    <2>1. Nodes = NodesOf(db) /\ Tree(db)
      BY <1>1 DEF Nodes, NodesOf, TreeInv
    <2>2. \A k \in AllEntries : \E n \in Places, a \in PathNames : k = Entry(n, a)
      BY DEF AllEntries, Entries, Places
    <2>3. \A n \in Places, a \in PathNames : Entry(n, a) \in AllEntries
      BY DEF AllEntries, Entries, Places
    <2>4. TypeOK
      <3>1. \A k \in AllEntries : db[k] \in Names \cup {None}
        BY <2>1, <2>2 DEF Tree, Entered
      <3>2. QED
        BY <1>1, <3>1 DEF TreeInv, KeysInv, TypeOK
    <2>5. ASSUME NEW n \in Names, n \in Nodes PROVE Cardinality(EntriesOf(n)) = 1
      <3>1. PICK k \in Places, a \in PathNames : db[Entry(k, a)] = n
        <4> SUFFICES ASSUME \A k \in Places, a \in PathNames : db[Entry(k, a)] # n PROVE FALSE
          OBVIOUS
        <4>1. PICK T : T = Places \ {n}
          OBVIOUS
        <4>2. T \in SUBSET Places /\ Root \in T
          BY <4>1, NoneRoot DEF Places
        <4>3. Closed(db, T)
          BY <4>1 DEF Closed, Places
        <4>4. NodesOf(db) \subseteq T
          BY <2>1, <4>2, <4>3 DEF Tree, Reached
        <4>5. QED
          BY <2>1, <2>5, <4>1, <4>4
      <3>2. n # None
        BY NoneRoot
      <3>3. \A h \in EntriesOf(n) : h = Entry(k, a)
        <4> SUFFICES ASSUME NEW h \in AllEntries, db[h] = n PROVE h = Entry(k, a)
          BY DEF EntriesOf
        <4>1. PICK m \in Places, b \in PathNames : h = Entry(m, b)
          BY <2>2
        <4>2. m = k /\ b = a
          BY <2>1, <3>1, <3>2, <4>1 DEF Tree, Single
        <4>3. QED
          BY <4>1, <4>2
      <3>4. EntriesOf(n) = {Entry(k, a)}
        BY <2>3, <3>1, <3>3 DEF EntriesOf
      <3>5. QED
        BY <3>4, FS_Singleton
    <2>6. ASSUME NEW n \in Names, n \notin Nodes PROVE EntriesOf(n) = {}
      BY <2>1, <2>2, <2>6, NoneRoot DEF EntriesOf, Tree, Kept
    <2>7. Nodes = Subtree(Root) \ {Root}
      <3>1. PICK S : S = Subtree(Root)
        OBVIOUS
      <3>2. /\ Root \in S /\ S \subseteq Places /\ Closed(db, S)
            /\ \A T : Root \in T /\ Closed(db, T) => S \subseteq T
        BY <3>1, SubtreeLeast DEF Places
      <3>3. NodesOf(db) \subseteq S
        BY <2>1, <3>2 DEF Tree, Reached
      <3>4. PICK T : T = NodesOf(db) \cup {Root}
        OBVIOUS
      <3>5. T \subseteq Places /\ Root \in T
        BY <3>4 DEF NodesOf, Places
      <3>6. Closed(db, T)
        BY <2>1, <3>4, <3>5, NoneRoot DEF Closed, Tree, Kept
      <3>7. S \subseteq T
        BY <3>2, <3>5, <3>6
      <3>8. Root \notin NodesOf(db)
        BY NoneRoot DEF NodesOf
      <3>9. QED
        BY <2>1, <3>1, <3>3, <3>4, <3>7, <3>8
    <2>8. QED
      BY <2>4, <2>5, <2>6, <2>7 DEF IsTree
  <1>2. QED
    BY <1>1, TreeInvariance, PTL

-----------------------------------------------------------------------------
(* The names of nodes do not overlap *)

\* No node's name continues another one's.
PrefixFree(d) == \A n, m \in NodesOf(d) : StartsWith(n, m) => n = m

\* From d to e no automatic name is given that overlaps with a manual one of e.
Gives(d, e) ==
    \A n \in AutoNames : d[Given(n)] = None /\ e[Given(n)] # None =>
        \A m \in ManualNames : m \in NodesOf(e) => ~Overlap(n, m)

\* create/4 adds no name that overlaps with one of the tree or of its own, but
\* for an automatic name with a manual one.
LEMMA CreatesFree ==
    ASSUME NamesDiffer, NEW d, PrefixFree(d), DbKeys \subseteq DOMAIN d, NEW R, NEW W,
           NEW path, NEW x, NEW l, NEW u, Creates(d, R, W, path, x, l, u),
           Gives(d, Over(d, W))
    PROVE  PrefixFree(Over(d, W))
  <1>1. PICK e, L, New : /\ e = Over(d, W) /\ L = Len(path)
                         /\ New = {u[i] : i \in (l + 1)..L}
    OBVIOUS
  <1>2. \A k \in DbKeys : e[k] = IF k \in DOMAIN W THEN W[k] ELSE d[k]
    BY <1>1, Overridden
  <1>3. NodesOf(e) \subseteq NodesOf(d) \cup New
    <2> SUFFICES ASSUME NEW m \in Names, e[Layer(m)] # None, d[Layer(m)] = None PROVE m \in New
      BY DEF NodesOf
    <2>1. Layer(m) \in DOMAIN W
      BY <1>2, TreeKeys
    <2>2. \/ \E i \in (l + 1)..L : Layer(m) = Entry(u[i - 1], path[i]) \/ Layer(m) = Layer(u[i])
          \/ \E n \in AutoNames : Layer(m) = Given(n)
          \/ Layer(m) = Version
      BY <1>1, <2>1 DEF Creates, OfVersion
    <2>3. PICK i \in (l + 1)..L : Layer(m) = Layer(u[i])
      BY <2>2, Kinds
    <2>4. QED
      BY <1>1, <2>3, Kinds
  <1>4. \A n \in New : n \in Names /\ Unused(d, R, n)
    BY <1>1 DEF Creates
  <1>5. \A n, m \in New : n \in AutoNames \/ m \in AutoNames \/ n = m
    BY <1>1 DEF Creates
  <1>6. ASSUME NEW n \in New, n \in AutoNames
        PROVE  d[Given(n)] = None /\ e[Given(n)] # None
    <2>1. d[Given(n)] = None
      BY <1>4, <1>6 DEF Unused, NamesDiffer
    <2>2. Given(n) \in DOMAIN W
      BY <1>1, <1>6 DEF Creates
    <2>3. \/ \E i \in (l + 1)..L : Given(n) = Entry(u[i - 1], path[i]) \/ Given(n) = Layer(u[i])
          \/ W[Given(n)] = "given"
          \/ Given(n) = Version
      BY <1>1, <2>2 DEF Creates, OfVersion
    <2>4. W[Given(n)] = "given"
      BY <2>3, Kinds
    <2>5. e[Given(n)] = "given"
      BY <1>2, <1>6, <2>2, <2>4, TreeKeys
    <2>6. QED
      BY <2>1, <2>5, DirectoryAssumption
  <1>7. ASSUME NEW n \in New, NEW m \in NodesOf(e), n \in AutoNames, n # m
        PROVE  ~Overlap(n, m)
    <2>1. m \in AutoNames \/ m \in ManualNames
      BY DEF NodesOf, Names
    <2>2. CASE m \in AutoNames
      BY <1>7, <2>2, DirectoryAssumption
    <2>3. CASE m \in ManualNames
      BY <1>1, <1>6, <1>7, <2>3 DEF Gives
    <2>4. QED
      BY <2>1, <2>2, <2>3
  <1>8. ASSUME NEW n \in NodesOf(e), NEW m \in NodesOf(e), StartsWith(n, m), n # m
        PROVE  FALSE
    <2>1. n \in Names /\ m \in Names /\ Overlap(n, m) /\ Overlap(m, n)
      BY <1>8 DEF NodesOf, Overlap
    <2>2. CASE n \in NodesOf(d) /\ m \in NodesOf(d)
      BY <1>8, <2>2 DEF PrefixFree
    <2>3. CASE n \in New /\ n \in AutoNames
      BY <1>7, <1>8, <2>1, <2>3
    <2>4. CASE m \in New /\ m \in AutoNames
      BY <1>7, <1>8, <2>1, <2>4
    <2>5. CASE m \in New /\ m \notin AutoNames /\ n \in NodesOf(d)
      <3>1. Unclaimed(d, R, m)
        BY <1>4, <2>5 DEF Unused
      <3>2. QED
        BY <1>8, <2>1, <2>5, <3>1 DEF Unclaimed, NodesOf
    <2>6. CASE n \in New /\ n \notin AutoNames /\ m \in NodesOf(d)
      <3>1. Unclaimed(d, R, n)
        BY <1>4, <2>6 DEF Unused
      <3>2. d[Layer(m)] # None
        BY <2>6 DEF NodesOf
      <3>3. PICK k \in Names : d[Layer(k)] # None /\ StartsWith(k, m) /\ k # m
        BY <1>8, <2>1, <3>1, <3>2 DEF Unclaimed
      <3>4. k \in NodesOf(d)
        BY <3>3 DEF NodesOf
      <3>5. QED
        BY <2>6, <3>3, <3>4 DEF PrefixFree
    <2>7. n \in NodesOf(d) \cup New /\ m \in NodesOf(d) \cup New
      BY <1>3
    <2>8. QED
      BY <1>5, <1>8, <2>2, <2>3, <2>4, <2>5, <2>6, <2>7
  <1>9. PrefixFree(e)
    BY <1>8 DEF PrefixFree
  <1>10. QED
    BY <1>1, <1>9

\* An operation adds no other name that overlaps.
LEMMA OperationFree ==
    ASSUME NamesDiffer, NEW d, PrefixFree(d), DbKeys \subseteq DOMAIN d, NEW R, NEW W,
           Operation(d, R, W), Gives(d, Over(d, W))
    PROVE  PrefixFree(Over(d, W))
  <1>1. PICK e : e = Over(d, W)
    OBVIOUS
  <1>2. \A k \in DbKeys : e[k] = IF k \in DOMAIN W THEN W[k] ELSE d[k]
    BY <1>1, Overridden
  <1>3. ASSUME NodesOf(e) \subseteq NodesOf(d) PROVE PrefixFree(Over(d, W))
    BY <1>1, <1>3 DEF PrefixFree
  <1>4. ASSUME \A m \in Names : Layer(m) \in DOMAIN W => W[Layer(m)] = None
        PROVE  PrefixFree(Over(d, W))
    <2>1. NodesOf(e) \subseteq NodesOf(d)
      BY <1>2, <1>4, TreeKeys DEF NodesOf
    <2>2. QED
      BY <1>3, <2>1
  <1>5. CASE Initializes(W)
    BY <1>4, <1>5, Kinds DEF Initializes, OfVersion
  <1>6. ASSUME NEW old, NEW x, NEW new, NEW y, Moves(d, R, W, old, x, new, y)
        PROVE  PrefixFree(Over(d, W))
    <2>1. \A m : Layer(m) \notin DOMAIN W
      <3>1. PICK v, b, w, a : \A k \in DOMAIN W : k = Entry(v, b) \/ k = Entry(w, a) \/ OfVersion(W, k)
        BY <1>6 DEF Moves
      <3>2. QED
        BY <3>1, Kinds DEF OfVersion
    <2>2. QED
      BY <1>4, <2>1
  <1>7. ASSUME NEW path, NEW x, NEW S, Removes(d, R, W, path, x, S)
        PROVE  PrefixFree(Over(d, W))
    <2>1. \A k \in DOMAIN W : W[k] = None \/ k = Version
      BY <1>7 DEF Removes, OfVersion
    <2>2. QED
      BY <1>4, <2>1, Kinds
  <1>8. QED
    BY <1>5, <1>6, <1>7, CreatesFree DEF Operation

\* Every action keeps the names apart that gives no automatic name which overlaps
\* with a manual one.
LEMMA FreeNext ==
    ASSUME NamesDiffer
    PROVE  IInv /\ TreeInv /\ NoOverlap /\ [Next]_vars /\ [GivesApart]_vars => NoOverlap'
  <1> SUFFICES ASSUME IInv, TreeInv, NoOverlap, [Next]_vars, [GivesApart]_vars PROVE NoOverlap'
    OBVIOUS
  <1>0. Nodes = NodesOf(db) /\ Nodes' = NodesOf(db')
    BY DEF Nodes, NodesOf
  <1>1. PrefixFree(db) /\ (PrefixFree(db') => NoOverlap')
    BY <1>0 DEF NoOverlap, PrefixFree
  <1>2. ASSUME NEW p \in Clients, commit(p), GivesApart PROVE PrefixFree(db')
    <2>1. PICK R, W : R = tx[p].reads /\ W = tx[p].writes
      OBVIOUS
    <2>2. db' = Over(db, W) /\ Operation(db, R, W) /\ DbKeys \subseteq DOMAIN db
      BY <1>2, <2>1 DEF commit, TreeInv, KeysInv, Valid
    <2>3. Gives(db, db')
      BY <1>0, <1>2 DEF GivesApart, Gives
    <2>4. QED
      BY <1>1, <2>2, <2>3, OperationFree
  <1>3. ASSUME \A p \in Clients : ~commit(p) PROVE PrefixFree(db')
    <2>1. \A m \in Names : db'[Layer(m)] = db[Layer(m)]
      <3> SUFFICES ASSUME NEW m \in Names, db'[Layer(m)] # db[Layer(m)] PROVE FALSE
        OBVIOUS
      <3>1. PICK k \in DbKeys : k = Layer(m) /\ k # Version /\ k[1] # "content"
        BY TreeKeys, Kinds DEF Layer
      <3>2. QED
        BY <1>3, <3>1, OnlyCommits
    <2>2. NodesOf(db') = NodesOf(db)
      BY <2>1 DEF NodesOf
    <2>3. QED
      BY <1>1, <2>2 DEF PrefixFree
  <1>4. CASE UNCHANGED vars
    BY <1>1, <1>4 DEF vars
  <1>5. QED
    BY <1>1, <1>2, <1>3, <1>4

\* The root overlaps with nothing.
LEMMA FreeInit == Init => NoOverlap
  <1> SUFFICES ASSUME Init PROVE NoOverlap
    OBVIOUS
  <1>1. \A m \in Names : db[Layer(m)] = None
    BY TreeKeys DEF Init
  <1>2. QED
    BY <1>1 DEF NoOverlap, Nodes

\* The names of directories come to overlap only where the allocator gives a name
\* that overlaps with a manual one of the tree (create_node_name/3,
\* is_prefix_free/3).
THEOREM OverlapsGiven == ASSUME NamesDiffer PROVE Spec => OverlapsOnlyGiven
  <1>1. IInv /\ TreeInv /\ [Next]_vars => [NoOverlap /\ GivesApart => NoOverlap']_vars
    BY FreeNext
  <1>2. QED
    BY <1>1, Invariance, TreeInvariance, PTL DEF Spec, OverlapsOnlyGiven

\* Removing one directory clears the content of no other (remove_recursive/2) as
\* long as no automatic name is given that overlaps with a manual one of the tree.
\* Where one is, this is not so.
THEOREM ContentKept == ASSUME NamesDiffer PROVE Spec /\ [][GivesApart]_vars => ContentSafe
  <1>1. ASSUME IInv, TreeInv, NoOverlap, [Next]_vars, NEW n \in Nodes,
               db[Content(n)] # None, db'[Content(n)] = None
        PROVE  n \notin Nodes'
    <2>0. n \in Names /\ Content(n) \in DbKeys /\ DOMAIN db = DbKeys
      BY <1>1, KeysOf DEF Nodes, TreeInv, KeysInv
    <2>1. ASSUME NEW p \in Clients, commit(p) PROVE n \notin Nodes'
      <3>1. PICK R, W : R = tx[p].reads /\ W = tx[p].writes
        OBVIOUS
      <3>2. db' = Over(db, W) /\ Operation(db, R, W) /\ DbKeys \subseteq DOMAIN db
        BY <1>1, <2>0, <2>1, <3>1 DEF commit, TreeInv, Valid
      <3>3. \A k \in DbKeys : db'[k] = IF k \in DOMAIN W THEN W[k] ELSE db[k]
        BY <3>2, Overridden
      <3>4. Content(n) \in DOMAIN W
        BY <1>1, <2>0, <3>3
      <3>5. ~Initializes(W)
        BY <3>4, Kinds DEF Initializes, OfVersion
      <3>6. ASSUME NEW path, NEW x, NEW l, NEW u, Creates(db, R, W, path, x, l, u) PROVE FALSE
        <4>1. \/ \E i \in (l + 1)..Len(path) : Content(n) = Entry(u[i - 1], path[i]) \/ Content(n) = Layer(u[i])
              \/ \E m \in AutoNames : Content(n) = Given(m)
              \/ Content(n) = Version
          BY <3>4, <3>6 DEF Creates, OfVersion
        <4>2. QED
          BY <4>1, Kinds
      <3>7. ASSUME NEW old, NEW x, NEW new, NEW y, Moves(db, R, W, old, x, new, y) PROVE FALSE
        <4>1. PICK v, b, w, a : \A k \in DOMAIN W : k = Entry(v, b) \/ k = Entry(w, a) \/ OfVersion(W, k)
          BY <3>7 DEF Moves
        <4>2. QED
          BY <3>4, <4>1, Kinds DEF OfVersion
      <3>8. ASSUME NEW path, NEW x, NEW S, Removes(db, R, W, path, x, S) PROVE n \notin Nodes'
        <4>1. PICK m \in S : StartsWith(n, m)
          <5>1. PICK e, k : e = Entry(x[Len(path) - 1], path[Len(path)]) /\ k = Content(n)
            OBVIOUS
          <5>2. \/ k = Version
                \/ k = e
                \/ \E m \in S : k = Layer(m) \/ \E a \in PathNames : k = Entry(m, a)
                \/ \E m \in S, j \in Names : StartsWith(j, m) /\ k = Content(j)
            BY <3>4, <3>8, <5>1 DEF Removes, OfVersion
          <5>3. \E m \in S, j \in Names : StartsWith(j, m) /\ Content(n) = Content(j)
            BY <5>1, <5>2, Kinds
          <5>4. QED
            BY <5>3, Kinds
        <4>2. m \in NodesOf(db) /\ n \in NodesOf(db)
          BY <1>1, <3>8 DEF Removes, NodesOf, Nodes
        <4>3. n \in S
          BY <1>1, <4>1, <4>2 DEF NoOverlap, NodesOf, Nodes
        <4>4. Layer(n) \in DOMAIN W /\ W[Layer(n)] = None
          BY <3>8, <4>3, Kinds DEF Removes, OfVersion
        <4>5. db'[Layer(n)] = None
          BY <2>0, <3>3, <4>4, TreeKeys
        <4>6. QED
          BY <4>5 DEF Nodes
      <3>9. QED
        BY <3>2, <3>5, <3>6, <3>7, <3>8 DEF Operation
    <2>2. CASE upgrade
      BY <1>1, <2>0, <2>2, Kinds DEF upgrade
    <2>3. ASSUME NEW m \in AutoNames, set_outside(m) PROVE FALSE
      BY <1>1, <2>0, <2>3, DirectoryAssumption DEF set_outside
    <2>4. ASSUME NEW p \in Clients, set(p) PROVE FALSE
      BY <1>1, <2>0, <2>4, DirectoryAssumption DEF set
    <2>5. ASSUME NEW p \in Clients, NEW path \in Paths,
                    \/ open(p, path)
                    \/ create(p, path)
                    \/ \E name \in ManualNames : create_manual(p, path, name)
                    \/ remove(p, path)
                    \/ remove_missing(p, path)
                    \/ \E new \in Paths : move(p, path, new)
          PROVE  FALSE
      <3>1. db' = db
        BY <2>5 DEF open, create, create_manual, create_int, remove, remove_missing, move, Begin
      <3>2. QED
        BY <1>1, <3>1
    <2>6. ASSUME NEW p \in Clients, conflict(p) PROVE FALSE
      BY <1>1, <2>6 DEF conflict
    <2>7. CASE UNCHANGED vars
      BY <1>1, <2>7 DEF vars
    <2>8. QED
      BY <1>1, <2>1, <2>2, <2>3, <2>4, <2>5, <2>6, <2>7 DEF Next
  <1>2. IInv /\ TreeInv /\ NoOverlap /\ [Next]_vars =>
            [\A n \in Nodes :
                db[Content(n)] # None /\ db'[Content(n)] = None => n \notin Nodes']_vars
    BY <1>1
  <1>3. Spec /\ [][GivesApart]_vars => []NoOverlap
    BY FreeInit, FreeNext, Invariance, TreeInvariance, PTL DEF Spec
  <1>4. QED
    BY <1>2, <1>3, Invariance, TreeInvariance, PTL DEF Spec, ContentSafe

=============================================================================
