------------------------------ MODULE Directory ------------------------------
(***************************************************************************)
(* The directory layer, src/erlfdb_directory.erl: a tree of directories in *)
(* one root, which clients change and write to in concurrent transactions. *)
(*                                                                         *)
(* An operation is one transaction.  It reads the tree at the version of   *)
(* its first read, which gives it its writes and the keys that it read;    *)
(* its commit succeeds if no transaction has committed a write to one of   *)
(* these in between, and is retried otherwise (the database, external).    *)
(* An operation that raises one of the layer's errors has no writes, and   *)
(* an operation that only reads is one action.                             *)
(*                                                                         *)
(* A node's name is the prefix of its content: a sequence of digits in the *)
(* place of bytes.  It is given by the caller, or by the high-contention   *)
(* allocator, which gives a name once (module HCA).  Both may overlap: the *)
(* layer looks for that with is_prefix_free/3 only.  Names lie outside the *)
(* prefix of the tree's own keys.                                          *)
(***************************************************************************)
EXTENDS Naturals, Sequences, FiniteSets

CONSTANTS Clients,
          Writers,       \* the clients that also keep content in directories
          PathNames,     \* the names of directories in their parent
          Paths,         \* the paths that callers use
          AutoNames,     \* the names that the allocator may give
          ManualNames,   \* the names that callers may ask for
          Root,          \* the root's node
          None           \* the value of a key that is not set

StartsWith(s, t) == Len(t) <= Len(s) /\ SubSeq(s, 1, Len(t)) = t

Overlap(s, t) == StartsWith(s, t) \/ StartsWith(t, s)

ASSUME DirectoryAssumption ==
    /\ Paths \subseteq Seq(PathNames) \ {<<>>}
    /\ Root \notin AutoNames \cup ManualNames
    /\ None \notin AutoNames \cup ManualNames /\ Root # None
    /\ None \notin {"current", "newer minor", "newer major", "layer", "given", "set"}
    /\ AutoNames \cup ManualNames \subseteq Seq(Nat)
    /\ IsFiniteSet(AutoNames \cup ManualNames)
    /\ \A s, t \in AutoNames : s # t => ~Overlap(s, t)

Names == AutoNames \cup ManualNames

\* The keys: a parent's entry for a name, a node's layer, its content, the
\* allocator's candidates and the layer's version.
Entry(n, a) == <<"entry", n, a>>
Layer(n)    == <<"layer", n>>
Content(n)  == <<"content", n>>
Given(n)    == <<"hca", n>>
Version     == <<"version">>

Entries(n) == {Entry(n, a) : a \in PathNames}

AllEntries == UNION {Entries(n) : n \in Names \cup {Root}}

DbKeys == AllEntries
              \cup {Layer(n) : n \in Names} \cup {Content(n) : n \in Names}
              \cup {Given(n) : n \in AutoNames} \cup {Version}

VARIABLES
    db,        \* the committed value of each key
    tx,        \* each client's transaction, or NoTx
    handle     \* the node that each client has opened, as its content's prefix

vars == <<db, tx, handle>>

NoTx == [reads |-> {}, writes |-> <<>>, ok |-> TRUE, open |-> FALSE]

Versions == {None, "current", "newer minor", "newer major"}

TypeOK ==
    /\ DOMAIN db = DbKeys /\ db[Version] \in Versions
    /\ \A k \in AllEntries : db[k] \in Names \cup {None}
    /\ \A p \in Clients : tx[p].reads \subseteq DbKeys /\ DOMAIN tx[p].writes \subseteq DbKeys
    /\ handle \in [Clients -> Names \cup {None}]

\* The tree is empty.
Init ==
    /\ db = [k \in DbKeys |-> None]
    /\ tx = [p \in Clients |-> NoTx]
    /\ handle = [p \in Clients |-> None]

-----------------------------------------------------------------------------
(* Reading the tree *)

\* find/3: the node at each step of a path.
Walk(path) ==
    LET node[i \in 0..Len(path)] ==
            IF i = 0 THEN Root
            ELSE IF node[i - 1] = None THEN None
            ELSE db[Entry(node[i - 1], path[i])]
    IN node

find(path) == Walk(path)[Len(path)]

\* The keys that it reads: entries, and the layers of the nodes found.
find_reads(path) ==
    LET node == Walk(path)
    IN {Entry(node[i - 1], path[i]) : i \in {j \in 1..Len(path) : node[j - 1] # None}}
           \cup {Layer(node[i]) : i \in {j \in 1..Len(path) : node[j] # None}}

\* find_deepest/3: how many names of a path exist.
find_deepest(path) ==
    CHOOSE i \in 0..Len(path) :
        Walk(path)[i] # None /\ (i < Len(path) => Walk(path)[i + 1] = None)

Parent(path) == SubSeq(path, 1, Len(path) - 1)

\* The children of some nodes.
Children(S) == {m \in Names : \E k \in S, a \in PathNames : db[Entry(k, a)] = m}

\* A node and all below it, as list/2 and remove_recursive/2 find them.
Subtree(n) ==
    LET below[i \in 0..Cardinality(Names)] ==
            IF i = 0 THEN {n} ELSE LET B == below[i - 1] IN B \cup Children(B)
    IN below[Cardinality(Names)]

\* The nodes of the tree, which have a layer.
Nodes == {n \in Names : db[Layer(n)] # None}

\* The order of names as keys.
Less(s, t) ==
    \/ StartsWith(t, s) /\ s # t
    \/ \E i \in DOMAIN s \cap DOMAIN t : SubSeq(s, 1, i - 1) = SubSeq(t, 1, i - 1) /\ s[i] < t[i]

\* The nodes below a name in this order from the last one that exists.
LastBelow(n) ==
    {m \in Names : Less(m, n) /\ \A k \in Nodes : Less(k, n) => m = k \/ Less(k, m)}

\* is_prefix_free/3 asks for the last node below the name and for one node
\* that starts with it.
is_prefix_free(n) ==
    /\ n # <<>>
    /\ \A m \in LastBelow(n) \cap Nodes : ~StartsWith(n, m)
    /\ ~\E m \in Nodes : StartsWith(m, n)

\* Mutant: the check of a manual name is a snapshot read too.
is_prefix_free_reads_snapshot(n) == {}

\* The keys of the nodes that it reads.
is_prefix_free_reads(n) ==
    UNION {Entries(m) \cup {Layer(m)} :
              m \in LastBelow(n) \cup {k \in Names : StartsWith(k, n)}}

\* Mutant: the version is read in the snapshot.
check_version_reads_snapshot == {}

check_version_reads == {Version}

\* check_version/3.
may_read  == db[Version] # "newer major"
may_write == db[Version] \notin {"newer minor", "newer major"}

\* initialize_directory/2, when a write finds no version.
initialize_directory ==
    [k \in {j \in {Version} : db[j] = None} |-> "current"]

-----------------------------------------------------------------------------
(* Transactions *)

\* f, overridden by g.
Over(f, g) == [k \in DOMAIN f \cup DOMAIN g |-> IF k \in DOMAIN g THEN g[k] ELSE f[k]]

Cleared(keys) == [k \in keys |-> None]

\* Client p has read and written, and goes on to commit.
Begin(p, reads, writes) ==
    /\ tx' = [tx EXCEPT ![p] = [reads |-> reads \cup check_version_reads,
                                writes |-> writes, ok |-> TRUE, open |-> TRUE]]
    /\ UNCHANGED <<db, handle>>

\* The database accepts the commit; the transactions that read what it wrote
\* will fail.
commit(p) ==
    /\ tx[p].open /\ tx[p].ok
    /\ db' = Over(db, tx[p].writes)
    /\ tx' = [q \in Clients |->
                IF q = p THEN NoTx
                ELSE [tx[q] EXCEPT !.ok =
                         @ /\ tx[q].reads \cap DOMAIN tx[p].writes = {}]]
    /\ UNCHANGED handle

\* It does not, and the operation is retried or given up.
conflict(p) ==
    /\ tx[p].open /\ ~tx[p].ok
    /\ tx' = [tx EXCEPT ![p] = NoTx]
    /\ UNCHANGED <<db, handle>>

-----------------------------------------------------------------------------
(* create, create_or_open *)

\* Automatic names for the directories of path that are missing, but the last
\* one if it is given, and what create_node_name/3 checks: no key of the
\* content has the name's prefix, and no node overlaps with it.  Of these only
\* the first read can conflict.
Allocated(names) ==
    /\ \A i, j \in DOMAIN names : i # j => names[i] # names[j]
    /\ \A i \in DOMAIN names :
           /\ db[Given(names[i])] = None
           /\ \A m \in Names : StartsWith(m, names[i]) => db[Content(m)] = None
           /\ is_prefix_free(names[i])

\* Mutant: the content is read in the snapshot too.
AllocatedReads_snapshot(names) == {Given(names[i]) : i \in DOMAIN names}

AllocatedReads(names) ==
    UNION {{Given(names[i])} \cup {Content(m) : m \in {k \in Names : StartsWith(k, names[i])}} :
              i \in DOMAIN names}

\* create_node/5 for every missing directory of a path.
create_node(path, names) ==
    LET node == Walk(path)
        up(i) == IF i - 1 \in DOMAIN names THEN names[i - 1] ELSE node[i - 1]
    IN [k \in {Entry(up(i), path[i]) : i \in DOMAIN names} |->
            names[CHOOSE i \in DOMAIN names : k = Entry(up(i), path[i])]]

NewNodes(names) ==
    [k \in {Layer(names[i]) : i \in DOMAIN names} |-> "layer"]

GivenTo(names) == [k \in {Given(names[i]) : i \in DOMAIN names} |-> "given"]

\* create_int/5 with the names of the directories that it creates, of which
\* auto were allocated.
create_int(p, path, names, auto, reads) ==
    Begin(p, find_reads(path) \cup AllocatedReads(auto) \cup reads,
          Over(Over(create_node(path, names), NewNodes(names)),
               Over(GivenTo(auto), initialize_directory)))

\* create_or_open/4 and create/4 of a path that is missing: it and its
\* missing parents get automatic names.
create(p, path) ==
    /\ tx[p] = NoTx /\ may_write /\ find(path) = None
    /\ \E names \in [(find_deepest(path) + 1)..Len(path) -> AutoNames] :
          /\ Allocated(names)
          /\ create_int(p, path, names, names, {})

\* create/4 with a node_name, where the root allows it: the name is checked
\* before the parents are created.
create_manual(p, path, name) ==
    /\ tx[p] = NoTx /\ may_write /\ find(path) = None
    /\ is_prefix_free(name)
    /\ \E auto \in [(find_deepest(path) + 1)..(Len(path) - 1) -> AutoNames] :
          /\ Allocated(auto)
          /\ create_int(p, path, Over(auto, [i \in {Len(path)} |-> name]), auto,
                        is_prefix_free_reads(name))

-----------------------------------------------------------------------------
(* move, remove *)

\* check_not_subpath/2.
check_not_subpath(old, new) == ~StartsWith(new, old)

\* move/4 and move_to/3: the new parent gets an entry with the node's name,
\* and the old parent's entry is cleared.
move(p, old, new) ==
    /\ tx[p] = NoTx /\ may_write /\ check_not_subpath(old, new)
    /\ find(old) # None /\ find(new) = None /\ find(Parent(new)) # None
    /\ Begin(p, find_reads(old) \cup find_reads(new),
             Over(Over([k \in {Entry(find(Parent(new)), new[Len(new)])} |-> find(old)],
                       Cleared({Entry(find(Parent(old)), old[Len(old)])})),
                  initialize_directory))

\* remove_recursive/2: the content, the entries and the layer of every node
\* below n.  Clearing a node's content clears all keys with its prefix.
remove_recursive(n) ==
    Cleared(UNION {Entries(m) \cup {Layer(m)}
                       \cup {Content(k) : k \in {j \in Names : StartsWith(j, m)}} :
                       m \in Subtree(n)})

\* Mutant: the subdirectories are listed in a snapshot.
list_reads_snapshot(n) == {}

\* What list/2 reads of every node below n.
list_reads(n) == UNION {Entries(m) \cup {Layer(m)} : m \in Subtree(n)}

\* remove/3 and remove_if_exists/3.
remove(p, path) ==
    /\ tx[p] = NoTx /\ may_write /\ find(path) # None
    /\ Begin(p, find_reads(path) \cup list_reads(find(path)),
             Over(Over(remove_recursive(find(path)),
                       Cleared({Entry(find(Parent(path)), path[Len(path)])})),
                  initialize_directory))

\* remove_if_exists/3 of a path that is missing still stores the version.
remove_missing(p, path) ==
    /\ tx[p] = NoTx /\ db[Version] = None /\ find(path) = None
    /\ Begin(p, find_reads(path), initialize_directory)

-----------------------------------------------------------------------------
(* Using a directory *)

\* open/4: the client keeps the node, whose name is its content's prefix.
open(p, path) ==
    /\ p \in Writers /\ may_read /\ tx[p] = NoTx /\ find(path) # None
    /\ handle' = [handle EXCEPT ![p] = find(path)]
    /\ UNCHANGED <<db, tx>>

\* A transaction of the client's own sets a key of the directory that it
\* opened earlier, without asking for the directory again.
set(p) ==
    /\ tx[p] = NoTx /\ handle[p] # None
    /\ db' = [db EXCEPT ![Content(handle[p])] = "set"]
    /\ tx' = [q \in Clients |->
                [tx[q] EXCEPT !.ok = @ /\ Content(handle[p]) \notin tx[q].reads]]
    /\ UNCHANGED handle

\* A program that does not use the layer sets a key whose prefix the allocator
\* has not given yet (external).
set_outside(n) ==
    /\ db[Content(n)] = None /\ db[Given(n)] = None
    /\ db' = [db EXCEPT ![Content(n)] = "set"]
    /\ tx' = [q \in Clients |-> [tx[q] EXCEPT !.ok = @ /\ Content(n) \notin tx[q].reads]]
    /\ UNCHANGED handle

\* A program with a newer version of the layer takes the tree over, and
\* stores its version at any moment (external).
upgrade ==
    /\ db[Version] \in {None, "current"}
    /\ \E v \in {"newer minor", "newer major"} : db' = [db EXCEPT ![Version] = v]
    /\ tx' = [q \in Clients |-> [tx[q] EXCEPT !.ok = @ /\ Version \notin tx[q].reads]]
    /\ UNCHANGED handle

Next ==
    \/ upgrade
    \/ \E n \in AutoNames : set_outside(n)
    \/ \E p \in Clients : commit(p) \/ conflict(p) \/ set(p)
    \/ \E p \in Clients, path \in Paths :
          \/ open(p, path)
          \/ create(p, path)
          \/ \E name \in ManualNames : create_manual(p, path, name)
          \/ remove(p, path)
          \/ remove_missing(p, path)
          \/ \E new \in Paths : move(p, path, new)

Spec == Init /\ [][Next]_vars

-----------------------------------------------------------------------------
(* Properties *)

\* Who has an entry for n.
EntriesOf(n) == {k \in AllEntries : db[k] = n}

\* The directories are a tree, whatever was moved, removed and created at the
\* same time: a node has exactly one entry and a layer, or neither, and is
\* found from the root, so that nothing is left below a node that is gone.
\* This is for callers that ask for no name which the allocator gives
\* (NamesDiffer): a node that is created twice, under both names, has two
\* entries, or is its own parent.
IsTree ==
    /\ TypeOK
    /\ \A n \in Names : IF n \in Nodes THEN Cardinality(EntriesOf(n)) = 1
                        ELSE EntriesOf(n) = {}
    /\ Nodes = Subtree(Root) \ {Root}

\* No node's name continues another one's.
NoOverlap == \A n, m \in Nodes : StartsWith(n, m) => n = m

\* The step gives no automatic name that overlaps with a manual one of the tree.
GivesApart ==
    \A n \in AutoNames : db[Given(n)] = None /\ db'[Given(n)] # None =>
        \A m \in ManualNames : m \in Nodes' => ~Overlap(n, m)

\* Names come to overlap in one way only: the allocator gives a name that
\* overlaps with a manual one of the tree, which create_node_name/3 looks for
\* in a snapshot.  Two manual names never do, also when they are created at the
\* same time and although is_prefix_free/3 reads one node below the new name.
OverlapsOnlyGiven == [][NoOverlap /\ GivesApart => NoOverlap']_vars

\* The content of a directory is cleared only with the directory: removing
\* another one leaves it alone.  This is what is_prefix_free/3 says that it is
\* for (src/erlfdb_directory.erl:645-648).  It holds in the behaviours whose
\* steps are GivesApart; an automatic name that overlaps with a manual one of
\* the tree, which the layer does not refuse in every case, refutes it.
ContentSafe ==
    [][\A n \in Nodes :
          db[Content(n)] # None /\ db'[Content(n)] = None => n \notin Nodes']_vars

\* A directory with an allocated name starts empty, also where another program
\* sets keys with that prefix while the directory is created (create_node_name/3).
AllocatedIsEmpty ==
    [][\A n \in AutoNames :
          db[Given(n)] # db'[Given(n)] =>
              \A m \in Names : StartsWith(m, n) => db'[Content(m)] = None]_vars

\* Once a newer version of the layer is stored no directory is created, moved
\* or removed, also by an operation that had checked the version before
\* (check_version/3): the tree stays as the newer program wants it.
NewerUntouched ==
    [][db[Version] \in {"newer minor", "newer major"} =>
          \A k \in DbKeys : k[1] # "content" => db'[k] = db[k]]_vars

-----------------------------------------------------------------------------
(* Inductive invariants *)

\* Callers ask for no name that the allocator gives.  The layer does not see to
\* it: an automatic name is compared with the nodes in a snapshot, and a manual
\* one before the missing parents get theirs.
NamesDiffer == AutoNames \cap ManualNames = {}

\* A transaction whose commit would succeed.
Valid(p) == tx[p].open /\ tx[p].ok

\* The records and keys that the steps below rely on.
TxShape ==
    /\ DbKeys \subseteq DOMAIN db /\ DOMAIN tx = Clients
    /\ \A p \in Clients : /\ DOMAIN tx[p] = {"reads", "writes", "ok", "open"}
                          /\ tx[p].ok \in BOOLEAN /\ tx[p].open \in BOOLEAN

\* Every transaction has read the version, and found none newer: it could not
\* be committed if there were one by now.
VersionInv ==
    \A p \in Clients : /\ tx[p].open => Version \in tx[p].reads
                       /\ Valid(p) => may_write

\* A transaction with an allocated name has read the content below it, and
\* found none, and writes none.
AllocatedInv ==
    \A p \in Clients, n \in AutoNames, m \in Names :
        Given(n) \in DOMAIN tx[p].writes /\ StartsWith(m, n) =>
            /\ Content(m) \in tx[p].reads /\ Content(m) \notin DOMAIN tx[p].writes
            /\ Valid(p) => db[Content(m)] = None

IInv == TxShape /\ VersionInv /\ AllocatedInv

=============================================================================
