# A TLA+ development of erlfdb

erlfdb is the Erlang binding of FoundationDB: a NIF library in C around
FoundationDB's client library (`c_src/`), and Erlang modules on top of it
(`src/`). This directory models the parts in which threads, callbacks, messages,
retries, pages and concurrent transactions meet, checks them with TLC and proves
their invariants with TLAPS. Paths below are relative to the repository.

## The system

| Component | State | Operations | Hard part | Module |
|---|---|---|---|---|
| Future resource (`c_src/main.c`, `resources.c`) | reference count, lock, cancelled flag, receiver, environments | create, callback, cancel, silence, get, destructor | the callback runs on the network thread, or on the caller's thread inside another NIF; the last of NIF, callback and collector destroys the resource | Future |
| Waiting (`src/erlfdb.erl`) | the process's mailbox | `wait`, `block_until_ready`, `cancel`, `flush_future_message`, `wait_for_any`, `wait_for_all` | a message sent between the test and the receive, or after the flush | Future, WaitForAny |
| Library lifecycle (`main.c`, `erlfdb_nif:init/0`) | `ErlFDBSt`: lib_state, lock, condition, thread id; the SENTINEL atom | load, select API version, set options, set up the network, unload, halt | the handshake with the network thread; a state that is freed; loads that fail halfway | Lifecycle |
| Transaction (`main.c`, `do_transaction/3`) | read_only, writes_allowed, has_watches, txid; the library's own transaction | reads, writes, watches, options, reset, cancel, commit, on_error | on_error resets the library's transaction and not the fields; messages of futures of failed attempts | Transactional |
| Database, tenant and transaction handles (`main.c`, `resources.c`, `open_with_key/2`) | reference counts, the owner, a persistent term per cluster file and scheduler | open, open_all, create, destructor | get and put are not atomic; allocations that fail | Handles |
| Range fold and iterator | selectors, limit, the page that was asked for | next page, stop | page and limit boundaries, reverse paging, writes in between | Paging, RangeFold |
| `wait_for_all_interleaving`, interleaving `get_range` | the entries that are left, the accumulator | rounds of pages | an entry is known by its first future; entries end in different rounds | Interleaving |
| High-contention allocator | counters and recent candidates in the database | allocate | conflict ranges switched off on purpose | HCA, Allocator |
| Directory layer | the node tree in the database | create, open, list, move, remove | concurrent changes of one path; names that overlap | Directory |
| Tuples, keys, subspaces | none | pack, unpack, compare, range, strinc | encodings that keep the order | Tuple, TupleStore |

A process calls a NIF on a scheduler thread. The NIF calls the client library,
whose futures call `erlfdb_future_cb` back; that sends `{Ref, ready}`, or
`{{TxRef, Ref}, ready}` for a future tied to a transaction, to a process, which
receives it in `wait`. `transactional/2` runs the user's function, commits, and
on an error asks `on_error` whether to run it again, on the same transaction
resource. Everything else in `src/` is built from these: the layers (allocator,
directories) are functions that run in such transactions, against others.

## Modules

**Future** models one future resource and the functions on it. Variables of the
resource: `phase` (not allocated, live, destructor has run), `rc` (its count),
`holders` (processes whose heap has a term), `result`, `cancelled`, `lock`, `cb`
(how far the callback is) with `cbThread`, `pid` (the receiver) and `mail` (ready
messages in its mailbox). Each process has a `pc`, and remembers the function it
called (`op`), the future (`tgt`) and what the call returned (`ret`). An action is
one critical section, one reference-count operation or one call into the client
library. `create_future` stands for everything up to `enif_keep_resource`, when
no other thread knows the resource; the three outcomes of
`fdb_future_set_callback` are three actions. `cancel_fdb_sync` is the callback
made inside `fdb_future_cancel`. `vm` is "crashed" when an uninitialised pointer
was used.

**Lifecycle** models `ErlFDBSt`, `erlfdb_nif:init/0`, the network thread, the
processes that call NIFs and `erlfdb_join`. `init` is the program counter of
`init/0`, with every step of `erlfdb_setup_network` that locks, waits or
assigns; `net` that of the thread; `join` that of `erlfdb_join`. `fdb` is the
client library's network, `sentinel` the atom that outlives the library, and
`selects` counts the calls of `fdb_select_api_version`. `HaltOverlapsNifs` says
whether the VM may halt while a NIF is executing.

**Transactional** models one call of `transactional/2`. The user's function is
any sequence of NIF calls, waits and exceptions, different in every attempt.
`dirty` and `watched` are what the client library's transaction has to commit,
`cancelled` that the user has cancelled it; `applied` and `unknown` are history. A
future is `pending`, `sent` (its message is in the mailbox) or `unused`, and
remembers what it belongs to (`kind`), whether its message carries the
transaction's reference (`tied`) and which attempt created it (`born`). The frames
of `do_transaction` return together, so that its recursion is the counter
`depth`. What `wait/2` leaves behind when it returns (`Waited`) or raises
(`WaitRaised`) is what Future shows of it.

**WaitForAny** models the receive loop of `wait_for_any/2` with its queue of
messages set aside. `MsgKey` is the key in the message, `TermKey` the one in the
future's term.

**Handles** models the database, tenant and transaction resources: `kind`, `rc`,
`destroys` (how often the library object was destroyed) and who refers to each
(`held` by a process, `pool` by a persistent term, `tied` by a future's message).
A NIF that creates a handle is one action with its allocation failure as an
alternative. `open_with_key/2` is three: it looks (`get_found`, `get_undefined`),
creates and puts; a process may be killed between them. `open_all/2` does so for
every scheduler.

**Paging** holds what a page is and how to go to the next one: the selectors of
`erlfdb_key` and their `or_equal` and `offset` (`c_src/util.c`), how FoundationDB
resolves them, the pages it may answer with (`Pages`: any non-empty part of the
first rows, `more` whenever rows are left, and possibly when none is), and
`Recurse`, `Rows` and `NextSt` of `handle_fold_st_result/2`. The selectors
`{Key, false, N}` and `{Key, true, N}` of `util.c` are `lt` and `lteq` with an
offset. The iterator's `next_state/3` computes the same as `NextSt`: its
`max(0, Limit - Count)` is only reached with `Limit = 0` or `Limit > Count`.
**RangeFold** reads one range to its end with it, as a fold (the user's function
runs before the next page is asked for) or as an iterator (the next page is asked
for first), while the user writes keys. **Interleaving** reads several ranges in
rounds: `sts` are the entries that are left, `ffs` the pages of this round still to
be waited for, `acc` the accumulator tuple. **ReadCalls** composes RangeFold,
Interleaving and WaitForAny: a process makes one of these calls, the first two on
the same keys of one transaction, and the properties of all three are checked of it.

**HCA** models `erlfdb_hca`. A client has the database as it was at its read
version (`snap`) below its own additions, sets and clears; `reads` and `writes` are
its conflict keys, `since` what others have committed since. A call with a database
is one transaction; a call with a transaction (`nested`) allocates several numbers
in it. **Allocator** is the abstract specification: a set of clients' commits that
each give out numbers never given out before. Two things are seen in the model:
`clear_previous_window/3` clears nothing, because `ERLFDB_RANGE(Prefix, Start)` is
the range of the keys longer than `<<Start>>`; and the retry for a window that is
no longer the latest (line 131) is never taken (`WindowIsLatest`).

**Directory** models the node tree as a map from keys to values: a parent's entry
for a name, a node's layer, its content, the allocator's candidates and the layer's
version. An operation reads the tree in one step, which gives its writes and the
keys that it read, and commits in another if none of these was written meanwhile.
Operations that raise leave no trace and are not actions; operations that only
read are one action. Names are sequences of digits, so that one can be a prefix of
another, and are taken from outside the node prefix, where the tree's own keys are: of
names inside it the layer refuses those that begin with the root's id (line 662), and
what the others would do is not modelled. `upgrade` is a program with a newer layer that stores its version, and
`set_outside` one that uses a prefix which the allocator has not given yet.

**Tuple** holds `encode`, `decode`, `compare`, `range`, `pack_vs` and `strinc` with a
small alphabet: `ESCAPE` is the largest byte, and integers of more than `MaxFixed`
bytes have a size byte. The functions of the code that call themselves are recursive
functions over what they take apart (`encode` over elements, `dec_null_terminated` over
strings, `decode` over the number of bytes), each with an operator for one step
(`encode_elem`, `null_terminated`, `decode_elems`) that has the function's clauses.
`Elems` are the terms that `encode/2` takes, nested up to `MaxDepth`. **TupleStore**
keeps tuples in a database under their packed keys.

The **MC** modules give TLC its sets and symmetries. **FutureProofs**,
**LifecycleProofs**, **TransactionalProofs**, **HandlesProofs**, **ReadCallsProofs**
(with RangeFold), **HCAProofs**, **DirectoryProofs** and **TupleStoreProofs** hold the
theorems.

Operators whose comment begins with "Mutant" are plausible mistakes in the code
that a definition after them stands for; no specification uses them, and each
breaks one property.

### What is assumed of the outside

- The client library resolves a future at any moment. A callback runs once, on
  the library's thread, inside `fdb_future_set_callback` if the future is ready
  then, or inside `fdb_future_cancel`; `fdb_future_set_callback` that fails has not
  called back (as the comment in `erlfdb_create_future` assumes).
- A collector drops a term only between calls that use it; a process exits
  between NIF calls.
- `fdb_transaction_on_error` of an error that can be retried resets the
  transaction, and calls back the outstanding futures of the transaction before
  its own future. Without this the flush of `do_transaction` could miss a message.
- The runtime calls `erlfdb_join` once for a loaded library, unloads a module only
  when no process executes it, and begins no NIF call after the halt began.
- `erlfdb_load` is atomic: until it returns the library has no other user.
- FoundationDB's transactions are strictly serialisable up to the conflict ranges
  that the code removes: a transaction reads at one version with its own writes on
  top, a snapshot read adds no conflict, and a commit fails if a key that was read
  was written, with a conflict, since then.
- A range read returns a non-empty prefix of the rows that are left, if there are
  any, and sees the writes made before it was issued.

## Runs

| Run | Bounds | Shows |
|---|---|---|
| `future` | 1 future, 2 processes, allocation may fail | `RefCountExact`, `NoUseAfterFree`, `PidEnvValid`, `QuietAfterReturn`; `CancelReturns`, `WaitReturns`, `Reclaimed` |
| `future_block` | as above, no failing allocation | finding: `BlockReturnsWhenReady` is violated |
| `future_alloc` | as above | finding: `AllocationFailureHandled` is violated |
| `lifecycle_load` | 3 clients, 3 loads, halt between NIFs | `IInv`, `StateNotFreed`, `JoinedBeforeTermination`, `StateMovesForward`, `InitReturns`, `JoinReturns` |
| `lifecycle_halt` | 1 client, 1 load, halt any time | finding: `JoinedBeforeTermination` is violated |
| `transactional` | 3 futures, 2 retries, ids up to 1 | `CommittedOnReturn`, `DisallowedMeansNone`, `AppliedOnceIfKnown`, `FlushedAfterRetry`, `FlushKeepsUntied` |
| `read_calls` | 4 keys, limits to 2, every kind of selector, 1 written key; two ranges around a plain future, split points; 2 candidates without transaction and 2 other futures | `NoRowTwice`, `NoRowSkipped`, `SameAsOneRead`, `Ends`; `ResultsMatch`, `SplitExact`, `Returns`; `NoMessageLost`, `AnyReturns` |
| `wait_for_any_tied` | 2 candidates of a transaction | finding: `AnyReturns` is violated |
| `handles` | 3 handles, 2 processes, 2 schedulers, 1 future | `NoUseAfterDestroy`, `NothingLeaked`, `OpenAllFills` |
| `hca` | 2 clients, windows of 5 and 3 numbers up to 8, 2 nested allocations | `GivenOnce`, `RoomLeft`, `WindowIsLatest`, `ImplementsAllocator` |
| `directory` | 2 clients, 1 of which writes, paths of 2 names, 1 automatic name, 2 manual ones, all three of which overlap | `IsTree`, `OverlapsOnlyGiven`, `AllocatedIsEmpty`, `NewerUntouched` |
| `tuple_store` | bytes 0..17, integers to 4 bytes, nesting to 2, 2 keys at a time | `KeysAreTuples`, `OrderKept` |

Type correctness is part of one invariant of most modules (`NoRowTwice`,
`ResultsMatch`, `NoMessageLost`, `NoUseAfterDestroy`, `IsTree`, `KeysAreTuples`) and of
`IInv` in Lifecycle; for Future, Transactional and HCA it is a theorem.

Futures share no state, so one future shows every interleaving of its own; two
processes give a creator and a receiver that is another process (watches), or one
that cancels or shares what the other waits for. The safety invariants are proved
for any number of processes. Three loads are a first load, one after it and one
after a failed one. Two retries give an attempt of Depth 0, which flushes, one
that is a tail call and one whose futures belong to the last attempt; three
futures are a foregone one, a current one and the commit. `Room` keeps one future
for the commit. `TxIdLimit` is 65535 in the code; the counter's boundary does not
depend on it, and the proofs hold for every value.

Three handles are two databases for one key and a tenant or transaction. Four keys
give three pages with a full, a partial and an empty one; a limit of two is reached
by the first page, exactly by the second, or not at all. In the allocator two
windows are filled by two clients, so that a third is begun; the numbers of the code
(64, 1024, 8192) only change how long that takes. Two transactions are all that a
conflict needs, and paths of two names give a parent that is moved or removed below
a child that is created. The automatic name continues one manual name and begins the
other, so that every pair overlaps: two manual names that race, and an automatic one
with a manual one, by a race or as the parent that one call creates with its child.
At most two directories exist at a time, enough for two moves that would make a cycle
and for a node that is removed under a change; the proofs hold for any number. In
Tuple, sizes of one to four bytes around `MaxFixed = 2` are the code's one to nine
and more around eight, and tuples nested `MaxDepth = 2` deep have an end inside an end;
the proofs hold for every depth and every `MaxFixed`.

Deadlock is not checked where the system may stop: all processes may have exited,
the VM may have halted, a call may have returned or raised, or all numbers or names
of the bounded model be used up. TupleStore never stops, and is checked.

**Fairness.** Future: the library resolves every future and calls it back (its
contract), a thread inside a NIF or a callback runs on (operating system), and a
thread that contends for a future's lock gets it some day (strong fairness: others
may take it in between). Lifecycle: the same for `init/0`, the network thread and
`erlfdb_join`; `init/0` sets finitely many options, hence strong fairness of leaving
that loop. WaitForAny: every future is resolved, and a process whose mailbox has
a message goes on. RangeFold and Interleaving: the calling process runs on, each
page comes in, and the user's function returns; the number of pages is not
assumed to be bounded. Nothing is assumed of the calls that users make.

## Findings

1. `erlfdb_create_future` releases the resource when `enif_alloc_env` fails, before
   `f->lock` is assigned; the destructor reads that pointer (`future_alloc`).
2. `block_until_ready/1` does not test whether the future is ready, and waits forever
   for one whose message was taken or suppressed (`future_block`).
3. A halt while `erlfdb_setup_network` is executing frees the state and ends with
   the network thread not joined (`lifecycle_halt`).
4. `wait_for_any/2` never finds a future of a transaction (`wait_for_any_tied`),
   the case of its own example: the message's key is a pair.

`PROJECT.json` quotes the text each of them contradicts. Other things were seen while
modelling, and no run states them:

- `transactional/2` flushes the messages of earlier attempts when it returns, and not
  when it raises in a retry: they stay in the caller's mailbox, although CHANGELOG.md
  (v0.2.2) says that they are flushed before control is returned to the caller.
- `wait_for_all_interleaving` finds the state of an entry by its first future. With
  one range future twice in the list both entries are found as the first of the two,
  and their rows are mixed up; the run's lists have different futures.
- Two processes that call `open/2` at once both find no database and create two for
  one key. Both stay usable as long as they are held (`NoUseAfterDestroy`), and the
  one that was replaced is destroyed with its last reference (`NothingLeaked`).
- `erlfdb_directory:create/4` can accept an automatic name and a manual name that
  overlap, in two ways. In one call with a `node_name` the manual name is compared with
  the tree (line 485) before the missing parents get automatic names (line 487). And an
  automatic name is compared in a snapshot (line 614), so that a manual name committed
  meanwhile is no conflict. Removing one of the two directories then clears the other's
  content, which the comment at lines 645-648 says that `is_prefix_free/3` is there to
  prevent: TLC refutes `ContentSafe` on the instance of the run `directory`.
  `OverlapsOnlyGiven` says that this is the only way for names to overlap, and
  `ContentKept` that nothing is lost where it does not happen, as with a content prefix
  that manual names keep away from.
- In the same two ways a manual name can be accepted that is equal to an automatic
  one. The two directories are then one node: it has two entries, or, as parent and
  child of one call, is its own parent. `IsTree` fails, so that the run and the theorems
  assume `NamesDiffer`: callers ask for no name that the allocator gives.
- The interleaving `get_range/4` passes `limit` and `reverse` unchanged to every part of
  the range, so that its result is not the one of the plain call with these options;
  `SplitExact` is about calls without them.
- `handle_stop/1` cancels without `flush`, so that a ready message that has already
  arrived stays.

## Theorems

Invariants are of the form `Spec => []Inv` for every value of the constants, with
the module's `ASSUME` only; the ones of LifecycleProofs also assume
`~HaltOverlapsNifs`, without which `lifecycle_halt` refutes them,
`ResultsInPlace` assumes `DistinctFutures`, and `TreeKept`, `OverlapsGiven` and
`ContentKept` assume `NamesDiffer` (see Findings).

- **Future** (any set of futures, any finite set of processes). `RefCountExact` is
  not inductive alone: that a release may free needs to know who holds the other
  references. `IInv` adds `PhaseInv` (memory is there exactly while the count is
  positive, and nothing refers to a future before it is allocated), `CallInv` (a
  process inside a call holds a term; one creator at most, and no other term
  while it works), `LockInv` (who holds the lock), `CallbackInv` (a callback on a
  scheduler thread is inside its creator's call, or inside a cancel that has set
  the flag) and `ReceivedInv`. `Step_*` lemmas show that each action preserves it;
  the reference count's sum is handled by `RefSame`, `RefFacts` and `HoldersCard`.
  From it: `TypeCorrect`, `ReferenceCount`, `UseAfterFree`, `PidEnv`, `Quiet`,
  `OneMessage`.
- **Lifecycle** (any clients, any number of loads). `IInv` relates `init`, `net`,
  `lib_state`, `fdb` and `join` (`HandshakeInv`, `JoinInv`), the sentinel and the
  one initialisation (`SentinelInv`), the state's memory (`PrivInv`) and the lock.
  From it: `StateSafe`, `ThreadJoined`, `AssertionsHold`, `Once`, `CallsSafe`, and the
  action property `MovesForward`: where `init/0` and the network thread both assign
  `lib_state`, the handshake tells how far the other is.
- **Transactional** (any futures, any number of retries). `IInv` adds to the
  properties `AppliedInv` (each attempt applies once at most), `IdleInv` and
  `FutureInv` (tied futures of earlier attempts have been called back). From it:
  `TypeCorrect`, `FlagsCover`, `Committed`, `Disallowed`, `AppliedOnce`, `Flushed`,
  and the action property `FlushKeeps`.
- **HCA** (any clients, window sizes and bounds). `GivenOnce` needs to know why a
  number that a transaction has got cannot have been committed by another: every
  number given out is among the committed candidates, and each number that a
  transaction has got is one of its read and its write conflict keys, and was
  either not a candidate in the database until now or is in `since`. From it:
  `TypeCorrect`, `Unique`, `LatestWindow`, and `Refinement`: every step of HCA is a
  step of Allocator or leaves its state alone. `SearchHasRoom` has an invariant of its
  own, `RoomInv`: only starts of windows are counted, each at least as often as its
  window has candidates, in the database, in every snapshot and in a transaction's own
  writes; it rests on `StartsApart`, that no start lies inside another one's window.
- **Handles** (any handles, any finite sets of processes and futures, any number of
  schedulers). The count
  of a handle is a sum over the kinds of references, so that each `Step_*` lemma says
  which reference it adds or drops. `OpenInv` and `MadeInv` relate where a process is
  in `open_with_key/2` to what it holds and to the pool, with other processes putting
  their databases at the same time. From it: `UseSafe`, `LeakFree`, `PoolFilled`.
- **RangeFold** (any number of keys, any selectors, limits and pages). `LeftInv` says
  what the next page will be read from: the rows of the range that lie beyond all the
  keys that were returned, whatever was written meanwhile; `OrderInv` that what was
  returned lies before it, `LimitInv` how much of the limit is left, and `ExactInv`
  that without writes the two parts make up the range. From it: `OnceEach`,
  `NoneSkipped`, `PagesAreOneRead`.
- **ReadCalls** (any lists of ranges and futures, split points and mailboxes).
  `RangeRefined`: its steps are steps of RangeFold or leave that part alone, so that
  the theorems above hold of it (`RangeReads`). `AnyLosesNone`: a message is counted
  in the mailbox and in the queue of those set aside. The invariant of Interleaving
  (`ReadInvariance`) ties every entry that is left and every page under way to its
  place in the list (`Tagged`), and the accumulator there to the rows already read
  (`Partial`, as `LeftInv` above); from it: `ResultsInPlace` and `SplitReads`.
- **Directory** (any clients, paths and names). `VersionInv` and `AllocatedInv` say
  what a transaction that can still commit rests on: it has read the version and the
  content below its allocated names, and finds there now what it found then. From it
  the action properties `NewerKept` and `StartsEmpty`.

  `IsTree` needs two strengthenings. `Tree(db)` states it in a form that a step can
  be checked against: entries lead from nodes to nodes (`Entered`, `Kept`), one to each
  (`Single`), and every set that has the root and is closed under children has all
  nodes (`Reached`), which takes the place of the levels that `Subtree` counts
  (`SubtreeLeast`). `TreeInv` adds that each transaction which can still commit is an
  `Operation` on the tree as it is now: its path leads along the entries that the
  database has (`Found`), its new names are unused, and what it removes is a whole
  subtree. Such a statement speaks only of keys that the transaction has read, so it
  stays true until one of them is written (`OperationStays`). What is left is a
  theorem of each kind of commit (`CreatesTree`, `MovesTree`, `RemovesTree`); that a
  move cannot make a cycle is `NotBelow`: in a tree there is one path to a node
  (`OnePath`), so that a parent below the moved node has a path which continues the
  old one, and `check_not_subpath/2` refuses that. From it: `TreeKept`.

  `OverlapsGiven` says what a step does to names that do not overlap (`NoOverlap`): they
  stay so, if it gives no automatic name that overlaps with a manual one of the tree
  (`GivesApart`). Two automatic names never overlap, by `DirectoryAssumption`, and of the
  new names of one call one at most is manual. What is left is a manual name and the
  nodes that its transaction has read. The layer
  reads one node below a new manual name and the nodes that continue it; `PrefixRead`
  shows that this is enough: names are totally ordered, and what lies between a name
  and a continuation of it continues it too (`Between`), so that an overlapping node
  is the last one before the new name or overlaps with that one already. `ContentKept`
  follows for every behaviour whose steps are `GivesApart`: a node whose content is
  cleared continues the name of a node that is removed, and so is that node.

- **Tuple** and **TupleStore** (any `MaxFixed` and `StampLen`, tuples of any length,
  nested to any depth). What matters is a theorem about all tuples:
  - `Unpacked`: `unpack/1` undoes `pack/1`. `Back` says what is needed of an element:
    decoding its encoding followed by other bytes gives the element, and then what those
    bytes give. The other bytes must not begin with 16#FF (`Conts`), or the zero byte
    that ends a string or a nested tuple would be read as an escaped one; encodings
    never begin with it (`EncodeBegins`), so that elements can follow each other.
  - `PackOrder`: `compare/2` is the order of the keys. An element's encoding decides the
    order of two keys whatever follows in each (`Sorted`, `InOrder`), as long as no
    end is followed by 16#FF. For integers this needs the sizes (`IntOrder`,
    `InvertedOrder`), for strings that the end is before every byte (`Ends`), and for
    nested tuples that it is before every element, which is why a nested null is escaped
    (`EncodeEnds`).
  - `RangeExact` and `StrincExact`: `range/1` cuts off exactly the longer tuples, and
    `strinc/1` exactly the keys with a prefix.
  - `StampedKey`: the position of `pack_vs/1` is that of the stamp. `Fills` says of a
    string, the positions found in it and the string with the stamp that they belong
    together, and is kept when strings are joined (`FillsJoined`): positions in the
    second one are moved by the length of the first, and never overlap with those there.

  The store's invariant `PackedInv` says that the keys are the packed tuples; it is
  kept by `set` as it stands, by the clears with `RangeExact` and `StrincExact`, and by
  `set_versionstamped_key` with `StampedKey`. From it: `TupleStoreKeys` (with `Unpacked`)
  and `TupleStoreOrder` (with `PackOrder`).

Induction is done with sets of numbers that have 0 and every successor
(`SetInduction`), which rests on the least number of a set (`LeastOf`); it is enough
for the recursive functions of Directory (`WalkLeads`, `GrowsExists`). Tuple has the
same for strings, sequences and elements (`StrInduction`, `SeqInduction`,
`ElemInduction`), and `Recursion`: an equation `f = F[f]` has a solution, if `F` at a
place needs `f` only at places of smaller rank. The rank of an element is its depth.

Every invariant and every action property of the passing runs is stated by a theorem.
Only model-checked: the liveness properties (`CancelReturns`, `WaitReturns`,
`Reclaimed`, `InitReturns`, `JoinReturns`, `Ends`, `Returns`, `AnyReturns`), since
fairness and ENABLED are beyond the prover.

## Not modelled

- Partitions of the directory layer, and several operations in one transaction of
  the caller: a partition is another root with its own prefix, and the second needs
  the transaction's own writes under every read of the tree.
- Floats and doubles in tuples, `erlfdb_float`: bit patterns without state.
- Integers of `id64` and versionstamps that do not fit 64 or 16 bits: ids and stamps are
  sequences of bytes in Tuple, so that `encode/2` cutting such an integer off without an
  error (`erlfdb_tuple.erl:351-358`), where `compare/2` and the keys disagree, is outside
  the model.
- `erlfdb_tenant_management`: each function is one read or write of the special key
  space, whose semantics are FoundationDB's.
- `erlfdb_network_options`: a merge of property lists, whose result is a choice of
  `erlfdb_network_set_option` in Lifecycle.
- `erlfdb_util` and `erlfdb_sandbox` (they start a test cluster), the option and atom
  tables, the bindings tester and the notebooks.
