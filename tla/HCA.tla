--------------------------------- MODULE HCA ---------------------------------
(***************************************************************************)
(* The high-contention allocator, src/erlfdb_hca.erl: clients that         *)
(* allocate numbers from one allocator at the same time.  A client calls   *)
(* allocate/2 with a database, and the allocation is a transaction of its  *)
(* own; or with a transaction (nested), as the directory layer does, and   *)
(* may then allocate several numbers before it commits.                    *)
(*                                                                         *)
(* FoundationDB is external.  A transaction reads the database as it was   *)
(* at its read version (snap) with its own writes on top of it, and is     *)
(* committed only if no key it has read, other than by a snapshot read,    *)
(* has been written with a write conflict since then.  Every read of a     *)
(* counter is a snapshot read, so the keys that can conflict are those of  *)
(* the recent candidates.                                                  *)
(***************************************************************************)
EXTENDS Naturals, Sequences, FiniteSets

CONSTANTS Clients,
          Bound1, Bound2,          \* 255 and 65535 in the code
          Size1, Size2, Size3,     \* 64, 1024 and 8192 in the code
          MaxNum,                  \* bound: the largest number of a window
          MaxNested                \* bound: allocations of one transaction

ASSUME HCAAssumption ==
    /\ Bound1 \in Nat /\ Bound2 \in Nat
    /\ Size1 \in Nat \ {0} /\ Size2 \in Nat \ {0} /\ Size3 \in Nat \ {0}
    /\ MaxNum \in Nat /\ MaxNested \in Nat \ {0}

VARIABLES
    counters,    \* the committed counter of each window's start, 0: no key
    recent,      \* the committed candidates
    issued,      \* how often each number was given out, for the properties
    pc,          \* where the client's allocation is
    nested,      \* was it called with a transaction?
    snap,        \* the counters and candidates at its read version
    adds,        \* its additions to the counters
    sets,        \* the candidates it has set
    clears,      \* the keys it has cleared
    reads,       \* its read conflict keys
    writes,      \* its write conflict keys
    since,       \* keys written with a conflict since its read version
    start,       \* the window it is in
    got          \* the numbers allocated for it

dbVars == <<counters, recent, issued>>
txVars == <<nested, snap, adds, sets, clears, reads, writes, since, start, got>>
vars   == <<dbVars, pc, txVars>>

Nums == 0..MaxNum
None == [n \in Nums |-> 0]

window_size(s) ==
    IF s < Bound1 THEN Size1 ELSE IF s < Bound2 THEN Size2 ELSE Size3

Window(s) == s..(s + window_size(s) - 1)

TypeOK ==
    /\ counters \in [Nums -> Nat] /\ recent \subseteq Nums
    /\ issued \in [Nums -> Nat]
    /\ pc \in [Clients -> {"idle", "range", "search", "done"}]
    /\ nested \in [Clients -> BOOLEAN]
    /\ snap \in [Clients -> [counters : [Nums -> Nat], recent : SUBSET Nums]]
    /\ adds \in [Clients -> [Nums -> Nat]]
    /\ sets \in [Clients -> SUBSET Nums] /\ clears \in [Clients -> SUBSET Nums]
    /\ reads \in [Clients -> SUBSET Nums] /\ writes \in [Clients -> SUBSET Nums]
    /\ since \in [Clients -> SUBSET Nums] /\ got \in [Clients -> SUBSET Nums]
    /\ start \in [Clients -> Nums]

Init ==
    /\ counters = None /\ recent = {} /\ issued = None
    /\ pc = [c \in Clients |-> "idle"]
    /\ nested = [c \in Clients |-> FALSE]
    /\ snap = [c \in Clients |-> [counters |-> None, recent |-> {}]]
    /\ adds = [c \in Clients |-> None]
    /\ sets = [c \in Clients |-> {}] /\ clears = [c \in Clients |-> {}]
    /\ reads = [c \in Clients |-> {}] /\ writes = [c \in Clients |-> {}]
    /\ since = [c \in Clients |-> {}]
    /\ start = [c \in Clients |-> 0] /\ got = [c \in Clients |-> {}]

-----------------------------------------------------------------------------
(* What a transaction sees: its snapshot below its own writes *)

\* Mutant: a snapshot read does not see the transaction's own addition.
CountSeen_committed(c, s) == snap[c].counters[s]

CountSeen(c, s) ==
    (IF s \in clears[c] THEN 0 ELSE snap[c].counters[s]) + adds[c][s]

RecentSeen(c) == (snap[c].recent \ clears[c]) \cup sets[c]

\* The last of the counter keys there are, and 0 if there is none.
LastOf(count) ==
    IF \E s \in Nums : count[s] > 0
    THEN CHOOSE s \in Nums :
             count[s] > 0 /\ \A t \in Nums : count[t] > 0 => t <= s
    ELSE 0

\* The reverse read of one counter with {snapshot, true}.
Latest(c) == LastOf([s \in Nums |-> CountSeen(c, s)])

-----------------------------------------------------------------------------
(* allocate/2 *)

\* The transaction is over: nothing of it is left.
Drop(c) ==
    /\ pc' = [pc EXCEPT ![c] = "idle"]
    /\ nested' = [nested EXCEPT ![c] = FALSE]
    /\ snap' = [snap EXCEPT ![c] = [counters |-> None, recent |-> {}]]
    /\ adds' = [adds EXCEPT ![c] = None]
    /\ sets' = [sets EXCEPT ![c] = {}] /\ clears' = [clears EXCEPT ![c] = {}]
    /\ reads' = [reads EXCEPT ![c] = {}] /\ writes' = [writes EXCEPT ![c] = {}]
    /\ start' = [start EXCEPT ![c] = 0] /\ got' = [got EXCEPT ![c] = {}]

\* A transaction, and current_start/2: its first read fixes the read version.
allocate(c) ==
    /\ pc[c] = "idle"
    /\ pc' = [pc EXCEPT ![c] = "range"]
    /\ \E n \in BOOLEAN : nested' = [nested EXCEPT ![c] = n]
    /\ snap' = [snap EXCEPT ![c] = [counters |-> counters, recent |-> recent]]
    /\ start' = [start EXCEPT ![c] = LastOf(counters)]
    /\ UNCHANGED <<dbVars, adds, sets, clears, reads, writes, since, got>>

\* Another allocation in the same transaction.
allocate_nested(c) ==
    /\ pc[c] = "done" /\ nested[c] /\ Cardinality(got[c]) < MaxNested
    /\ pc' = [pc EXCEPT ![c] = "range"]
    /\ start' = [start EXCEPT ![c] = Latest(c)]
    /\ UNCHANGED <<dbVars, nested, snap, adds, sets, clears, reads, writes, since,
                   got>>

\* ERLFDB_RANGE(Prefix, Start) holds the keys that have <<Start>> as a proper
\* prefix: keys are tuples, and those of the allocator have one element.
InRange(key, s) == Len(key) > 1 /\ key[1] = s

Cleared(s) == {n \in Nums : InRange(<<n>>, s)}

\* Mutant: a window is taken until it is counted full.
range_undoubled(c) ==
    LET s     == start[c]
        next  == s + window_size(s)
        count == CountSeen(c, s) + 1
    IN /\ pc[c] = "range"
       /\ adds' = [adds EXCEPT ![c][s] = @ + 1]
       /\ \/ /\ count < window_size(s)
             /\ s + window_size(s) - 1 <= MaxNum     \* bound
             /\ pc' = [pc EXCEPT ![c] = "search"]
             /\ UNCHANGED <<start, clears, sets>>
          \/ /\ ~(count < window_size(s))
             /\ next <= MaxNum                       \* bound
             /\ start' = [start EXCEPT ![c] = next]
             /\ clears' = [clears EXCEPT ![c] = @ \cup Cleared(next)]
             /\ sets' = [sets EXCEPT ![c] = @ \ Cleared(next)]
             /\ UNCHANGED pc
       /\ UNCHANGED <<dbVars, nested, snap, reads, writes, since, got>>

\* One window of range/4: add one to its counter and read it.  The window is
\* taken if less than half of it was counted; otherwise the next window is
\* tried, and clear_previous_window is called with that window's start.
range(c) ==
    LET s     == start[c]
        next  == s + window_size(s)
        count == CountSeen(c, s) + 1
    IN /\ pc[c] = "range"
       /\ adds' = [adds EXCEPT ![c][s] = @ + 1]
       /\ \/ /\ count * 2 < window_size(s)
             /\ s + window_size(s) - 1 <= MaxNum     \* bound
             /\ pc' = [pc EXCEPT ![c] = "search"]
             /\ UNCHANGED <<start, clears, sets>>
          \/ /\ ~(count * 2 < window_size(s))
             /\ next <= MaxNum                       \* bound
             /\ start' = [start EXCEPT ![c] = next]
             /\ clears' = [clears EXCEPT ![c] = @ \cup Cleared(next)]
             /\ sets' = [sets EXCEPT ![c] = @ \ Cleared(next)]
             /\ UNCHANGED pc
       /\ UNCHANGED <<dbVars, nested, snap, reads, writes, since, got>>

\* Mutant: the candidate is read with get_ss.
Probe_snapshot(c, n) ==
    /\ reads' = reads
    /\ sets' = [sets EXCEPT ![c] = @ \cup {n}]

\* The read of a candidate n and its set, which has no write conflict range.
Probe(c, n) ==
    /\ reads' = [reads EXCEPT ![c] = @ \cup {n}]
    /\ sets' = [sets EXCEPT ![c] = @ \cup {n}]

\* The candidate is taken if the window is still the latest and the
\* candidate was not there before.
Free(c, n) == Latest(c) = start[c] /\ n \notin RecentSeen(c)

\* Mutant: add_write_conflict_key is not called.
search_candidate_unconflicted(c, n) ==
    /\ pc[c] = "search" /\ n \in Window(start[c]) /\ Free(c, n)
    /\ Probe(c, n)
    /\ got' = [got EXCEPT ![c] = @ \cup {n}]
    /\ pc' = [pc EXCEPT ![c] = "done"]
    /\ UNCHANGED <<dbVars, nested, snap, adds, clears, writes, since, start>>

search_candidate(c, n) ==
    /\ pc[c] = "search" /\ n \in Window(start[c]) /\ Free(c, n)
    /\ Probe(c, n)
    /\ writes' = [writes EXCEPT ![c] = @ \cup {n}]   \* add_write_conflict_key
    /\ got' = [got EXCEPT ![c] = @ \cup {n}]
    /\ pc' = [pc EXCEPT ![c] = "done"]
    /\ UNCHANGED <<dbVars, nested, snap, adds, clears, since, start>>

\* throw(hca_retry): allocate/2 calls itself.  With a database the transaction
\* is dropped; a nested allocation goes on in the same transaction, which
\* keeps what it has read and written.
hca_retry(c, n) ==
    /\ pc[c] = "search" /\ n \in Window(start[c]) /\ ~Free(c, n)
    /\ \/ /\ nested[c]
          /\ Probe(c, n)
          /\ pc' = [pc EXCEPT ![c] = "range"]
          /\ start' = [start EXCEPT ![c] = Latest(c)]
          /\ UNCHANGED <<nested, snap, adds, clears, writes, since, got>>
       \/ /\ ~nested[c]
          /\ Drop(c) /\ since' = [since EXCEPT ![c] = {}]
    /\ UNCHANGED dbVars

-----------------------------------------------------------------------------
(* The end of the transaction *)

\* The commit: external.  Its result may be unknown to the client.
commit(c) ==
    /\ pc[c] = "done" /\ reads[c] \cap since[c] = {}
    /\ counters' = [s \in Nums |->
           (IF s \in clears[c] THEN 0 ELSE counters[s]) + adds[c][s]]
    /\ recent' = (recent \ clears[c]) \cup sets[c]
    /\ issued' = [n \in Nums |-> IF n \in got[c] THEN issued[n] + 1 ELSE issued[n]]
    /\ since' = [d \in Clients |->
           IF d = c \/ pc[d] = "idle" THEN {} ELSE since[d] \cup writes[c]]
    /\ Drop(c)

\* A conflict, another error or the client's end: nothing is applied, and
\* what do_transaction runs again is a new transaction.
abort(c) ==
    /\ pc[c] # "idle"
    /\ Drop(c) /\ since' = [since EXCEPT ![c] = {}]
    /\ UNCHANGED dbVars

Next == \E c \in Clients :
    \/ allocate(c) \/ allocate_nested(c) \/ range(c)
    \/ \E n \in Nums : search_candidate(c, n) \/ hca_retry(c, n)
    \/ commit(c) \/ abort(c)

Spec == Init /\ [][Next]_vars

-----------------------------------------------------------------------------
(* Properties *)

\* No number is given out twice, whatever transactions overlap: two that
\* pick the same candidate conflict (search_candidate/3, lines 118-139).
GivenOnce == \A n \in Nums : issued[n] <= 1

\* The search ends: less than half of the window that range/4 returns is
\* taken in the eyes of the transaction, however many transactions counted
\* at the same time, so a random candidate is more likely free than not.
RoomLeft ==
    \A c \in Clients : pc[c] = "search" =>
        2 * Cardinality(RecentSeen(c) \cap Window(start[c])) < window_size(start[c])

\* The window of the search is the latest one that the transaction sees, so
\* that the test in search_candidate/3 (line 130) never fails: one read
\* version and the transaction's own additions decide both reads.
WindowIsLatest == \A c \in Clients : pc[c] = "search" => Latest(c) = start[c]

\* The allocator implements its abstract specification.
AbstractAllocator == INSTANCE Allocator

ImplementsAllocator == AbstractAllocator!Spec

=============================================================================
