------------------------------ MODULE HCAProofs ------------------------------
(***************************************************************************)
(* The allocator gives no number out twice, for any number of clients and  *)
(* any window sizes.                                                       *)
(*                                                                         *)
(* The argument: a number given out is marked in recent; a transaction     *)
(* that took it for free does not have it in its snapshot, so it was given *)
(* out after the read version, by a commit that wrote it with a conflict;  *)
(* the transaction has read it with a conflict and is not committed.       *)
(***************************************************************************)
EXTENDS HCA, FiniteSetTheorems, TLAPS

\* The committed counters are all 0, or there is a last one.
HasLast(count) ==
    \/ \A s \in Nums : count[s] = 0
    \/ \E s \in Nums : /\ count[s] > 0
                       /\ \A t \in Nums : count[t] > 0 => t <= s

Marked == \A n \in Nums : issued[n] > 0 => n \in recent

\* What c has been given was free at its read version, and conflicts.
GotFree(c) ==
    /\ got[c] \subseteq reads[c] \cap writes[c] \cap sets[c]
    /\ got[c] \cap snap[c].recent = {}

\* Numbers given out since c's read version conflict with its reads.
SinceComplete(c) ==
    pc[c] # "idle" =>
        \A n \in Nums : issued[n] > 0 => n \in snap[c].recent \/ n \in since[c]

\* c has counted in its window and in none after it.
Counted(c) ==
    /\ pc[c] # "idle" => \A t \in Nums : CountSeen(c, t) > 0 => t <= start[c]
    /\ pc[c] \in {"search", "done"} => adds[c][start[c]] > 0

\* No transaction, nothing counted and nothing given.
IdleEmpty(c) == pc[c] = "idle" => adds[c] = None /\ got[c] = {}

Client(c) ==
    /\ clears[c] = {}
    /\ IdleEmpty(c) /\ GotFree(c) /\ SinceComplete(c) /\ Counted(c)

IInv ==
    /\ TypeOK
    /\ GivenOnce
    /\ Marked
    /\ HasLast(counters)
    /\ \A c \in Clients : Client(c)

-----------------------------------------------------------------------------
(* Lemmas about the operators *)

\* A window has at least one number.
LEMMA WindowSize == ASSUME NEW s \in Nat PROVE window_size(s) \in Nat \ {0}
BY HCAAssumption DEF window_size

\* clear_previous_window clears none of the allocator's keys.
LEMMA NothingCleared == ASSUME NEW s PROVE Cleared(s) = {}
BY DEF Cleared, InRange

\* LastOf is the last counter.
LEMMA LastOfLast ==
    ASSUME NEW f \in [Nums -> Nat], HasLast(f)
    PROVE  /\ LastOf(f) \in Nums
           /\ \A t \in Nums : f[t] > 0 => t <= LastOf(f)
<1>1. CASE \A s \in Nums : f[s] = 0
  BY <1>1, HCAAssumption DEF LastOf, Nums
<1>2. CASE \E s \in Nums : f[s] > 0 /\ \A t \in Nums : f[t] > 0 => t <= s
  <2> DEFINE m == CHOOSE s \in Nums :
                      f[s] > 0 /\ \A t \in Nums : f[t] > 0 => t <= s
  <2>1. m \in Nums /\ f[m] > 0 /\ \A t \in Nums : f[t] > 0 => t <= m
    BY <1>2
  <2>2. LastOf(f) = m
    BY <1>2 DEF LastOf
  <2> QED BY <2>1, <2>2
<1> QED BY <1>1, <1>2 DEF HasLast

\* A transaction that has counted in its window sees it as the latest.
LEMMA LatestIsStart ==
    ASSUME TypeOK, NEW c \in Clients, Client(c), pc[c] \in {"search", "done"}
    PROVE  Latest(c) = start[c]
<1> DEFINE f == [s \in Nums |-> CountSeen(c, s)]
<1>1. start[c] \in Nums /\ f[start[c]] > 0
  <2>1. start[c] \in Nums /\ adds[c] \in [Nums -> Nat]
        /\ snap[c].counters \in [Nums -> Nat]
    BY DEF TypeOK
  <2>2. adds[c][start[c]] > 0 /\ clears[c] = {}
    BY DEF Client, Counted
  <2> QED BY <2>1, <2>2 DEF CountSeen
<1>2. \A t \in Nums : f[t] > 0 => t <= start[c]
  BY DEF Client, Counted
<1>3. \A m \in Nums : (f[m] > 0 /\ \A t \in Nums : f[t] > 0 => t <= m)
                        => m = start[c]
  BY <1>1, <1>2 DEF Nums
<1>4. LastOf(f) = start[c]
  <2> HIDE DEF f
  <2> QED BY <1>1, <1>2, <1>3 DEF LastOf
<1> QED BY <1>4 DEF Latest

-----------------------------------------------------------------------------
(* The invariant holds initially and every action keeps it *)

\* Nothing of transaction d changes.
Same(d) ==
    /\ pc'[d] = pc[d] /\ snap'[d] = snap[d] /\ adds'[d] = adds[d]
    /\ sets'[d] = sets[d] /\ clears'[d] = clears[d] /\ reads'[d] = reads[d]
    /\ writes'[d] = writes[d] /\ since'[d] = since[d] /\ start'[d] = start[d]
    /\ got'[d] = got[d]

\* A transaction that no step touches keeps its part of the invariant.
LEMMA Frame ==
    ASSUME NEW d \in Clients, Client(d), Same(d), UNCHANGED issued
    PROVE  Client(d)'
<1>1. \A s : CountSeen(d, s)' = CountSeen(d, s)
  BY DEF Same, CountSeen
<1>2. Counted(d)'
  BY <1>1 DEF Same, Client, Counted
<1>3. clears'[d] = {} /\ IdleEmpty(d)' /\ GotFree(d)' /\ SinceComplete(d)'
  BY DEF Same, Client, IdleEmpty, GotFree, SinceComplete
<1> QED BY <1>2, <1>3 DEF Client

\* A step of c that leaves the database alone keeps the invariant if it keeps
\* the types and c's part.
LEMMA Local ==
    ASSUME IInv, NEW c \in Clients, UNCHANGED dbVars, TypeOK', Client(c)',
           \A d \in Clients \ {c} : Same(d)
    PROVE  IInv'
<1>1. \A d \in Clients : Client(d)'
  BY Frame DEF IInv, dbVars
<1>2. GivenOnce' /\ Marked' /\ HasLast(counters)'
  BY DEF IInv, dbVars, GivenOnce, Marked, HasLast
<1> QED BY <1>1, <1>2 DEF IInv

\* No number is given out in the beginning.
LEMMA InitInv == Init => IInv
<1> SUFFICES ASSUME Init PROVE IInv
  OBVIOUS
<1> USE DEF Init
<1>1. None \in [Nums -> Nat] /\ \A n \in Nums : None[n] = 0
  BY DEF None
<1>2. 0 \in Nums
  BY HCAAssumption DEF Nums
<1>3. TypeOK
  BY <1>1, <1>2 DEF TypeOK
<1>4. GivenOnce /\ Marked /\ HasLast(counters)
  BY <1>1 DEF GivenOnce, Marked, HasLast
<1>5. ASSUME NEW c \in Clients PROVE Client(c)
  BY DEF Client, IdleEmpty, GotFree, SinceComplete, Counted
<1> QED BY <1>3, <1>4, <1>5 DEF IInv

\* Dropping a transaction keeps its part of the invariant.
LEMMA Dropped ==
    ASSUME TypeOK, NEW c \in Clients, Drop(c)
    PROVE  /\ Client(c)'
           /\ \A d \in Clients \ {c} :
                  since'[d] = since[d] => Same(d)
           /\ since' \in [Clients -> SUBSET Nums] /\ UNCHANGED dbVars => TypeOK'
<1>1. None \in [Nums -> Nat] /\ 0 \in Nums
  BY HCAAssumption DEF None, Nums
<1>2. Client(c)'
  BY DEF TypeOK, Drop, Client, IdleEmpty, GotFree, SinceComplete, Counted
<1>3. \A d \in Clients \ {c} : since'[d] = since[d] => Same(d)
  BY DEF TypeOK, Drop, Same
<1>4. ASSUME since' \in [Clients -> SUBSET Nums], UNCHANGED dbVars
      PROVE  TypeOK'
  BY <1>1, <1>4 DEF TypeOK, Drop, dbVars
<1> QED BY <1>2, <1>3, <1>4

\* allocate/2 begins its own transaction.
LEMMA AllocateInv ==
    ASSUME IInv, NEW c \in Clients, allocate(c) PROVE IInv'
<1> USE DEF IInv
<1>1. /\ LastOf(counters) \in Nums
      /\ \A t \in Nums : counters[t] > 0 => t <= LastOf(counters)
  BY LastOfLast DEF TypeOK
<1>2. TypeOK'
  BY <1>1 DEF TypeOK, allocate, dbVars
<1>3. \A d \in Clients \ {c} : Same(d)
  BY DEF TypeOK, allocate, Same
<1>4. Client(c)'
  <2>1. /\ clears'[c] = {} /\ adds'[c] = None /\ pc'[c] = "range" 
        /\ start'[c] = LastOf(counters) /\ snap'[c].counters = counters
        /\ snap'[c].recent = recent /\ issued' = issued
        /\ got'[c] = got[c] /\ reads'[c] = reads[c] /\ writes'[c] = writes[c]
        /\ sets'[c] = sets[c]
    BY DEF TypeOK, allocate, Client, IdleEmpty, dbVars
  <2>2. got[c] = {}
    BY DEF allocate, Client, IdleEmpty
  <2>3. Counted(c)'
    BY <1>1, <2>1 DEF Counted, CountSeen, None, TypeOK
  <2>4. IdleEmpty(c)'
    BY <2>1 DEF IdleEmpty
  <2>5. GotFree(c)' /\ SinceComplete(c)'
    BY <2>1, <2>2 DEF GotFree, SinceComplete, Marked, Client
  <2> QED BY <2>1, <2>3, <2>4, <2>5 DEF Client
<1>5. UNCHANGED dbVars
  BY DEF allocate
<1> QED BY Local, <1>2, <1>3, <1>4, <1>5

\* allocate/2 goes on in the caller's transaction.
LEMMA AllocateNestedInv ==
    ASSUME IInv, NEW c \in Clients, allocate_nested(c) PROVE IInv'
<1> USE DEF IInv
<1>1. Latest(c) = start[c]
  BY LatestIsStart DEF allocate_nested
<1>2. TypeOK' /\ UNCHANGED dbVars
  BY <1>1 DEF TypeOK, allocate_nested, dbVars
<1>3. \A d \in Clients \ {c} : Same(d)
  BY DEF TypeOK, allocate_nested, Same
<1>4. Client(c)'
  <2>1. start'[c] = start[c] /\ pc'[c] = "range" /\ pc[c] = "done"
    BY <1>1 DEF TypeOK, allocate_nested
  <2>2. UNCHANGED <<issued, snap, adds, sets, clears, reads, writes, since, got>>
    BY DEF allocate_nested, dbVars
  <2> QED BY <2>1, <2>2 DEF Client, IdleEmpty, GotFree, SinceComplete, Counted,
                            CountSeen
<1> QED BY Local, <1>2, <1>3, <1>4

\* range/2 finds the window or begins the next.
LEMMA RangeInv == ASSUME IInv, NEW c \in Clients, range(c) PROVE IInv'
<1> USE DEF IInv
<1> DEFINE s == start[c]
           next == s + window_size(s)
<1>1. s \in Nat /\ window_size(s) \in Nat \ {0} /\ s <= next /\ next \in Nat
  <2>1. s \in Nums /\ s \in Nat
    BY DEF TypeOK, Nums
  <2>2. window_size(s) \in Nat \ {0}
    BY <2>1, WindowSize
  <2> QED BY <2>1, <2>2
<1>2. UNCHANGED <<dbVars, nested, snap, reads, writes, since, got>>
  BY DEF range
<1>3. adds' = [adds EXCEPT ![c][s] = @ + 1] /\ pc[c] = "range"
  BY DEF range
<1>4. clears' = clears /\ sets' = sets
  <2>1. Cleared(next) = {}
    BY NothingCleared
  <2>2. [clears EXCEPT ![c] = @ \cup {}] = clears /\ [sets EXCEPT ![c] = @ \ {}] = sets
    BY DEF TypeOK
  <2> QED BY <2>1, <2>2 DEF range
<1>5. \/ pc' = [pc EXCEPT ![c] = "search"] /\ start' = start
      \/ /\ next <= MaxNum /\ start' = [start EXCEPT ![c] = next]
         /\ pc' = pc
  BY DEF range
<1>6. TypeOK'
  <2>1. start' \in [Clients -> Nums]
    <3>1. next <= MaxNum => next \in Nums
      BY <1>1, HCAAssumption DEF Nums
    <3> HIDE DEF next
    <3> QED BY <3>1, <1>5 DEF TypeOK
  <2>2. adds' \in [Clients -> [Nums -> Nat]]
    BY <1>3 DEF TypeOK
  <2> QED BY <2>1, <2>2, <1>2, <1>4, <1>5 DEF TypeOK, dbVars
<1>7. \A d \in Clients \ {c} : Same(d)
  BY <1>2, <1>3, <1>4, <1>5 DEF TypeOK, Same
<1>8. Client(c)'
  <2>1. clears'[c] = {} /\ IdleEmpty(c)' /\ GotFree(c)' /\ SinceComplete(c)'
    BY <1>2, <1>3, <1>4, <1>5 DEF Client, IdleEmpty, GotFree, SinceComplete,
                                  dbVars, TypeOK
  <2>2. /\ adds[c] \in [Nums -> Nat] /\ s \in Nums /\ start' \in [Clients -> Nums]
        /\ snap[c].counters \in [Nums -> Nat]
    BY <1>6 DEF TypeOK
  <2>3. /\ adds'[c] = [adds[c] EXCEPT ![s] = @ + 1] /\ adds[c][s] \in Nat
        /\ pc'[c] \in {"range", "search"} /\ s <= start'[c]
        /\ pc'[c] = "search" => start'[c] = s
    <3>1. adds'[c] = [adds[c] EXCEPT ![s] = @ + 1] /\ adds[c][s] \in Nat
      BY <1>3, <2>2 DEF TypeOK
    <3>2. CASE pc' = [pc EXCEPT ![c] = "search"] /\ start' = start
      BY <3>1, <3>2, <1>1 DEF TypeOK
    <3>3. CASE start' = [start EXCEPT ![c] = next] /\ pc' = pc
      <4> HIDE DEF next
      <4> QED BY <3>1, <3>3, <1>1, <1>3 DEF TypeOK
    <3> QED BY <3>2, <3>3, <1>5
  <2>4. ASSUME NEW t \in Nums, CountSeen(c, t)' > 0 PROVE t <= start'[c]
    <3>1. CASE t = s
      BY <3>1, <2>3
    <3>2. CASE t # s
      <4>1. CountSeen(c, t)' = CountSeen(c, t)
        BY <3>2, <2>2, <2>3, <1>2, <1>4 DEF CountSeen
      <4>2. t <= s
        BY <4>1, <2>4, <1>3 DEF Client, Counted
      <4> QED BY <4>2, <2>2, <2>3 DEF Nums
    <3> QED BY <3>1, <3>2
  <2>5. Counted(c)'
    BY <2>2, <2>3, <2>4 DEF Counted
  <2> QED BY <2>1, <2>5 DEF Client
<1> QED BY Local, <1>2, <1>6, <1>7, <1>8 DEF dbVars

\* search_candidate/3 draws a number that is free.
LEMMA SearchInv ==
    ASSUME IInv, NEW c \in Clients, NEW n \in Nums, search_candidate(c, n)
    PROVE  IInv'
<1> USE DEF IInv
<1>1. TypeOK' /\ UNCHANGED dbVars
  BY DEF TypeOK, search_candidate, Probe, dbVars
<1>2. \A d \in Clients \ {c} : Same(d)
  BY DEF TypeOK, search_candidate, Probe, Same
<1>3. Client(c)'
  <2>1. /\ pc[c] = "search" /\ pc'[c] = "done" /\ n \notin snap[c].recent
        /\ reads'[c] = reads[c] \cup {n} /\ sets'[c] = sets[c] \cup {n}
        /\ writes'[c] = writes[c] \cup {n} /\ got'[c] = got[c] \cup {n}
    BY DEF TypeOK, search_candidate, Probe, Free, RecentSeen, Client
  <2>2. UNCHANGED <<issued, snap, adds, clears, since, start>>
    BY DEF search_candidate, dbVars
  <2>3. Counted(c)'
    BY <2>1, <2>2 DEF Client, Counted, CountSeen
  <2>4. clears'[c] = {} /\ IdleEmpty(c)' /\ GotFree(c)' /\ SinceComplete(c)'
    BY <2>1, <2>2 DEF Client, IdleEmpty, GotFree, SinceComplete
  <2> QED BY <2>3, <2>4 DEF Client
<1> QED BY Local, <1>1, <1>2, <1>3

\* search_candidate/3 draws a number that is taken.
LEMMA RetryInv ==
    ASSUME IInv, NEW c \in Clients, NEW n \in Nums, hca_retry(c, n)
    PROVE  IInv'
<1> USE DEF IInv
<1>1. CASE nested[c] /\ Probe(c, n)
           /\ pc' = [pc EXCEPT ![c] = "range"]
           /\ start' = [start EXCEPT ![c] = Latest(c)]
           /\ UNCHANGED <<nested, snap, adds, clears, writes, since, got>>
  <2>1. Latest(c) = start[c] /\ UNCHANGED dbVars /\ pc[c] = "search"
    BY LatestIsStart DEF hca_retry
  <2>2. TypeOK'
    BY <1>1, <2>1 DEF TypeOK, Probe, dbVars
  <2>3. \A d \in Clients \ {c} : Same(d)
    BY <1>1 DEF TypeOK, Probe, Same
  <2>4. Client(c)'
    <3>1. /\ start'[c] = start[c] /\ pc'[c] = "range"
          /\ reads'[c] = reads[c] \cup {n} /\ sets'[c] = sets[c] \cup {n}
          /\ issued' = issued
      BY <1>1, <2>1 DEF TypeOK, Probe, dbVars
    <3> QED BY <1>1, <2>1, <3>1 DEF Client, IdleEmpty, GotFree, SinceComplete,
                                    Counted, CountSeen
  <2> QED BY Local, <2>1, <2>2, <2>3, <2>4
<1>2. CASE ~nested[c] /\ Drop(c) /\ since' = [since EXCEPT ![c] = {}]
  <2>1. UNCHANGED dbVars
    BY DEF hca_retry
  <2> QED BY <1>2, <2>1, Dropped, Local DEF TypeOK
<1> QED BY <1>1, <1>2 DEF hca_retry

\* A transaction conflicts, or fails, and begins again.
LEMMA AbortInv == ASSUME IInv, NEW c \in Clients, abort(c) PROVE IInv'
<1>1. UNCHANGED dbVars /\ Drop(c) /\ since' = [since EXCEPT ![c] = {}]
  BY DEF abort
<1> QED BY <1>1, Dropped, Local DEF IInv, TypeOK

\* A transaction commits what it has drawn.
LEMMA CommitInv == ASSUME IInv, NEW c \in Clients, commit(c) PROVE IInv'
<1> USE DEF IInv
<1>1. /\ pc[c] = "done" /\ reads[c] \cap since[c] = {} /\ clears[c] = {} /\ Drop(c)
      /\ recent' = recent \cup sets[c]
      /\ counters' = [s \in Nums |-> counters[s] + adds[c][s]]
  BY DEF commit, Client
<1>2. issued' = [n \in Nums |-> IF n \in got[c] THEN issued[n] + 1 ELSE issued[n]]
  BY DEF commit
<1>3. since' = [d \in Clients |->
          IF d = c \/ pc[d] = "idle" THEN {} ELSE since[d] \cup writes[c]]
  BY DEF commit
<1>4. \A n \in Nums : n \in got[c] => issued[n] = 0
  <2> SUFFICES ASSUME NEW n \in Nums, n \in got[c], issued[n] # 0 PROVE FALSE
    OBVIOUS
  <2>1. issued[n] > 0
    BY DEF TypeOK
  <2>2. n \notin snap[c].recent /\ n \in reads[c]
    BY DEF Client, GotFree
  <2>3. n \in since[c]
    BY <1>1, <2>1, <2>2 DEF Client, SinceComplete
  <2> QED BY <1>1, <2>2, <2>3
<1>5. GivenOnce'
  BY <1>2, <1>4 DEF GivenOnce, TypeOK
<1>6. Marked'
  BY <1>1, <1>2 DEF Marked, Client, GotFree
<1>7. TypeOK'
  <2>1. None \in [Nums -> Nat] /\ 0 \in Nums
    BY HCAAssumption DEF None, Nums
  <2>2. counters' \in [Nums -> Nat] /\ issued' \in [Nums -> Nat]
        /\ recent' \subseteq Nums /\ since' \in [Clients -> SUBSET Nums]
    BY <1>1, <1>2, <1>3 DEF TypeOK
  <2> QED BY <1>1, <2>1, <2>2 DEF TypeOK, Drop
<1>8. HasLast(counters)'
  <2>1. /\ start[c] \in Nums /\ adds[c] \in [Nums -> Nat]
        /\ counters \in [Nums -> Nat] /\ snap[c].counters \in [Nums -> Nat]
    BY DEF TypeOK
  <2>2. adds[c][start[c]] > 0
    BY <1>1 DEF Client, Counted
  <2>3. \A t \in Nums : adds[c][t] > 0 => t <= start[c]
    BY <1>1, <2>1 DEF Client, Counted, CountSeen
  <2>4. CASE \A s \in Nums : counters[s] = 0
    BY <1>1, <2>1, <2>2, <2>3, <2>4 DEF HasLast
  <2>5. ASSUME NEW m \in Nums, counters[m] > 0,
               \A t \in Nums : counters[t] > 0 => t <= m
        PROVE  HasLast(counters)'
    <3>1. \A t \in Nums : counters'[t] > 0 => counters[t] > 0 \/ adds[c][t] > 0
      BY <1>1, <2>1
    <3>2. CASE m <= start[c]
      <4>1. counters'[start[c]] > 0
        BY <1>1, <2>1, <2>2
      <4>2. \A t \in Nums : counters'[t] > 0 => t <= start[c]
        BY <3>1, <3>2, <2>1, <2>3, <2>5 DEF Nums
      <4> QED BY <4>1, <4>2, <2>1 DEF HasLast
    <3>3. CASE start[c] <= m
      <4>1. counters'[m] > 0
        BY <1>1, <2>1, <2>5
      <4>2. \A t \in Nums : counters'[t] > 0 => t <= m
        BY <3>1, <3>3, <2>1, <2>3, <2>5 DEF Nums
      <4> QED BY <4>1, <4>2 DEF HasLast
    <3> QED BY <3>2, <3>3, <2>1 DEF Nums
  <2> QED BY <2>4, <2>5 DEF HasLast
<1>9. Client(c)'
  BY <1>1, Dropped
<1>10. ASSUME NEW d \in Clients \ {c} PROVE Client(d)'
  <2>1. /\ pc'[d] = pc[d] /\ snap'[d] = snap[d] /\ adds'[d] = adds[d]
        /\ sets'[d] = sets[d] /\ clears'[d] = clears[d] /\ reads'[d] = reads[d]
        /\ writes'[d] = writes[d] /\ start'[d] = start[d] /\ got'[d] = got[d]
    BY <1>1 DEF Drop, TypeOK
  <2>2. clears'[d] = {} /\ IdleEmpty(d)' /\ GotFree(d)'
    BY <2>1 DEF Client, IdleEmpty, GotFree
  <2>3. Counted(d)'
    BY <2>1 DEF Client, Counted, CountSeen
  <2>4. SinceComplete(d)'
    <3> SUFFICES ASSUME pc[d] # "idle", NEW n \in Nums, issued'[n] > 0
                 PROVE  n \in snap[d].recent \/ n \in since'[d]
      BY <2>1 DEF SinceComplete
    <3>1. since'[d] = since[d] \cup writes[c]
      BY <1>3
    <3>2. CASE n \in got[c]
      BY <3>1, <3>2 DEF Client, GotFree
    <3>3. CASE n \notin got[c]
      BY <3>1, <3>3, <1>2 DEF Client, SinceComplete
    <3> QED BY <3>2, <3>3
  <2> QED BY <2>2, <2>3, <2>4 DEF Client
<1> QED BY <1>5, <1>6, <1>7, <1>8, <1>9, <1>10

\* Every action keeps the invariant of the allocator.
LEMMA NextInv == IInv /\ [Next]_vars => IInv'
<1> SUFFICES ASSUME IInv, [Next]_vars PROVE IInv'
  OBVIOUS
<1>1. CASE UNCHANGED vars
  <2> USE <1>1 DEF IInv, vars, dbVars, txVars
  <2>1. TypeOK'
    BY DEF TypeOK
  <2>2. GivenOnce' /\ Marked' /\ HasLast(counters)'
    BY DEF GivenOnce, Marked, HasLast
  <2>3. \A d \in Clients : Client(d)'
    BY Frame DEF Same
  <2> QED BY <2>1, <2>2, <2>3
<1>2. ASSUME NEW c \in Clients,
             \/ allocate(c) \/ allocate_nested(c) \/ range(c)
             \/ \E n \in Nums : search_candidate(c, n) \/ hca_retry(c, n)
             \/ commit(c) \/ abort(c)
      PROVE  IInv'
  BY <1>2, AllocateInv, AllocateNestedInv, RangeInv, SearchInv, RetryInv,
     CommitInv, AbortInv
<1> QED BY <1>1, <1>2 DEF Next

-----------------------------------------------------------------------------
(* Theorems *)

\* The inductive invariant of erlfdb_hca.erl holds in every reachable state.
THEOREM Invariance == Spec => []IInv
BY InitInv, NextInv, PTL DEF Spec

\* Every variable keeps its type: starts and candidates stay in the windows.
THEOREM TypeCorrect == Spec => []TypeOK
<1>1. IInv => TypeOK
  BY DEF IInv
<1> QED BY <1>1, Invariance, PTL

\* allocate/2 gives no number out twice, for any number of concurrent
\* transactions, nested or not, and any window sizes.
THEOREM Unique == Spec => []GivenOnce
<1>1. IInv => GivenOnce
  BY DEF IInv
<1> QED BY <1>1, Invariance, PTL

\* search_candidate/3 never finds another window than the one it was given:
\* its first throw of hca_retry is never reached.
THEOREM LatestWindow == Spec => []WindowIsLatest
<1>1. IInv => WindowIsLatest
  BY LatestIsStart DEF IInv, WindowIsLatest
<1> QED BY <1>1, Invariance, PTL

\* Every step of the allocator is a step of the abstract one or leaves issued
\* as it is.
LEMMA StepImplements ==
    IInv /\ [Next]_vars => [AbstractAllocator!Next]_issued
<1> SUFFICES ASSUME IInv, [Next]_vars, issued' # issued
             PROVE  AbstractAllocator!Next
  OBVIOUS
<1>1. PICK c \in Clients : commit(c)
  BY DEF Next, vars, dbVars, allocate, allocate_nested, range,
         search_candidate, hca_retry, abort
<1>2. \A n \in Nums : n \in got[c] => issued[n] = 0
  <2> SUFFICES ASSUME NEW n \in Nums, n \in got[c] PROVE issued[n] = 0
    OBVIOUS
  <2>1. IInv'
    BY NextInv
  <2>2. issued'[n] <= 1 /\ issued'[n] = issued[n] + 1 /\ issued[n] \in Nat
    BY <1>1, <2>1 DEF IInv, GivenOnce, commit, TypeOK
  <2> QED BY <2>2
<1>3. issued' = [n \in Nums |-> IF n \in got[c] THEN 1 ELSE issued[n]]
  BY <1>1, <1>2 DEF commit
<1>4. AbstractAllocator!Allocate(got[c])
  BY <1>2, <1>3 DEF AbstractAllocator!Allocate, IInv, TypeOK
<1>5. got[c] \in SUBSET Nums
  BY DEF IInv, TypeOK
<1> QED BY <1>4, <1>5 DEF AbstractAllocator!Next

\* erlfdb_hca.erl implements the abstract allocator.
THEOREM Refinement == Spec => ImplementsAllocator
<1>1. Init => AbstractAllocator!Init
  BY DEF Init, AbstractAllocator!Init, None
<1> QED BY <1>1, StepImplements, Invariance, PTL
        DEF Spec, ImplementsAllocator, AbstractAllocator!Spec

-----------------------------------------------------------------------------
(* Room in the window *)

\* The starts of windows: 0, and the end of each of them (range/4).
Starts ==
    {n \in Nums : \A S \in SUBSET Nums :
        (0 \in S /\ \A s \in S : s + window_size(s) <= MaxNum => s + window_size(s) \in S)
            => n \in S}

\* Only starts are counted, each at least as often as its window has candidates.
Fits(candidates, count) ==
    \A s \in Nums :
        /\ count[s] > 0 => s \in Starts
        /\ s \in Starts => Cardinality(candidates \cap Window(s)) <= count[s]

\* The same of a transaction; it counts before it sets a candidate.
ClientRoom(c) ==
    /\ start[c] \in Starts
    /\ Fits(snap[c].recent, snap[c].counters) /\ Fits(sets[c], adds[c])
    /\ pc[c] = "search" =>
          /\ Cardinality(sets[c] \cap Window(start[c])) < adds[c][start[c]]
          /\ 2 * CountSeen(c, start[c]) < window_size(start[c])

RoomInv == Fits(recent, counters) /\ \A c \in Clients : ClientRoom(c)

\* A window begins where the one before it ends.
LEMMA StartsClosed ==
    /\ 0 \in Starts
    /\ \A s \in Starts : s + window_size(s) <= MaxNum => s + window_size(s) \in Starts
<1>1. 0 \in Nums
  BY HCAAssumption DEF Nums
<1>2. ASSUME NEW s \in Starts, s + window_size(s) <= MaxNum
      PROVE  s + window_size(s) \in Starts
  <2>1. s \in Nat /\ window_size(s) \in Nat
    BY WindowSize DEF Starts, Nums
  <2>2. s + window_size(s) \in Nums
    BY <1>2, <2>1, HCAAssumption DEF Nums
  <2> QED BY <1>2, <2>2 DEF Starts
<1> QED BY <1>1, <1>2 DEF Starts

\* Windows do not overlap: no start lies inside another one's window.
LEMMA StartsApart ==
    ASSUME NEW s \in Starts, NEW t \in Starts, s < t
    PROVE  s + window_size(s) <= t
<1> DEFINE Ends(u) == \A x \in Starts : x < u => x + window_size(x) <= u
           E == {u \in Starts : Ends(u)}
<1>1. \A u \in Starts : u \in Nat /\ u \in Nums /\ window_size(u) \in Nat \ {0}
  BY WindowSize DEF Starts, Nums
<1>2. 0 \in E
  BY <1>1, StartsClosed
<1>3. ASSUME NEW u \in E, u + window_size(u) <= MaxNum
      PROVE  u + window_size(u) \in E
  <2> DEFINE v == u + window_size(u)
             A == {x \in Starts : x <= u \/ v <= x}
  <2>1. u \in Starts /\ u \in Nat /\ v \in Nat /\ v \in Starts /\ u < v
    BY <1>1, <1>3, StartsClosed
  <2>2. 0 \in A
    BY <2>1, StartsClosed
  <2>3. ASSUME NEW x \in A, x + window_size(x) <= MaxNum
        PROVE  x + window_size(x) \in A
    <3>1. x + window_size(x) \in Starts /\ x \in Nat /\ window_size(x) \in Nat
      BY <1>1, <2>3, StartsClosed
    <3>2. CASE x < u
      <4>1. x + window_size(x) <= u
        BY <3>2
      <4> QED BY <4>1, <3>1
    <3>3. CASE x = u
      BY <3>1, <3>3
    <3>4. CASE v <= x
      <4> HIDE DEF v
      <4>1. v <= x + window_size(x)
        BY <3>1, <3>4, <2>1
      <4> QED BY <4>1, <3>1
    <3> QED BY <3>1, <3>2, <3>3, <3>4, <2>1
  <2>4. A \in SUBSET Nums
    BY <1>1
  <2>5. ASSUME NEW x \in Starts PROVE x \in A
    <3> HIDE DEF A
    <3> QED BY <2>2, <2>3, <2>4 DEF Starts
  <2>6. ASSUME NEW x \in Starts, x < v PROVE x + window_size(x) <= v
    <3>1. x <= u /\ x \in Nat /\ window_size(x) \in Nat
      BY <1>1, <2>1, <2>5, <2>6
    <3>2. CASE x < u
      <4>1. x + window_size(x) <= u
        BY <3>2
      <4> HIDE DEF v
      <4> QED BY <4>1, <3>1, <2>1
    <3>3. CASE x = u
      BY <3>1, <3>3
    <3> QED BY <3>1, <3>2, <3>3, <2>1
  <2> QED BY <2>1, <2>6
<1>4. E \in SUBSET Nums
  BY <1>1
<1>5. t \in E
  <2> HIDE DEF E
  <2> QED BY <1>2, <1>3, <1>4 DEF Starts
<1> QED BY <1>5

\* A number lies in the window of one start only.
LEMMA OneWindow ==
    ASSUME NEW s \in Starts, NEW t \in Starts, NEW n \in Window(s), n \in Window(t)
    PROVE  s = t
<1>1. s \in Nat /\ t \in Nat /\ window_size(s) \in Nat /\ window_size(t) \in Nat
  BY WindowSize DEF Starts, Nums
<1>2. s <= n /\ n < s + window_size(s) /\ t <= n /\ n < t + window_size(t) /\ n \in Int
  BY <1>1 DEF Window
<1>3. CASE s < t
  BY <1>1, <1>2, <1>3, StartsApart
<1>4. CASE t < s
  BY <1>1, <1>2, <1>4, StartsApart
<1> QED BY <1>1, <1>3, <1>4

\* A window has finitely many numbers.
LEMMA FiniteIn ==
    ASSUME NEW s \in Starts, NEW C
    PROVE  IsFiniteSet(C \cap Window(s)) /\ Cardinality(C \cap Window(s)) \in Nat
<1>1. s \in Int /\ s + window_size(s) - 1 \in Int
  BY WindowSize DEF Starts, Nums
<1>2. IsFiniteSet(Window(s))
  BY <1>1, FS_Interval DEF Window
<1>3. (C \cap Window(s)) \in SUBSET Window(s)
  OBVIOUS
<1>4. IsFiniteSet(C \cap Window(s))
  BY <1>2, <1>3, FS_Subset
<1> QED BY <1>4, FS_CardinalityType

\* Two sets of candidates that fit their counts fit the sum (commit).
LEMMA FitsSum ==
    ASSUME NEW C, NEW D, NEW f \in [Nums -> Nat], NEW g \in [Nums -> Nat],
           Fits(C, f), Fits(D, g)
    PROVE  Fits(C \cup D, [s \in Nums |-> f[s] + g[s]])
<1> DEFINE h == [s \in Nums |-> f[s] + g[s]]
<1>0. \A s \in Nums : f[s] \in Nat /\ g[s] \in Nat /\ h[s] = f[s] + g[s]
  OBVIOUS
<1> HIDE DEF h
<1>1. ASSUME NEW s \in Nums, h[s] > 0 PROVE s \in Starts
  <2>1. f[s] > 0 \/ g[s] > 0
    BY <1>0, <1>1
  <2> QED BY <2>1 DEF Fits
<1>2. ASSUME NEW s \in Nums, s \in Starts
      PROVE  Cardinality((C \cup D) \cap Window(s)) <= h[s]
  <2> DEFINE X == C \cap Window(s)
             Y == D \cap Window(s)
  <2>1. IsFiniteSet(X) /\ IsFiniteSet(Y) /\ Cardinality(X) \in Nat /\ Cardinality(Y) \in Nat
    BY <1>2, FiniteIn
  <2>2. Cardinality(X) <= f[s] /\ Cardinality(Y) <= g[s]
    BY <1>2 DEF Fits
  <2>3. (C \cup D) \cap Window(s) = X \cup Y /\ X \cap Y = (C \cap D) \cap Window(s)
    OBVIOUS
  <2>4. Cardinality(X \cap Y) \in Nat
    BY <1>2, <2>3, FiniteIn
  <2> HIDE DEF X, Y
  <2>5. Cardinality(X \cup Y) = Cardinality(X) + Cardinality(Y) - Cardinality(X \cap Y)
    BY <2>1, FS_Union
  <2>6. f[s] \in Nat /\ g[s] \in Nat /\ h[s] = f[s] + g[s]
    BY <1>0, <1>2
  <2>7. Cardinality(X \cup Y) <= h[s]
    BY <2>1, <2>2, <2>4, <2>5, <2>6
  <2> QED BY <2>3, <2>7
<1>3. Fits(C \cup D, h)
  BY <1>1, <1>2 DEF Fits
<1> QED BY <1>3 DEF h

\* One more count leaves room for one more candidate of the window.
LEMMA FitsCount ==
    ASSUME NEW C, NEW f \in [Nums -> Nat], Fits(C, f), NEW s \in Starts
    PROVE  /\ Fits(C, [f EXCEPT ![s] = @ + 1])
           /\ Cardinality(C \cap Window(s)) < [f EXCEPT ![s] = @ + 1][s]
<1> DEFINE g == [f EXCEPT ![s] = @ + 1]
<1>1. s \in Nums /\ \A t \in Nums : f[t] \in Nat /\ g[t] = IF t = s THEN f[t] + 1 ELSE f[t]
  BY DEF Starts
<1>2. \A t \in Starts : t \in Nums /\ Cardinality(C \cap Window(t)) \in Nat
  BY FiniteIn DEF Starts
<1> HIDE DEF g
<1>3. Fits(C, g)
  <2>1. ASSUME NEW t \in Nums, g[t] > 0 PROVE t \in Starts
    BY <2>1, <1>1 DEF Fits
  <2>2. ASSUME NEW t \in Starts PROVE Cardinality(C \cap Window(t)) <= g[t]
    <3>1. Cardinality(C \cap Window(t)) <= f[t]
      BY <1>2 DEF Fits
    <3> QED BY <3>1, <1>1, <1>2
  <2> QED BY <2>1, <2>2 DEF Fits
<1>4. Cardinality(C \cap Window(s)) < g[s]
  <2>1. Cardinality(C \cap Window(s)) <= f[s]
    BY <1>1 DEF Fits
  <2> QED BY <2>1, <1>1, <1>2
<1> QED BY <1>3, <1>4 DEF g

\* A candidate of a window with room.
LEMMA FitsSet ==
    ASSUME NEW C, NEW f \in [Nums -> Nat], Fits(C, f), NEW s \in Starts,
           Cardinality(C \cap Window(s)) < f[s], NEW n \in Window(s)
    PROVE  Fits(C \cup {n}, f)
<1>1. ASSUME NEW t \in Nums, t \in Starts
      PROVE  Cardinality((C \cup {n}) \cap Window(t)) <= f[t]
  <2>1. CASE t = s
    <3> DEFINE X == C \cap Window(s)
    <3>1. (C \cup {n}) \cap Window(t) = X \cup {n}
      BY <2>1
    <3>2. IsFiniteSet(X) /\ Cardinality(X) \in Nat /\ Cardinality(X) < f[s] /\ f[s] \in Nat
      BY FiniteIn, <1>1, <2>1
    <3> HIDE DEF X
    <3>3. Cardinality(X \cup {n}) <= Cardinality(X) + 1
      BY <3>2, FS_AddElement
    <3>4. Cardinality(X \cup {n}) \in Nat
      BY <3>2, FS_AddElement, FS_CardinalityType
    <3> QED BY <3>1, <3>2, <3>3, <3>4, <2>1
  <2>2. CASE t # s
    <3>1. n \notin Window(t)
      BY <1>1, <2>2, OneWindow
    <3>2. (C \cup {n}) \cap Window(t) = C \cap Window(t)
      BY <3>1
    <3> QED BY <1>1, <3>2 DEF Fits
  <2> QED BY <2>1, <2>2
<1> QED BY <1>1 DEF Fits

\* A search that has not begun has no window.
LEMMA FitsNone == Fits({}, None)
<1>1. ASSUME NEW s \in Nums, s \in Starts
      PROVE  Cardinality({} \cap Window(s)) <= None[s]
  <2>1. {} \cap Window(s) = {}
    OBVIOUS
  <2> QED BY <2>1, FS_EmptySet DEF None
<1> QED BY <1>1 DEF Fits, None

\* A transaction that no step touches.
LEMMA RoomFrame ==
    ASSUME NEW d \in Clients, ClientRoom(d), Same(d) PROVE ClientRoom(d)'
<1>1. \A s : CountSeen(d, s)' = CountSeen(d, s)
  BY DEF Same, CountSeen
<1> QED BY <1>1 DEF Same, ClientRoom

\* One that is dropped.
LEMMA RoomDropped ==
    ASSUME TypeOK, NEW c \in Clients, Drop(c) PROVE ClientRoom(c)'
<1>1. /\ start'[c] = 0 /\ pc'[c] = "idle" /\ sets'[c] = {} /\ adds'[c] = None
      /\ snap'[c].recent = {} /\ snap'[c].counters = None
  BY DEF TypeOK, Drop
<1> QED BY <1>1, FitsNone, StartsClosed DEF ClientRoom

\* A step that changes only one transaction.
LEMMA RoomLocal ==
    ASSUME RoomInv, NEW c \in Clients, UNCHANGED dbVars, ClientRoom(c)',
           \A d \in Clients \ {c} : Same(d)
    PROVE  RoomInv'
<1>1. \A d \in Clients : ClientRoom(d)'
  BY RoomFrame DEF RoomInv
<1>2. Fits(recent, counters)'
  BY DEF RoomInv, dbVars
<1> QED BY <1>1, <1>2 DEF RoomInv

\* allocate/2 begins its own transaction.
LEMMA RoomAllocate ==
    ASSUME IInv, RoomInv, NEW c \in Clients, allocate(c) PROVE RoomInv'
<1>1. LastOf(counters) \in Starts
  <2>1. CASE \E s \in Nums : counters[s] > 0
    <3> DEFINE Last(s) == counters[s] > 0 /\ \A t \in Nums : counters[t] > 0 => t <= s
    <3>1. \E s \in Nums : Last(s)
      BY <2>1 DEF IInv, HasLast
    <3>2. LastOf(counters) = CHOOSE s \in Nums : Last(s)
      BY <2>1 DEF LastOf
    <3>3. LastOf(counters) \in Nums /\ Last(LastOf(counters))
      <4> HIDE DEF Last
      <4> QED BY <3>1, <3>2, Zenon
    <3> QED BY <3>3 DEF RoomInv, Fits
  <2>2. CASE ~\E s \in Nums : counters[s] > 0
    BY <2>2, StartsClosed DEF LastOf
  <2> QED BY <2>1, <2>2
<1>2. /\ start'[c] = LastOf(counters) /\ pc'[c] = "range" /\ sets'[c] = sets[c]
      /\ adds'[c] = adds[c] /\ snap'[c].recent = recent /\ snap'[c].counters = counters
  BY DEF IInv, TypeOK, allocate
<1>3. ClientRoom(c)'
  BY <1>1, <1>2 DEF RoomInv, ClientRoom
<1>4. UNCHANGED dbVars /\ \A d \in Clients \ {c} : Same(d)
  BY DEF IInv, TypeOK, allocate, Same
<1> QED BY <1>3, <1>4, RoomLocal

\* allocate/2 goes on in the caller's transaction.
LEMMA RoomNested ==
    ASSUME IInv, RoomInv, NEW c \in Clients, allocate_nested(c) PROVE RoomInv'
<1>1. Latest(c) = start[c]
  BY LatestIsStart DEF allocate_nested, IInv
<1>2. /\ start'[c] = start[c] /\ pc'[c] = "range" /\ sets'[c] = sets[c]
      /\ adds'[c] = adds[c] /\ snap'[c] = snap[c]
  BY <1>1 DEF IInv, TypeOK, allocate_nested
<1>3. ClientRoom(c)'
  BY <1>2 DEF RoomInv, ClientRoom
<1>4. UNCHANGED dbVars /\ \A d \in Clients \ {c} : Same(d)
  BY DEF IInv, TypeOK, allocate_nested, Same
<1> QED BY <1>3, <1>4, RoomLocal

\* range/2 finds a window that is less than half full.
LEMMA RoomRange ==
    ASSUME IInv, RoomInv, NEW c \in Clients, range(c) PROVE RoomInv'
<1> DEFINE s == start[c]
           next == s + window_size(s)
           f == [adds[c] EXCEPT ![s] = @ + 1]
<1>1. /\ s \in Starts /\ s \in Nums /\ adds[c] \in [Nums -> Nat] /\ clears[c] = {}
      /\ snap[c].counters \in [Nums -> Nat] /\ Fits(sets[c], adds[c])
      /\ Fits(snap[c].recent, snap[c].counters)
  BY DEF IInv, TypeOK, RoomInv, ClientRoom, Client
<1>2. UNCHANGED <<dbVars, nested, snap, reads, writes, since, got>>
  BY DEF range
<1>3. adds'[c] = f
  BY DEF range, IInv, TypeOK
<1>4. clears' = clears /\ sets' = sets
  <2>1. Cleared(next) = {}
    BY NothingCleared
  <2>2. [clears EXCEPT ![c] = @ \cup {}] = clears /\ [sets EXCEPT ![c] = @ \ {}] = sets
    BY DEF IInv, TypeOK
  <2> QED BY <2>1, <2>2 DEF range
<1>5. Fits(sets[c], f) /\ Cardinality(sets[c] \cap Window(s)) < f[s]
  BY <1>1, FitsCount
<1>6. CountSeen(c, s)' = CountSeen(c, s) + 1 \/ start'[c] # s
  <2>1. f[s] = adds[c][s] + 1 /\ adds[c][s] \in Nat /\ snap[c].counters[s] \in Nat
    BY <1>1
  <2> HIDE DEF f
  <2> QED BY <1>1, <1>2, <1>3, <1>4, <2>1 DEF CountSeen
<1>7. \/ /\ pc' = [pc EXCEPT ![c] = "search"] /\ start' = start
         /\ (CountSeen(c, s) + 1) * 2 < window_size(s)
      \/ next <= MaxNum /\ start' = [start EXCEPT ![c] = next] /\ pc' = pc
  BY DEF range
<1>8. ClientRoom(c)'
  <2>1. CASE pc' = [pc EXCEPT ![c] = "search"] /\ start' = start
             /\ (CountSeen(c, s) + 1) * 2 < window_size(s)
    <3>1. CountSeen(c, s) \in Nat
      BY <1>1 DEF CountSeen
    <3>2. 2 * CountSeen(c, s)' < window_size(s)
      BY <2>1, <3>1, <1>6
    <3>3. 2 * CountSeen(c, start[c])' < window_size(start[c])'
      BY <2>1, <3>2 DEF window_size, CountSeen
    <3> HIDE DEF f
    <3> QED BY <1>1, <1>2, <1>3, <1>4, <1>5, <2>1, <3>3 DEF ClientRoom
  <2>2. CASE next <= MaxNum /\ start' = [start EXCEPT ![c] = next] /\ pc' = pc
    <3>1. next \in Starts
      BY <1>1, <2>2, StartsClosed
    <3>2. start'[c] = next /\ pc'[c] = "range"
      BY <2>2 DEF range, IInv, TypeOK
    <3> HIDE DEF f, next
    <3> QED BY <1>1, <1>2, <1>3, <1>4, <1>5, <3>1, <3>2 DEF ClientRoom
  <2> QED BY <1>7, <2>1, <2>2
<1>9. \A d \in Clients \ {c} : Same(d)
  <2>1. \A d \in Clients \ {c} : adds'[d] = adds[d]
    BY DEF range, IInv, TypeOK
  <2> QED BY <1>2, <1>4, <1>7, <2>1 DEF IInv, TypeOK, Same
<1> QED BY <1>2, <1>8, <1>9, RoomLocal

\* A candidate is set, taken or not.
LEMMA RoomProbe ==
    ASSUME IInv, RoomInv, NEW c \in Clients, NEW n \in Window(start[c]), pc[c] = "search",
           Probe(c, n)
    PROVE  adds'[c] = adds[c] => Fits(sets[c], adds[c])'
<1>1. sets'[c] = sets[c] \cup {n}
  BY DEF Probe, IInv, TypeOK
<1>2. /\ start[c] \in Starts /\ adds[c] \in [Nums -> Nat] /\ Fits(sets[c], adds[c])
      /\ Cardinality(sets[c] \cap Window(start[c])) < adds[c][start[c]]
  BY DEF IInv, TypeOK, RoomInv, ClientRoom
<1>3. Fits(sets[c] \cup {n}, adds[c])
  BY <1>2, FitsSet
<1> QED BY <1>1, <1>3

\* A number of the window is taken, and counted.
LEMMA RoomSearch ==
    ASSUME IInv, RoomInv, NEW c \in Clients, NEW n \in Nums, search_candidate(c, n)
    PROVE  RoomInv'
<1>1. /\ start'[c] = start[c] /\ pc'[c] = "done" /\ adds'[c] = adds[c] /\ snap'[c] = snap[c]
      /\ pc[c] = "search" /\ n \in Window(start[c]) /\ Probe(c, n)
  BY DEF IInv, TypeOK, search_candidate
<1>2. Fits(sets[c], adds[c])'
  BY <1>1, RoomProbe
<1>3. ClientRoom(c)'
  BY <1>1, <1>2 DEF RoomInv, ClientRoom
<1>4. UNCHANGED dbVars /\ \A d \in Clients \ {c} : Same(d)
  BY DEF IInv, TypeOK, search_candidate, Probe, Same
<1> QED BY <1>3, <1>4, RoomLocal

\* A number that is taken is not taken again.
LEMMA RoomRetry ==
    ASSUME IInv, RoomInv, NEW c \in Clients, NEW n \in Nums, hca_retry(c, n)
    PROVE  RoomInv'
<1>1. pc[c] = "search" /\ n \in Window(start[c]) /\ UNCHANGED dbVars /\ Latest(c) = start[c]
  BY LatestIsStart DEF IInv, hca_retry
<1>2. CASE Probe(c, n) /\ pc' = [pc EXCEPT ![c] = "range"]
           /\ start' = [start EXCEPT ![c] = Latest(c)]
           /\ UNCHANGED <<nested, snap, adds, clears, writes, since, got>>
  <2>1. start'[c] = start[c] /\ pc'[c] = "range" /\ adds'[c] = adds[c] /\ snap'[c] = snap[c]
    BY <1>1, <1>2 DEF IInv, TypeOK
  <2>2. Fits(sets[c], adds[c])'
    BY <1>1, <1>2, <2>1, RoomProbe
  <2>3. ClientRoom(c)'
    BY <2>1, <2>2 DEF RoomInv, ClientRoom
  <2>4. \A d \in Clients \ {c} : Same(d)
    BY <1>2 DEF IInv, TypeOK, Probe, Same
  <2> QED BY <1>1, <2>3, <2>4, RoomLocal
<1>3. CASE Drop(c) /\ since' = [since EXCEPT ![c] = {}]
  <2>1. \A d \in Clients \ {c} : Same(d)
    BY <1>3, Dropped DEF IInv, TypeOK
  <2> QED BY <1>1, <1>3, <2>1, RoomDropped, RoomLocal DEF IInv
<1> QED BY <1>2, <1>3 DEF hca_retry

\* What a transaction has taken is free again.
LEMMA RoomAbort ==
    ASSUME IInv, RoomInv, NEW c \in Clients, abort(c) PROVE RoomInv'
<1>1. UNCHANGED dbVars /\ Drop(c) /\ since' = [since EXCEPT ![c] = {}]
  BY DEF abort
<1>2. \A d \in Clients \ {c} : Same(d)
  BY <1>1, Dropped DEF IInv, TypeOK
<1> QED BY <1>1, <1>2, RoomDropped, RoomLocal DEF IInv

\* A transaction commits what it has taken and counted.
LEMMA RoomCommit ==
    ASSUME IInv, RoomInv, NEW c \in Clients, commit(c) PROVE RoomInv'
<1>1. /\ Drop(c) /\ recent' = recent \cup sets[c]
      /\ counters' = [s \in Nums |-> counters[s] + adds[c][s]]
  BY DEF commit, IInv, Client
<1>2. Fits(recent, counters)'
  <2>1. /\ counters \in [Nums -> Nat] /\ adds[c] \in [Nums -> Nat]
        /\ Fits(recent, counters) /\ Fits(sets[c], adds[c])
    BY DEF IInv, TypeOK, RoomInv, ClientRoom
  <2>2. Fits(recent \cup sets[c], [s \in Nums |-> counters[s] + adds[c][s]])
    BY <2>1, FitsSum
  <2> QED BY <1>1, <2>2
<1>3. ASSUME NEW d \in Clients \ {c} PROVE ClientRoom(d)'
  <2>1. /\ pc'[d] = pc[d] /\ snap'[d] = snap[d] /\ adds'[d] = adds[d]
        /\ sets'[d] = sets[d] /\ clears'[d] = clears[d] /\ start'[d] = start[d]
    BY <1>1 DEF Drop, IInv, TypeOK
  <2>2. \A s : CountSeen(d, s)' = CountSeen(d, s)
    BY <2>1 DEF CountSeen
  <2> QED BY <2>1, <2>2 DEF RoomInv, ClientRoom
<1>4. ClientRoom(c)'
  BY <1>1, RoomDropped DEF IInv
<1> QED BY <1>2, <1>3, <1>4 DEF RoomInv

\* Every action leaves room in the windows.
LEMMA NextRoom == IInv /\ RoomInv /\ [Next]_vars => RoomInv'
<1> SUFFICES ASSUME IInv, RoomInv, [Next]_vars PROVE RoomInv'
  OBVIOUS
<1>1. CASE UNCHANGED vars
  <2>1. \A d \in Clients : ClientRoom(d)'
    BY <1>1, RoomFrame DEF Same, vars, txVars, RoomInv
  <2> QED BY <1>1, <2>1 DEF RoomInv, vars, dbVars
<1>2. ASSUME NEW c \in Clients,
             \/ allocate(c) \/ allocate_nested(c) \/ range(c)
             \/ \E n \in Nums : search_candidate(c, n) \/ hca_retry(c, n)
             \/ commit(c) \/ abort(c)
      PROVE  RoomInv'
  BY <1>2, RoomAllocate, RoomNested, RoomRange, RoomSearch, RoomRetry, RoomCommit, RoomAbort
<1> QED BY <1>1, <1>2 DEF Next

\* The windows begin empty.
LEMMA InitRoom == Init => RoomInv
<1> SUFFICES ASSUME Init PROVE RoomInv
  OBVIOUS
<1>1. ASSUME NEW c \in Clients PROVE ClientRoom(c)
  BY FitsNone, StartsClosed DEF Init, ClientRoom
<1> QED BY <1>1, FitsNone DEF Init, RoomInv

\* The search ends: less than half of the window that range/4 has chosen is
\* taken, for any number of concurrent transactions and any window sizes.
THEOREM SearchHasRoom == Spec => []RoomLeft
<1>1. ASSUME IInv, RoomInv, NEW c \in Clients, pc[c] = "search"
      PROVE  2 * Cardinality(RecentSeen(c) \cap Window(start[c])) < window_size(start[c])
  <2> DEFINE s == start[c]
             X == snap[c].recent \cap Window(s)
             Y == sets[c] \cap Window(s)
  <2>1. /\ s \in Starts /\ s \in Nums /\ adds[c] \in [Nums -> Nat] /\ clears[c] = {}
        /\ snap[c].counters \in [Nums -> Nat]
        /\ Fits(snap[c].recent, snap[c].counters)
        /\ Cardinality(Y) < adds[c][s] /\ 2 * CountSeen(c, s) < window_size(s)
    BY <1>1 DEF IInv, TypeOK, RoomInv, ClientRoom, Client
  <2>2. RecentSeen(c) \cap Window(s) = X \cup Y /\ X \cap Y = (snap[c].recent \cap sets[c]) \cap Window(s)
    BY <2>1 DEF RecentSeen
  <2>3. /\ IsFiniteSet(X) /\ Cardinality(X) \in Nat /\ IsFiniteSet(Y) /\ Cardinality(Y) \in Nat
        /\ Cardinality(X \cap Y) \in Nat
    BY <2>1, <2>2, FiniteIn
  <2>4. Cardinality(X) <= snap[c].counters[s]
    BY <2>1 DEF Fits
  <2>5. CountSeen(c, s) = snap[c].counters[s] + adds[c][s]
    BY <2>1 DEF CountSeen
  <2>6. window_size(s) \in Nat
    BY <2>1, WindowSize DEF Nums
  <2>7. snap[c].counters[s] \in Nat /\ adds[c][s] \in Nat
    BY <2>1
  <2> HIDE DEF X, Y, s
  <2>8. Cardinality(X \cup Y) = Cardinality(X) + Cardinality(Y) - Cardinality(X \cap Y)
    BY <2>3, FS_Union
  <2>9. 2 * Cardinality(X \cup Y) < window_size(s)
    BY <2>1, <2>3, <2>4, <2>5, <2>6, <2>7, <2>8
  <2> QED BY <2>2, <2>9 DEF s
<1>2. IInv /\ RoomInv => RoomLeft
  BY <1>1 DEF RoomLeft
<1> QED BY <1>2, InitRoom, NextRoom, Invariance, PTL DEF Spec

=============================================================================
