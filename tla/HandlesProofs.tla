---------------------------- MODULE HandlesProofs ----------------------------
(***************************************************************************)
(* The handles are counted right, and the pool is filled, for any number   *)
(* of handles, processes, schedulers and outstanding futures.              *)
(***************************************************************************)
EXTENDS Handles, FiniteSetTheorems, SequenceTheorems, TLAPS

USE HandlesAssumption

-----------------------------------------------------------------------------
(* Counting references *)

\* Every set of references is finite.
LEMMA RefsFinite ==
  ASSUME TypeOK, NEW h \in Handles
  PROVE  /\ IsFiniteSet(held[h]) /\ Cardinality(held[h]) \in Nat
         /\ IsFiniteSet(PoolRefs(h)) /\ Cardinality(PoolRefs(h)) \in Nat
         /\ IsFiniteSet(FutureRefs(h)) /\ Cardinality(FutureRefs(h)) \in Nat
<1>1. held[h] \in SUBSET Procs
  BY DEF TypeOK
<1>2. PoolRefs(h) \in SUBSET Keys
  BY DEF PoolRefs
<1>3. FutureRefs(h) \in SUBSET Futures
  BY DEF FutureRefs
<1>4. IsFiniteSet(Keys)
  BY FS_Interval DEF Keys
<1>5. IsFiniteSet(held[h]) /\ IsFiniteSet(PoolRefs(h)) /\ IsFiniteSet(FutureRefs(h))
  BY <1>1, <1>2, <1>3, <1>4, FS_Subset
<1> QED
  BY <1>5, FS_CardinalityType

\* A handle has a reference if and only if its count is positive.
LEMMA CountPositive ==
  ASSUME TypeOK, RefCountExact, NEW h \in Handles
  PROVE  Referenced(h) <=> rc[h] >= 1
<1>1. rc[h] = Cardinality(held[h]) + Cardinality(PoolRefs(h)) + Cardinality(FutureRefs(h))
  BY DEF RefCountExact
<1>2. /\ held[h] = {} <=> Cardinality(held[h]) = 0
      /\ PoolRefs(h) = {} <=> Cardinality(PoolRefs(h)) = 0
      /\ FutureRefs(h) = {} <=> Cardinality(FutureRefs(h)) = 0
  BY RefsFinite, FS_EmptySet
<1> QED
  BY <1>1, <1>2, RefsFinite DEF Referenced

\* A handle that was not created has no references at all.
LEMMA FreshUnreferenced ==
  ASSUME IInv, NEW h \in Handles, kind[h] = "none"
  PROVE  /\ rc[h] = 0 /\ destroys[h] = 0
         /\ held[h] = {} /\ PoolRefs(h) = {} /\ FutureRefs(h) = {}
<1>1. rc[h] = 0 /\ destroys[h] = 0
  BY DEF IInv, Alive
<1>2. ~Referenced(h)
  BY <1>1, CountPositive DEF IInv
<1> QED
  BY <1>1, <1>2 DEF Referenced

\* References are taken to handles that have one already, and dropped from
\* handles that have one: the destructor runs exactly when the last one goes.
LEMMA AdjustAlive ==
  ASSUME IInv, NEW up \in SUBSET Handles, NEW down \in SUBSET Handles,
         \A h \in Handles : h \in up \/ h \in down => rc[h] >= 1,
         Adjust(up, down), kind' = kind
  PROVE  /\ rc' \in [Handles -> Nat] /\ destroys' \in [Handles -> 0..1]
         /\ Alive'
         /\ \A h \in Handles :
               rc'[h] = rc[h] + (IF h \in up THEN 1 ELSE 0)
                              - (IF h \in down THEN 1 ELSE 0)
<1>1. /\ rc \in [Handles -> Nat] /\ destroys \in [Handles -> 0..1] /\ Alive
  BY DEF IInv, TypeOK
<1>2. \A h \in Handles :
         rc'[h] = rc[h] + (IF h \in up THEN 1 ELSE 0) - (IF h \in down THEN 1 ELSE 0)
  BY DEF Adjust
<1>3. \A h \in Handles :
         destroys'[h] = IF h \in down /\ rc[h] = 1 /\ h \notin up
                        THEN destroys[h] + 1 ELSE destroys[h]
  BY DEF Adjust, dtor
<1>4. \A h \in Handles : rc'[h] \in Nat
  BY <1>1, <1>2
<1>5. ASSUME NEW h \in Handles
      PROVE  /\ destroys'[h] \in 0..1
             /\ kind'[h] = "none" => rc'[h] = 0
             /\ destroys'[h] = IF kind'[h] # "none" /\ rc'[h] = 0 THEN 1 ELSE 0
  <2>1. /\ rc[h] \in Nat
        /\ kind[h] = "none" => rc[h] = 0
        /\ destroys[h] = IF kind[h] # "none" /\ rc[h] = 0 THEN 1 ELSE 0
    BY <1>1 DEF Alive
  <2>2. h \in up \/ h \in down => rc[h] >= 1
    OBVIOUS
  <2> QED
    BY <2>1, <2>2, <1>2, <1>3
<1>6. rc' \in [Handles -> Nat] /\ destroys' \in [Handles -> 0..1]
  BY <1>4, <1>5 DEF Adjust, dtor
<1> QED
  BY <1>2, <1>5, <1>6 DEF Alive

\* One more reference to a handle.
LEMMA TakeOne ==
  ASSUME IInv, NEW h \in Handles, rc[h] >= 1, Adjust({h}, {}), kind' = kind
  PROVE  /\ rc' \in [Handles -> Nat] /\ destroys' \in [Handles -> 0..1]
         /\ Alive'
         /\ \A g \in Handles : rc'[g] = rc[g] + (IF g = h THEN 1 ELSE 0)
<1>1. {h} \in SUBSET Handles /\ {} \in SUBSET Handles
  OBVIOUS
<1>2. \A g \in Handles : g \in {h} \/ g \in {} => rc[g] >= 1
  OBVIOUS
<1>3. /\ rc' \in [Handles -> Nat] /\ destroys' \in [Handles -> 0..1]
      /\ Alive'
      /\ \A g \in Handles : rc'[g] = rc[g] + (IF g \in {h} THEN 1 ELSE 0)
                                            - (IF g \in {} THEN 1 ELSE 0)
  BY <1>1, <1>2, AdjustAlive
<1>4. \A g \in Handles : rc[g] \in Nat
  BY DEF IInv, TypeOK
<1> QED
  BY <1>3, <1>4

\* One reference less.
LEMMA DropOne ==
  ASSUME IInv, NEW h \in Handles, rc[h] >= 1, Adjust({}, {h}), kind' = kind
  PROVE  /\ rc' \in [Handles -> Nat] /\ destroys' \in [Handles -> 0..1]
         /\ Alive'
         /\ \A g \in Handles : rc'[g] = rc[g] - (IF g = h THEN 1 ELSE 0)
<1>1. {} \in SUBSET Handles /\ {h} \in SUBSET Handles
  OBVIOUS
<1>2. \A g \in Handles : g \in {} \/ g \in {h} => rc[g] >= 1
  OBVIOUS
<1>3. /\ rc' \in [Handles -> Nat] /\ destroys' \in [Handles -> 0..1]
      /\ Alive'
      /\ \A g \in Handles : rc'[g] = rc[g] + (IF g \in {} THEN 1 ELSE 0)
                                            - (IF g \in {h} THEN 1 ELSE 0)
  BY <1>1, <1>2, AdjustAlive
<1>4. \A g \in Handles : rc[g] \in Nat
  BY DEF IInv, TypeOK
<1> QED
  BY <1>3, <1>4

\* What a step that is not part of open has to leave alone.
LEMMA OpenKept ==
  ASSUME IInv, UNCHANGED <<pool, openVars>>, held' \in [Handles -> SUBSET Procs],
         \A p \in Procs, h \in Handles :
            pc[p] = "put" /\ p \in held[h] => p \in held'[h]
  PROVE  OpenInv' /\ MadeInv'
<1>1. OpenInv'
  BY DEF IInv, OpenInv, openVars
<1>2. MadeInv'
  BY DEF IInv, MadeInv, openVars, Key
<1> QED
  BY <1>1, <1>2

\* Process p's reference is counted when it gets a term for h.
LEMMA HoldCounted ==
  ASSUME TypeOK, NEW p \in Procs, NEW h \in Handles, Hold(p, h)
  PROVE  /\ held' \in [Handles -> SUBSET Procs]
         /\ \A g \in Handles :
               /\ held[g] \subseteq held'[g]
               /\ Cardinality(held'[g]) = Cardinality(held[g])
                     + (IF g = h /\ p \notin held[h] THEN 1 ELSE 0)
<1>1. held \in [Handles -> SUBSET Procs]
  BY DEF TypeOK
<1>2. \A g \in Handles : held'[g] = IF g = h THEN held[h] \cup {p} ELSE held[g]
  BY <1>1 DEF Hold
<1>3. held' \in [Handles -> SUBSET Procs]
  BY <1>1 DEF Hold
<1>4. Cardinality(held[h] \cup {p}) =
         IF p \in held[h] THEN Cardinality(held[h]) ELSE Cardinality(held[h]) + 1
  BY RefsFinite, FS_AddElement
<1>5. \A g \in Handles : Cardinality(held[g]) \in Nat
  BY RefsFinite
<1> QED
  BY <1>2, <1>3, <1>4, <1>5

\* Process p's reference is not counted any more when it has no term for h.
LEMMA UnheldCounted ==
  ASSUME TypeOK, NEW p \in Procs, NEW h \in Handles
  PROVE  Cardinality(held[h] \ {p}) =
            Cardinality(held[h]) - (IF p \in held[h] THEN 1 ELSE 0)
<1>1. IsFiniteSet(held[h]) /\ Cardinality(held[h]) \in Nat
  BY RefsFinite
<1>2. Cardinality(held[h] \ {p}) =
         IF p \in held[h] THEN Cardinality(held[h]) - 1 ELSE Cardinality(held[h])
  BY <1>1, FS_RemoveElement
<1> QED
  BY <1>1, <1>2

\* The reference of a key of the pool moves from the old database to the new.
LEMMA PoolCounted ==
  ASSUME TypeOK, NEW k \in Keys, NEW x \in Handles \cup {None},
         pool' = [pool EXCEPT ![k] = x], NEW h \in Handles
  PROVE  Cardinality(PoolRefs(h)') =
            Cardinality(PoolRefs(h)) + (IF h = x THEN 1 ELSE 0)
                                     - (IF h = pool[k] THEN 1 ELSE 0)
<1>1. pool \in [Keys -> Handles \cup {None}]
  BY DEF TypeOK
<1>2. IsFiniteSet(PoolRefs(h)) /\ Cardinality(PoolRefs(h)) \in Nat
  BY RefsFinite
<1>3. k \in PoolRefs(h) <=> h = pool[k]
  BY DEF PoolRefs
<1>4. CASE h = x
  <2>1. PoolRefs(h)' = PoolRefs(h) \cup {k}
    BY <1>1, <1>4 DEF PoolRefs
  <2>2. Cardinality(PoolRefs(h) \cup {k}) =
           IF k \in PoolRefs(h) THEN Cardinality(PoolRefs(h)) ELSE Cardinality(PoolRefs(h)) + 1
    BY <1>2, FS_AddElement
  <2> QED
    BY <1>2, <1>3, <1>4, <2>1, <2>2
<1>5. CASE h # x
  <2>1. PoolRefs(h)' = PoolRefs(h) \ {k}
    BY <1>1, <1>5 DEF PoolRefs
  <2>2. Cardinality(PoolRefs(h) \ {k}) =
           IF k \in PoolRefs(h) THEN Cardinality(PoolRefs(h)) - 1 ELSE Cardinality(PoolRefs(h))
    BY <1>2, FS_RemoveElement
  <2> QED
    BY <1>2, <1>3, <1>5, <2>1, <2>2
<1> QED
  BY <1>4, <1>5

\* The same of the reference that a future has.
LEMMA TiedCounted ==
  ASSUME TypeOK, NEW f \in Futures, NEW x \in Handles \cup {None},
         tied' = [tied EXCEPT ![f] = x], NEW h \in Handles
  PROVE  Cardinality(FutureRefs(h)') =
            Cardinality(FutureRefs(h)) + (IF h = x THEN 1 ELSE 0)
                                       - (IF h = tied[f] THEN 1 ELSE 0)
<1>1. tied \in [Futures -> Handles \cup {None}]
  BY DEF TypeOK
<1>2. IsFiniteSet(FutureRefs(h)) /\ Cardinality(FutureRefs(h)) \in Nat
  BY RefsFinite
<1>3. f \in FutureRefs(h) <=> h = tied[f]
  BY DEF FutureRefs
<1>4. CASE h = x
  <2>1. FutureRefs(h)' = FutureRefs(h) \cup {f}
    BY <1>1, <1>4 DEF FutureRefs
  <2>2. Cardinality(FutureRefs(h) \cup {f}) =
           IF f \in FutureRefs(h) THEN Cardinality(FutureRefs(h)) ELSE Cardinality(FutureRefs(h)) + 1
    BY <1>2, FS_AddElement
  <2> QED
    BY <1>2, <1>3, <1>4, <2>1, <2>2
<1>5. CASE h # x
  <2>1. FutureRefs(h)' = FutureRefs(h) \ {f}
    BY <1>1, <1>5 DEF FutureRefs
  <2>2. Cardinality(FutureRefs(h) \ {f}) =
           IF f \in FutureRefs(h) THEN Cardinality(FutureRefs(h)) - 1 ELSE Cardinality(FutureRefs(h))
    BY <1>2, FS_RemoveElement
  <2> QED
    BY <1>2, <1>3, <1>5, <2>1, <2>2
<1> QED
  BY <1>4, <1>5

\* The counts of the old state, as a fact about natural numbers.
LEMMA Counts ==
  ASSUME IInv
  PROVE  \A h \in Handles :
            /\ rc[h] = Cardinality(held[h]) + Cardinality(PoolRefs(h))
                         + Cardinality(FutureRefs(h))
            /\ Cardinality(held[h]) \in Nat /\ Cardinality(PoolRefs(h)) \in Nat
            /\ Cardinality(FutureRefs(h)) \in Nat
BY RefsFinite DEF IInv, RefCountExact

-----------------------------------------------------------------------------
(* The NIFs that create a handle *)

TypeHandles ==
  /\ kind \in [Handles -> {"none", "database", "tenant", "transaction"}]
  /\ owner \in [Handles -> Procs \cup {None}]
  /\ rc \in [Handles -> Nat] /\ destroys \in [Handles -> 0..1]
  /\ held \in [Handles -> SUBSET Procs]
  /\ pool \in [Keys -> Handles \cup {None}]
  /\ tied \in [Futures -> Handles \cup {None}]

TypeOpen ==
  /\ pc \in [Procs -> {"idle", "get", "create", "put", "dead"}]
  /\ call \in [Procs -> {"none", "open", "open_all"}]
  /\ todo \in [Procs -> Seq(Keys)]
  /\ new \in [Procs -> Handles \cup {None}]
  /\ made \in [Procs -> [Keys -> Nat]]

\* The two halves of the type invariant.
LEMMA TypeSplit == TypeOK <=> TypeHandles /\ TypeOpen
BY DEF TypeOK, TypeHandles, TypeOpen

\* The part of the invariant that is about the handles.
HandlesInv == TypeHandles /\ RefCountExact /\ Alive

\* A handle is created with the caller's reference.
LEMMA CreatedCounted ==
  ASSUME IInv, NEW p \in Procs, NEW h \in Handles,
         NEW k \in {"database", "tenant", "transaction"},
         Created(p, h, k), UNCHANGED <<pool, tied>>
  PROVE  HandlesInv'
<1> USE DEF Created
<1>1. TypeOK /\ TypeHandles
  BY TypeSplit DEF IInv
<1>2. /\ rc[h] = 0 /\ destroys[h] = 0
      /\ held[h] = {} /\ PoolRefs(h) = {} /\ FutureRefs(h) = {}
  BY FreshUnreferenced
<1>3. /\ held' \in [Handles -> SUBSET Procs]
      /\ \A g \in Handles : Cardinality(held'[g]) =
            Cardinality(held[g]) + (IF g = h /\ p \notin held[h] THEN 1 ELSE 0)
  BY <1>1, HoldCounted
<1>4. TypeHandles'
  BY <1>1, <1>3 DEF TypeHandles
<1>5. \A g \in Handles : rc'[g] = rc[g] + (IF g = h THEN 1 ELSE 0)
  BY <1>1, <1>2 DEF TypeHandles
<1>7. \A g \in Handles : PoolRefs(g)' = PoolRefs(g) /\ FutureRefs(g)' = FutureRefs(g)
  BY DEF PoolRefs, FutureRefs
<1>8. RefCountExact'
  BY <1>2, <1>3, <1>5, <1>7, Counts DEF RefCountExact
<1>9. Alive'
  BY <1>1, <1>2, <1>5 DEF IInv, Alive, TypeHandles
<1> QED
  BY <1>4, <1>8, <1>9 DEF HandlesInv

\* A library object without a resource is destroyed on the spot.
LEMMA NoMemoryCounted ==
  ASSUME IInv, NEW h \in Handles, NEW k \in {"database", "tenant", "transaction"},
         NoMemory(h, k), UNCHANGED <<pool, tied>>
  PROVE  HandlesInv'
<1> USE DEF NoMemory
<1>1. TypeHandles
  BY TypeSplit DEF IInv
<1>2. rc[h] = 0 /\ destroys[h] = 0
  BY FreshUnreferenced
<1>3. TypeHandles'
  BY <1>1, <1>2 DEF TypeHandles
<1>4. RefCountExact'
  BY DEF IInv, RefCountExact, PoolRefs, FutureRefs
<1>5. Alive'
  BY <1>1, <1>2 DEF IInv, Alive, TypeHandles
<1> QED
  BY <1>3, <1>4, <1>5 DEF HandlesInv

\* The three NIFs that an idle process calls with a handle it has.
LEMMA Step_Create ==
  ASSUME IInv, NEW p \in Procs, NEW h \in Handles,
         NEW k \in {"database", "tenant", "transaction"}, Create(p, h, k)
  PROVE  IInv'
<1>1. HandlesInv'
  BY CreatedCounted, NoMemoryCounted DEF Create
<1>2. TypeOpen'
  BY TypeSplit DEF IInv, Create, openVars, TypeOpen
<1>3. \A q \in Procs, g \in Handles : q \in held[g] => q \in held'[g]
  <2>1. CASE Created(p, h, k)
    BY <2>1, HoldCounted DEF Created, IInv
  <2>2. CASE NoMemory(h, k)
    BY <2>2 DEF NoMemory
  <2> QED
    BY <2>1, <2>2 DEF Create
<1>4. OpenInv' /\ MadeInv'
  BY <1>1, <1>3, OpenKept DEF Create, HandlesInv, TypeHandles
<1> QED
  BY <1>1, <1>2, <1>4 DEF IInv, HandlesInv, TypeOK, TypeHandles, TypeOpen

-----------------------------------------------------------------------------
(* References that come and go *)

\* A future keeps the transaction of its owner.
LEMMA Step_transaction_call ==
  ASSUME IInv, NEW p \in Procs, NEW t \in Handles, NEW f \in Futures,
         transaction_call(p, t, f)
  PROVE  IInv'
<1> USE DEF transaction_call
<1>1. TypeOK /\ TypeHandles /\ TypeOpen
  BY TypeSplit DEF IInv
<1>2. rc[t] >= 1
  BY CountPositive DEF IInv, Has, Referenced
<1>3. /\ rc' \in [Handles -> Nat] /\ destroys' \in [Handles -> 0..1]
      /\ Alive'
      /\ \A h \in Handles : rc'[h] = rc[h] + (IF h = t THEN 1 ELSE 0)
  BY <1>2, TakeOne
<1>4. ASSUME NEW h \in Handles
      PROVE  /\ Cardinality(FutureRefs(h)') =
                  Cardinality(FutureRefs(h)) + (IF h = t THEN 1 ELSE 0)
             /\ PoolRefs(h)' = PoolRefs(h)
  <2>1. Cardinality(FutureRefs(h)') =
           Cardinality(FutureRefs(h)) + (IF h = t THEN 1 ELSE 0)
                                      - (IF h = tied[f] THEN 1 ELSE 0)
    BY <1>1, TiedCounted
  <2>2. Cardinality(FutureRefs(h)) \in Nat
    BY Counts
  <2> QED
    BY <2>1, <2>2 DEF PoolRefs
<1>5. RefCountExact'
  BY <1>3, <1>4, Counts DEF RefCountExact
<1>6. TypeHandles' /\ TypeOpen'
  BY <1>1, <1>3 DEF TypeHandles, TypeOpen, openVars
<1>7. OpenInv' /\ MadeInv'
  BY <1>6, OpenKept DEF TypeHandles
<1> QED
  BY <1>3, <1>5, <1>6, <1>7 DEF IInv, TypeOK, TypeHandles, TypeOpen

\* The message of a future is received, or dropped with the future.
LEMMA Step_future_gone ==
  ASSUME IInv, NEW f \in Futures, future_gone(f)
  PROVE  IInv'
<1> USE DEF future_gone
<1>1. TypeOK /\ TypeHandles /\ TypeOpen
  BY TypeSplit DEF IInv
<1>2. PICK t \in Handles : t = tied[f] /\ f \in FutureRefs(t)
  BY <1>1 DEF TypeHandles, FutureRefs
<1>3. rc[t] >= 1
  BY <1>2, CountPositive DEF IInv, Referenced
<1>4. /\ rc' \in [Handles -> Nat] /\ destroys' \in [Handles -> 0..1]
      /\ Alive'
      /\ \A h \in Handles : rc'[h] = rc[h] - (IF h = t THEN 1 ELSE 0)
  BY <1>2, <1>3, DropOne
<1>5. ASSUME NEW h \in Handles
      PROVE  /\ Cardinality(FutureRefs(h)') =
                  Cardinality(FutureRefs(h)) - (IF h = t THEN 1 ELSE 0)
             /\ PoolRefs(h)' = PoolRefs(h)
  <2>1. Cardinality(FutureRefs(h)') =
           Cardinality(FutureRefs(h)) + (IF h = None THEN 1 ELSE 0)
                                      - (IF h = tied[f] THEN 1 ELSE 0)
    BY <1>1, TiedCounted
  <2>2. Cardinality(FutureRefs(h)) \in Nat
    BY Counts
  <2> QED
    BY <2>1, <2>2, <1>2 DEF PoolRefs
<1>6. RefCountExact'
  BY <1>4, <1>5, Counts DEF RefCountExact
<1>7. TypeHandles' /\ TypeOpen'
  BY <1>1, <1>4 DEF TypeHandles, TypeOpen, openVars
<1>8. OpenInv' /\ MadeInv'
  BY <1>7, OpenKept DEF TypeHandles
<1> QED
  BY <1>4, <1>6, <1>7, <1>8 DEF IInv, TypeOK, TypeHandles, TypeOpen

\* A term is sent to another process.
LEMMA Step_share ==
  ASSUME IInv, NEW p \in Procs, NEW q \in Procs, NEW h \in Handles, share(p, q, h)
  PROVE  IInv'
<1> USE DEF share
<1>1. TypeOK /\ TypeHandles /\ TypeOpen
  BY TypeSplit DEF IInv
<1>2. rc[h] >= 1
  BY CountPositive DEF IInv, Referenced
<1>3. /\ rc' \in [Handles -> Nat] /\ destroys' \in [Handles -> 0..1]
      /\ Alive'
      /\ \A g \in Handles : rc'[g] = rc[g] + (IF g = h THEN 1 ELSE 0)
  BY <1>2, TakeOne
<1>4. /\ held' \in [Handles -> SUBSET Procs]
      /\ \A g \in Handles :
            /\ held[g] \subseteq held'[g]
            /\ Cardinality(held'[g]) = Cardinality(held[g]) + (IF g = h THEN 1 ELSE 0)
            /\ PoolRefs(g)' = PoolRefs(g) /\ FutureRefs(g)' = FutureRefs(g)
  BY <1>1, HoldCounted DEF PoolRefs, FutureRefs
<1>5. RefCountExact'
  BY <1>3, <1>4, Counts DEF RefCountExact
<1>6. TypeHandles' /\ TypeOpen'
  BY <1>1, <1>3, <1>4 DEF TypeHandles, TypeOpen, openVars
<1>7. OpenInv' /\ MadeInv'
  BY <1>4, OpenKept
<1> QED
  BY <1>3, <1>5, <1>6, <1>7 DEF IInv, TypeOK, TypeHandles, TypeOpen

\* An idle process's term is collected: it is not the database that a process
\* is about to store.
LEMMA Step_drop ==
  ASSUME IInv, NEW p \in Procs, NEW h \in Handles, drop(p, h)
  PROVE  IInv'
<1> USE DEF drop
<1>1. TypeOK /\ TypeHandles /\ TypeOpen
  BY TypeSplit DEF IInv
<1>2. rc[h] >= 1
  BY CountPositive DEF IInv, Referenced
<1>3. /\ rc' \in [Handles -> Nat] /\ destroys' \in [Handles -> 0..1]
      /\ Alive'
      /\ \A g \in Handles : rc'[g] = rc[g] - (IF g = h THEN 1 ELSE 0)
  BY <1>2, DropOne
<1>4. /\ held' \in [Handles -> SUBSET Procs]
      /\ \A g \in Handles : held'[g] = IF g = h THEN held[g] \ {p} ELSE held[g]
  BY <1>1 DEF TypeHandles
<1>5. ASSUME NEW g \in Handles
      PROVE  /\ Cardinality(held'[g]) = Cardinality(held[g]) - (IF g = h THEN 1 ELSE 0)
             /\ PoolRefs(g)' = PoolRefs(g) /\ FutureRefs(g)' = FutureRefs(g)
  <2>1. Cardinality(held[h] \ {p}) = Cardinality(held[h]) - 1
    BY <1>1, UnheldCounted
  <2>2. Cardinality(held[g]) \in Nat
    BY Counts
  <2> QED
    BY <1>4, <2>1, <2>2 DEF PoolRefs, FutureRefs
<1>6. RefCountExact'
  <2> HIDE DEF drop
  <2>1. ASSUME NEW g \in Handles
        PROVE  rc'[g] = Cardinality(held'[g]) + Cardinality(PoolRefs(g)')
                        + Cardinality(FutureRefs(g)')
    BY <1>3, <1>5, Counts
  <2> QED
    BY <2>1 DEF RefCountExact
<1>7. TypeHandles' /\ TypeOpen'
  BY <1>1, <1>3, <1>4 DEF TypeHandles, TypeOpen, openVars
<1>8. \A q \in Procs, g \in Handles : pc[q] = "put" /\ q \in held[g] => q \in held'[g]
  BY <1>4 DEF Idle
<1>9. OpenInv' /\ MadeInv'
  BY <1>4, <1>8, OpenKept
<1> QED
  BY <1>3, <1>6, <1>7, <1>9 DEF IInv, TypeOK, TypeHandles, TypeOpen

\* A process exits: all its references go at once.
LEMMA Step_exit ==
  ASSUME IInv, NEW p \in Procs, exit(p)
  PROVE  IInv'
<1>1. TypeOK /\ TypeHandles /\ TypeOpen
  BY TypeSplit DEF IInv
<1> DEFINE gone == {h \in Handles : p \in held[h]}
<1>2. \A h \in Handles : h \in {} \/ h \in gone => rc[h] >= 1
  BY CountPositive DEF IInv, Referenced
<1>3. /\ rc' \in [Handles -> Nat] /\ destroys' \in [Handles -> 0..1]
      /\ Alive'
      /\ \A h \in Handles : rc'[h] = rc[h] + (IF h \in {} THEN 1 ELSE 0)
                                            - (IF h \in gone THEN 1 ELSE 0)
  <2>1. gone \in SUBSET Handles /\ {} \in SUBSET Handles
    OBVIOUS
  <2>2. Adjust({}, gone) /\ kind' = kind
    BY DEF exit
  <2> HIDE DEF gone
  <2> QED
    BY <1>2, <2>1, <2>2, AdjustAlive
<1>4. /\ held' \in [Handles -> SUBSET Procs]
      /\ \A h \in Handles : held'[h] = held[h] \ {p}
  BY <1>1 DEF TypeHandles, exit
<1>5. \A h \in Handles : PoolRefs(h)' = PoolRefs(h) /\ FutureRefs(h)' = FutureRefs(h)
  BY DEF PoolRefs, FutureRefs, exit
<1>6. RefCountExact'
  <2>1. ASSUME NEW h \in Handles
        PROVE  rc'[h] = Cardinality(held'[h]) + Cardinality(PoolRefs(h)')
                        + Cardinality(FutureRefs(h)')
    <3>1. Cardinality(held'[h]) = Cardinality(held[h]) - (IF p \in held[h] THEN 1 ELSE 0)
      BY <1>1, <1>4, UnheldCounted
    <3>2. rc'[h] = rc[h] - (IF p \in held[h] THEN 1 ELSE 0)
      BY <1>1, <1>3 DEF TypeHandles
    <3> QED
      BY <1>5, <3>1, <3>2, Counts
  <2> QED
    BY <2>1 DEF RefCountExact
<1>7. TypeHandles' /\ TypeOpen'
  <2>1. <<>> \in Seq(Keys)
    OBVIOUS
  <2> QED
    BY <1>1, <1>3, <1>4, <2>1 DEF TypeHandles, TypeOpen, exit
<1>8. OpenInv'
  BY <1>1, <1>4 DEF IInv, OpenInv, TypeOpen, exit
<1>9. MadeInv'
  BY <1>1 DEF IInv, MadeInv, TypeOpen, Key, exit
<1> QED
  BY <1>3, <1>6, <1>7, <1>8, <1>9 DEF IInv, TypeOK, TypeHandles, TypeOpen

-----------------------------------------------------------------------------
(* open/2 and open_all/2 *)

\* What is left to open after the first key.
LEMMA TailKeys ==
  ASSUME NEW s \in Seq(Keys), s # <<>>
  PROVE  /\ Head(s) \in Keys /\ Tail(s) \in Seq(Keys)
         /\ Len(s) = 1 <=> Tail(s) = <<>>
         /\ \A i \in DOMAIN s :
               s[i] = Head(s) \/ \E j \in DOMAIN Tail(s) : Tail(s)[j] = s[i]
<1>1. Head(s) \in Keys /\ Tail(s) \in Seq(Keys)
  OBVIOUS
<1>2. Len(s) = 1 <=> Tail(s) = <<>>
  <2>1. Len(Tail(s)) = Len(s) - 1 /\ Len(s) \in Nat
    OBVIOUS
  <2>2. Tail(s) = <<>> <=> Len(Tail(s)) = 0
    BY <1>1, EmptySeq
  <2> QED
    BY <2>1, <2>2
<1>3. ASSUME NEW i \in DOMAIN s, s[i] # Head(s)
      PROVE  \E j \in DOMAIN Tail(s) : Tail(s)[j] = s[i]
  <2>1. i \in 1..Len(s) /\ i # 1
    BY <1>3
  <2>2. i - 1 \in DOMAIN Tail(s) /\ Tail(s)[i - 1] = s[i]
    BY <2>1
  <2> QED
    BY <2>2
<1> QED
  BY <1>1, <1>2, <1>3

\* A call of open or open_all starts with its keys.
LEMMA Step_StartOpen ==
  ASSUME IInv, NEW p \in Procs, NEW c \in {"open", "open_all"}, NEW keys \in Seq(Keys),
         keys # <<>>, c = "open_all" => \A k \in Keys : \E i \in DOMAIN keys : keys[i] = k,
         StartOpen(p, c, keys)
  PROVE  IInv'
<1> USE DEF StartOpen, handleVars
<1>1. TypeHandles /\ TypeOpen
  BY TypeSplit DEF IInv
<1>2. TypeHandles' /\ TypeOpen'
  BY <1>1 DEF TypeHandles, TypeOpen
<1>3. RefCountExact' /\ Alive'
  BY DEF IInv, RefCountExact, PoolRefs, FutureRefs, Alive
<1>4. OpenInv'
  BY <1>1 DEF IInv, OpenInv, TypeOpen, Idle
<1>5. MadeInv'
  BY <1>1 DEF IInv, MadeInv, TypeOpen, Key, Idle
<1> QED
  BY <1>2, <1>3, <1>4, <1>5 DEF IInv, TypeOK, TypeHandles, TypeOpen

\* The pool has no database for the key yet.
LEMMA Step_get_undefined ==
  ASSUME IInv, NEW p \in Procs, get_undefined(p)
  PROVE  IInv'
<1> USE DEF get_undefined, handleVars
<1>1. TypeHandles /\ TypeOpen
  BY TypeSplit DEF IInv
<1>2. TypeHandles' /\ TypeOpen'
  BY <1>1 DEF TypeHandles, TypeOpen
<1>3. RefCountExact' /\ Alive'
  BY DEF IInv, RefCountExact, PoolRefs, FutureRefs, Alive
<1>4. OpenInv'
  BY <1>1 DEF IInv, OpenInv, TypeOpen
<1>5. MadeInv'
  BY <1>1 DEF IInv, MadeInv, TypeOpen, Key
<1> QED
  BY <1>2, <1>3, <1>4, <1>5 DEF IInv, TypeOK, TypeHandles, TypeOpen

\* A process goes on to its next key, or returns: the key it was at is in the
\* pool, from which nothing disappears.
LEMMA NextKeyOpen ==
  ASSUME IInv, NEW p \in Procs, pc[p] \in {"get", "put"}, NextKey(p),
         UNCHANGED <<call, made>>,
         new' \in [Procs -> Handles \cup {None}],
         \A q \in Procs : new'[q] = IF q = p THEN None ELSE new[q],
         \A k \in Keys : pool[k] # None => pool'[k] # None,
         pool'[Key(p)] # None,
         \A q \in Procs, h \in Handles : q \in held[h] => q \in held'[h]
  PROVE  TypeOpen' /\ OpenInv' /\ MadeInv'
<1>1. TypeOpen
  BY TypeSplit DEF IInv
<1>2. todo[p] \in Seq(Keys) /\ todo[p] # <<>>
  BY <1>1 DEF IInv, OpenInv, TypeOpen
<1>3. /\ Head(todo[p]) \in Keys /\ Tail(todo[p]) \in Seq(Keys)
      /\ Len(todo[p]) = 1 <=> Tail(todo[p]) = <<>>
      /\ \A i \in DOMAIN todo[p] :
            todo[p][i] = Head(todo[p])
              \/ \E j \in DOMAIN Tail(todo[p]) : Tail(todo[p])[j] = todo[p][i]
  BY <1>2, TailKeys
<1>4. /\ \A q \in Procs : todo'[q] = IF q = p THEN Tail(todo[p]) ELSE todo[q]
      /\ \A q \in Procs :
            pc'[q] = IF q # p THEN pc[q] ELSE IF Tail(todo[p]) = <<>> THEN "idle" ELSE "get"
  BY <1>1, <1>3 DEF NextKey, TypeOpen
<1>5. TypeOpen'
  BY <1>1, <1>3 DEF NextKey, TypeOpen
<1>6. ASSUME NEW q \in Procs
      PROVE  /\ pc'[q] \in {"get", "create", "put"} <=> todo'[q] # <<>>
             /\ IF pc'[q] = "put" THEN new'[q] \in Handles /\ q \in held'[new'[q]]
                                  ELSE new'[q] = None
  <2>1. CASE q = p
    BY <1>4, <2>1
  <2>2. CASE q # p
    BY <1>4, <2>2 DEF IInv, OpenInv
  <2> QED
    BY <2>1, <2>2
<1>7. ASSUME NEW q \in Procs, call'[q] = "open_all", NEW k \in Keys, pool'[k] = None
      PROVE  \E i \in DOMAIN todo'[q] : todo'[q][i] = k
  <2>1. PICK i \in DOMAIN todo[q] : todo[q][i] = k
    BY <1>7 DEF IInv, OpenInv
  <2>2. CASE q # p
    BY <1>4, <2>1, <2>2
  <2>3. CASE q = p
    <3>1. k # Head(todo[p])
      BY <1>7 DEF Key
    <3> QED
      BY <1>3, <1>4, <2>1, <2>3, <3>1
  <2> QED
    BY <2>2, <2>3
<1>8. OpenInv'
  BY <1>6, <1>7 DEF OpenInv
<1>9. ASSUME NEW q \in Procs, NEW k \in Keys
      PROVE  /\ made'[q][k] <= 1
             /\ pc'[q] = "create" /\ k = Key(q)' => made'[q][k] = 0
             /\ made'[q][k] = 1 =>
                   pool'[k] # None \/ pc'[q] = "dead" \/ (pc'[q] = "put" /\ k = Key(q)')
  <2>1. /\ made[q][k] <= 1
        /\ pc[q] = "create" /\ k = Key(q) => made[q][k] = 0
        /\ made[q][k] = 1 =>
              pool[k] # None \/ pc[q] = "dead" \/ (pc[q] = "put" /\ k = Key(q))
    BY DEF IInv, MadeInv
  <2>2. q # p => Key(q)' = Key(q)
    BY <1>4 DEF Key
  <2> QED
    BY <1>4, <2>1, <2>2
<1>10. MadeInv'
  BY <1>9 DEF MadeInv
<1> QED
  BY <1>5, <1>8, <1>10

\* The pool has a database: the process gets a term for it.
LEMMA Step_get_found ==
  ASSUME IInv, NEW p \in Procs, get_found(p)
  PROVE  IInv'
<1>1. TypeOK /\ TypeHandles /\ TypeOpen
  BY TypeSplit DEF IInv
<1>2. Key(p) \in Keys
  BY <1>1, TailKeys DEF IInv, OpenInv, TypeOpen, Key, get_found
<1>3. PICK d \in Handles : d = pool[Key(p)] /\ Key(p) \in PoolRefs(d)
  BY <1>1, <1>2 DEF TypeHandles, PoolRefs, get_found
<1>4. rc[d] >= 1
  BY <1>3, CountPositive DEF IInv, Referenced
<1> DEFINE up == IF p \in held[d] THEN {} ELSE {d}
<1>5. /\ rc' \in [Handles -> Nat] /\ destroys' \in [Handles -> 0..1]
      /\ Alive'
      /\ \A h \in Handles : rc'[h] = rc[h] + (IF h \in up THEN 1 ELSE 0)
                                            - (IF h \in {} THEN 1 ELSE 0)
  <2>1. up \in SUBSET Handles /\ {} \in SUBSET Handles
    OBVIOUS
  <2>2. Adjust(up, {}) /\ kind' = kind
    BY <1>3 DEF get_found
  <2>3. \A h \in Handles : h \in up \/ h \in {} => rc[h] >= 1
    BY <1>4
  <2> HIDE DEF up
  <2> QED
    BY <2>1, <2>2, <2>3, AdjustAlive
<1>6. /\ held' \in [Handles -> SUBSET Procs]
      /\ \A h \in Handles :
            /\ held[h] \subseteq held'[h]
            /\ Cardinality(held'[h]) = Cardinality(held[h])
                  + (IF h = d /\ p \notin held[d] THEN 1 ELSE 0)
            /\ PoolRefs(h)' = PoolRefs(h) /\ FutureRefs(h)' = FutureRefs(h)
  BY <1>1, <1>3, HoldCounted DEF PoolRefs, FutureRefs, get_found
<1>7. RefCountExact'
  <2>1. ASSUME NEW h \in Handles
        PROVE  rc'[h] = Cardinality(held'[h]) + Cardinality(PoolRefs(h)')
                        + Cardinality(FutureRefs(h)')
    <3>1. rc'[h] = rc[h] + (IF h = d /\ p \notin held[d] THEN 1 ELSE 0)
      BY <1>1, <1>5 DEF TypeHandles
    <3> QED
      BY <1>6, <3>1, Counts
  <2> QED
    BY <2>1 DEF RefCountExact
<1>8. TypeHandles'
  BY <1>1, <1>5, <1>6 DEF TypeHandles, get_found
<1>9. \A q \in Procs : new'[q] = IF q = p THEN None ELSE new[q]
  BY DEF IInv, OpenInv, get_found
<1>10. TypeOpen' /\ OpenInv' /\ MadeInv'
  <2>1. /\ pc[p] \in {"get", "put"} /\ NextKey(p) /\ UNCHANGED <<call, made>>
        /\ new' \in [Procs -> Handles \cup {None}]
        /\ pool' = pool /\ pool'[Key(p)] # None
    BY <1>1 DEF get_found, TypeOpen
  <2> QED
    BY <1>6, <1>9, <2>1, NextKeyOpen
<1> QED
  BY <1>5, <1>7, <1>8, <1>10 DEF IInv, TypeOK, TypeHandles, TypeOpen

\* The database is stored: the one that it replaces loses the pool's reference
\* and keeps those of the processes that have its term.
LEMMA Step_persistent_term_put ==
  ASSUME IInv, NEW p \in Procs, persistent_term_put(p)
  PROVE  IInv'
<1>1. TypeOK /\ TypeHandles /\ TypeOpen
  BY TypeSplit DEF IInv
<1>2. PICK k \in Keys : k = Key(p)
  BY <1>1, TailKeys DEF IInv, OpenInv, TypeOpen, Key, persistent_term_put
<1>3. PICK d \in Handles : d = new[p] /\ p \in held[d]
  BY DEF IInv, OpenInv, persistent_term_put
<1>4. rc[d] >= 1
  BY <1>3, CountPositive DEF IInv, Referenced
<1>5. PICK old \in Handles \cup {None} : old = pool[k]
  BY <1>1 DEF TypeHandles
<1>6. old \in Handles => rc[old] >= 1
  BY <1>5, CountPositive DEF IInv, Referenced, PoolRefs
<1> DEFINE up == {d}
           down == {old} \ {None}
<1>7. /\ rc' \in [Handles -> Nat] /\ destroys' \in [Handles -> 0..1]
      /\ Alive'
      /\ \A h \in Handles : rc'[h] = rc[h] + (IF h \in up THEN 1 ELSE 0)
                                            - (IF h \in down THEN 1 ELSE 0)
  <2>1. up \in SUBSET Handles /\ down \in SUBSET Handles
    BY <1>5
  <2>2. Adjust(up, down) /\ kind' = kind
    BY <1>2, <1>3, <1>5 DEF persistent_term_put
  <2>3. \A h \in Handles : h \in up \/ h \in down => rc[h] >= 1
    BY <1>4, <1>6
  <2> HIDE DEF up, down
  <2> QED
    BY <2>1, <2>2, <2>3, AdjustAlive
<1>8. /\ pool' = [pool EXCEPT ![k] = d]
      /\ pool'[k] # None
      /\ UNCHANGED <<kind, owner, held, tied>>
  BY <1>1, <1>2, <1>3 DEF TypeHandles, persistent_term_put
<1>9. RefCountExact'
  <2>1. ASSUME NEW h \in Handles
        PROVE  rc'[h] = Cardinality(held'[h]) + Cardinality(PoolRefs(h)')
                        + Cardinality(FutureRefs(h)')
    <3>1. rc'[h] = rc[h] + (IF h = d THEN 1 ELSE 0) - (IF h = old THEN 1 ELSE 0)
      BY <1>1, <1>7 DEF TypeHandles
    <3>2. Cardinality(PoolRefs(h)') = Cardinality(PoolRefs(h))
             + (IF h = d THEN 1 ELSE 0) - (IF h = old THEN 1 ELSE 0)
      BY <1>1, <1>5, <1>8, PoolCounted
    <3>3. FutureRefs(h)' = FutureRefs(h) /\ held' = held
      BY <1>8 DEF FutureRefs
    <3> QED
      BY <3>1, <3>2, <3>3, Counts
  <2> QED
    BY <2>1 DEF RefCountExact
<1>10. TypeHandles'
  BY <1>1, <1>7, <1>8 DEF TypeHandles
<1>11. TypeOpen' /\ OpenInv' /\ MadeInv'
  <2>1. /\ pc[p] \in {"get", "put"} /\ NextKey(p) /\ UNCHANGED <<call, made>>
        /\ new' \in [Procs -> Handles \cup {None}]
        /\ \A q \in Procs : new'[q] = IF q = p THEN None ELSE new[q]
    BY <1>1 DEF persistent_term_put, TypeOpen
  <2>2. \A j \in Keys : pool[j] # None => pool'[j] # None
    BY <1>1, <1>8 DEF TypeHandles
  <2> QED
    BY <1>2, <1>8, <2>1, <2>2, NextKeyOpen
<1> QED
  BY <1>7, <1>9, <1>10, <1>11 DEF IInv, TypeOK, TypeHandles, TypeOpen

\* open raises: its process is idle again, and the pool is as it was.
LEMMA OpenRaisesOpen ==
  ASSUME IInv, NEW p \in Procs, pc[p] = "create", OpenRaises(p), pool' = pool, held' = held
  PROVE  TypeOpen' /\ OpenInv' /\ MadeInv'
<1> USE DEF OpenRaises
<1>1. TypeOpen
  BY TypeSplit DEF IInv
<1>2. TypeOpen'
  <2>1. <<>> \in Seq(Keys)
    OBVIOUS
  <2> QED
    BY <1>1, <2>1 DEF TypeOpen
<1>3. OpenInv'
  BY <1>1 DEF IInv, OpenInv, TypeOpen
<1>4. ASSUME NEW q \in Procs, NEW k \in Keys
      PROVE  /\ made'[q][k] <= 1
             /\ pc'[q] = "create" /\ k = Key(q)' => made'[q][k] = 0
             /\ made'[q][k] = 1 =>
                   pool'[k] # None \/ pc'[q] = "dead" \/ (pc'[q] = "put" /\ k = Key(q)')
  <2>1. /\ made[q][k] <= 1
        /\ pc[q] = "create" /\ k = Key(q) => made[q][k] = 0
        /\ made[q][k] = 1 =>
              pool[k] # None \/ pc[q] = "dead" \/ (pc[q] = "put" /\ k = Key(q))
    BY DEF IInv, MadeInv
  <2>2. q # p => Key(q)' = Key(q) /\ pc'[q] = pc[q]
    BY <1>1 DEF Key, TypeOpen
  <2>3. q = p => pc'[q] = "idle"
    BY <1>1 DEF TypeOpen
  <2> QED
    BY <2>1, <2>2, <2>3
<1>5. MadeInv'
  BY <1>4 DEF MadeInv
<1> QED
  BY <1>2, <1>3, <1>5

\* The process has created no database for this key before: the pool was empty
\* when it looked, and does not lose what it once had.
LEMMA Step_create_database ==
  ASSUME IInv, NEW p \in Procs, NEW h \in Handles, create_database(p, h)
  PROVE  IInv'
<1>1. TypeOK /\ TypeHandles /\ TypeOpen
  BY TypeSplit DEF IInv
<1>2. pc[p] = "create" /\ UNCHANGED <<pool, tied>>
  BY DEF create_database
<1>3. CASE NoMemory(h, "database") /\ OpenRaises(p)
  <2>1. HandlesInv'
    BY <1>2, <1>3, NoMemoryCounted
  <2>2. held' = held
    BY <1>3 DEF NoMemory
  <2>3. TypeOpen' /\ OpenInv' /\ MadeInv'
    BY <1>2, <1>3, <2>2, OpenRaisesOpen
  <2> QED
    BY <2>1, <2>3 DEF IInv, HandlesInv, TypeOK, TypeHandles, TypeOpen
<1>4. CASE /\ Created(p, h, "database")
           /\ new' = [new EXCEPT ![p] = h]
           /\ made' = [made EXCEPT ![p][Key(p)] = @ + 1]
           /\ pc' = [pc EXCEPT ![p] = "put"]
           /\ UNCHANGED <<call, todo>>
  <2>1. HandlesInv'
    BY <1>2, <1>4, CreatedCounted
  <2>2. PICK k \in Keys : k = Key(p)
    BY <1>1, <1>2, TailKeys DEF IInv, OpenInv, TypeOpen, Key
  <2>3. /\ \A q \in Procs : pc'[q] = IF q = p THEN "put" ELSE pc[q]
        /\ \A q \in Procs : new'[q] = IF q = p THEN h ELSE new[q]
        /\ \A q \in Procs, j \in Keys :
              made'[q][j] = IF q = p /\ j = k THEN made[q][j] + 1 ELSE made[q][j]
    BY <1>1, <1>4, <2>2 DEF TypeOpen
  <2>4. TypeOpen'
    BY <1>1, <1>4, <2>2 DEF TypeOpen
  <2>5. /\ p \in held'[h]
        /\ \A g \in Handles : held[g] \subseteq held'[g]
    BY <1>1, <1>4 DEF Created, Hold, TypeHandles
  <2>6. OpenInv'
    BY <1>2, <1>4, <2>3, <2>5 DEF IInv, OpenInv
  <2>7. made[p][k] = 0
    BY <1>2, <2>2 DEF IInv, MadeInv
  <2>8. \A q \in Procs : Key(q)' = Key(q)
    BY <1>4 DEF Key
  <2>9. ASSUME NEW q \in Procs, NEW j \in Keys
        PROVE  /\ made'[q][j] <= 1
               /\ pc'[q] = "create" /\ j = Key(q)' => made'[q][j] = 0
               /\ made'[q][j] = 1 =>
                     pool'[j] # None \/ pc'[q] = "dead" \/ (pc'[q] = "put" /\ j = Key(q)')
    <3>1. /\ made[q][j] <= 1
          /\ pc[q] = "create" /\ j = Key(q) => made[q][j] = 0
          /\ made[q][j] = 1 =>
                pool[j] # None \/ pc[q] = "dead" \/ (pc[q] = "put" /\ j = Key(q))
      BY DEF IInv, MadeInv
    <3> QED
      BY <1>2, <2>2, <2>3, <2>7, <2>8, <3>1
  <2>10. MadeInv'
    BY <2>9 DEF MadeInv
  <2> QED
    BY <2>1, <2>4, <2>6, <2>10 DEF IInv, HandlesInv, TypeOK, TypeHandles, TypeOpen
<1> QED
  BY <1>3, <1>4 DEF create_database

\* The library does not create a database.
LEMMA Step_create_database_error ==
  ASSUME IInv, NEW p \in Procs, create_database_error(p)
  PROVE  IInv'
<1> USE DEF create_database_error, handleVars
<1>1. TypeHandles'
  BY TypeSplit DEF IInv, TypeHandles
<1>2. RefCountExact' /\ Alive'
  BY DEF IInv, RefCountExact, PoolRefs, FutureRefs, Alive
<1>3. TypeOpen' /\ OpenInv' /\ MadeInv'
  BY OpenRaisesOpen
<1> QED
  BY <1>1, <1>2, <1>3 DEF IInv, TypeOK, TypeHandles, TypeOpen

-----------------------------------------------------------------------------
(* The invariant and the properties *)

\* A step that changes nothing.
LEMMA Step_stutter ==
  ASSUME IInv, UNCHANGED vars
  PROVE  IInv'
<1> USE DEF vars, handleVars, openVars
<1>1. TypeOK'
  BY DEF IInv, TypeOK
<1>2. RefCountExact' /\ Alive'
  BY DEF IInv, RefCountExact, PoolRefs, FutureRefs, Alive
<1>3. OpenInv' /\ MadeInv'
  BY DEF IInv, OpenInv, MadeInv, Key
<1> QED
  BY <1>1, <1>2, <1>3 DEF IInv

\* open/2 with one key and open_all/2 with all keys.
LEMMA Step_open ==
  ASSUME IInv, NEW p \in Procs, open(p) \/ open_all(p)
  PROVE  IInv'
<1>1. CASE open(p)
  <2>1. PICK sid \in Keys : StartOpen(p, "open", <<sid>>)
    BY <1>1 DEF open
  <2>2. <<sid>> \in Seq(Keys) /\ <<sid>> # <<>>
    OBVIOUS
  <2> QED
    BY <2>1, <2>2, Step_StartOpen
<1>2. CASE open_all(p)
  <2> DEFINE keys == [i \in 1..Schedulers |-> i]
  <2>1. keys \in Seq(Keys) /\ keys # <<>>
    BY DEF Keys
  <2>2. \A k \in Keys : \E i \in DOMAIN keys : keys[i] = k
    BY DEF Keys
  <2>3. StartOpen(p, "open_all", keys)
    BY <1>2 DEF open_all
  <2> HIDE DEF keys
  <2> QED
    BY <2>1, <2>2, <2>3, Step_StartOpen
<1> QED
  BY <1>1, <1>2

\* The invariant holds initially and every step, or stutter, preserves it.
LEMMA Inductive ==
  /\ Init => IInv
  /\ IInv /\ [Next]_vars => IInv'
<1>1. ASSUME Init
      PROVE  IInv
  <2> USE <1>1 DEF Init
  <2>1. TypeOK
    <3>1. <<>> \in Seq(Keys)
      OBVIOUS
    <3> QED
      BY <3>1 DEF TypeOK
  <2>2. RefCountExact
    <3>1. ASSUME NEW h \in Handles
          PROVE  held[h] = {} /\ PoolRefs(h) = {} /\ FutureRefs(h) = {} /\ rc[h] = 0
      BY DEF PoolRefs, FutureRefs
    <3>2. ASSUME NEW h \in Handles
          PROVE  rc[h] = Cardinality(held[h]) + Cardinality(PoolRefs(h))
                         + Cardinality(FutureRefs(h))
      <4>1. Cardinality({}) = 0
        BY FS_EmptySet
      <4>2. /\ Cardinality(held[h]) = 0 /\ Cardinality(PoolRefs(h)) = 0
            /\ Cardinality(FutureRefs(h)) = 0 /\ rc[h] = 0
        BY <3>1, <4>1
      <4> QED
        BY <4>2
    <3> QED
      BY <3>2 DEF RefCountExact
  <2>3. Alive /\ OpenInv /\ MadeInv
    BY DEF Alive, OpenInv, MadeInv
  <2> QED
    BY <2>1, <2>2, <2>3 DEF IInv
<1>2. ASSUME IInv, NEW p \in Procs, Open(p) \/ exit(p)
      PROVE  IInv'
  BY <1>2, Step_open, Step_get_found, Step_get_undefined, Step_create_database,
     Step_create_database_error, Step_persistent_term_put, Step_exit DEF Open
<1>3. ASSUME IInv, NEW p \in Procs, NEW h \in Handles, Nifs(p, h)
      PROVE  IInv'
  <2>1. CASE \E g \in Handles : \/ database_open_tenant(p, h, g)
                                 \/ database_create_transaction(p, h, g)
                                 \/ tenant_create_transaction(p, h, g)
    BY <1>3, <2>1, Step_Create DEF database_open_tenant, database_create_transaction,
       tenant_create_transaction
  <2>2. CASE \E f \in Futures : transaction_call(p, h, f)
    BY <1>3, <2>2, Step_transaction_call
  <2>3. CASE \/ database_set_option(p, h) \/ database_get_main_thread_busyness(p, h)
             \/ database_get_client_status(p, h) \/ transaction_not_owner(p, h)
    BY <1>3, <2>3, Step_stutter DEF database_set_option, Use, transaction_not_owner,
       database_get_main_thread_busyness, database_get_client_status
  <2> QED
    BY <1>3, <2>1, <2>2, <2>3 DEF Nifs
<1> QED
  BY <1>1, <1>2, <1>3, Step_drop, Step_share, Step_future_gone, Step_stutter DEF Next

\* The inductive invariant holds in every reachable state.
THEOREM Invariance == Spec => []IInv
BY Inductive, PTL DEF Spec

\* Whatever can still be reached was not destroyed: no NIF passes a destroyed
\* object to the library.
THEOREM UseSafe == Spec => []NoUseAfterDestroy
<1>1. IInv => NoUseAfterDestroy
  <2>1. ASSUME IInv, NEW h \in Handles, Referenced(h)
        PROVE  destroys[h] = 0
    BY <2>1, CountPositive DEF IInv, Alive
  <2> QED
    BY <2>1 DEF IInv, NoUseAfterDestroy
<1> QED
  BY <1>1, Invariance, PTL

\* What cannot be reached any more was destroyed.
THEOREM LeakFree == Spec => []NothingLeaked
<1>1. IInv => NothingLeaked
  <2>1. ASSUME IInv, NEW h \in Handles, kind[h] # "none", ~Referenced(h)
        PROVE  destroys[h] = 1
    <3>1. rc[h] \in Nat /\ ~(rc[h] >= 1)
      BY <2>1, CountPositive DEF IInv, TypeOK
    <3> QED
      BY <2>1, <3>1 DEF IInv, Alive
  <2> QED
    BY <2>1 DEF NothingLeaked
<1> QED
  BY <1>1, Invariance, PTL

\* open_all returns with a full pool, and no process creates two databases for
\* a key, whatever other processes open at the same time.
THEOREM PoolFilled == Spec => []OpenAllFills
<1>1. IInv => OpenAllFills
  <2>1. ASSUME IInv, NEW p \in Procs, pc[p] = "idle", call[p] = "open_all"
        PROVE  \A k \in Keys : pool[k] # None
    <3>1. todo[p] = <<>>
      BY <2>1 DEF IInv, OpenInv
    <3>2. DOMAIN todo[p] = {}
      BY <3>1
    <3> QED
      BY <2>1, <3>2 DEF IInv, OpenInv
  <2>2. ASSUME IInv, NEW p \in Procs, NEW k \in Keys
        PROVE  made[p][k] <= 1
    BY <2>2 DEF IInv, MadeInv
  <2> QED
    BY <2>1, <2>2 DEF OpenAllFills
<1> QED
  BY <1>1, Invariance, PTL

=============================================================================
