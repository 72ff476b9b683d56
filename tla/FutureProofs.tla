---------------------------- MODULE FutureProofs ----------------------------
(***************************************************************************)
(* Every step of Future preserves IInv, for any number of futures and of   *)
(* processes; the safety invariants follow.  The steps that change the     *)
(* reference count come first, the others after them.                      *)
(***************************************************************************)
EXTENDS Future, FiniteSetTheorems, TLAPS

USE FutureAssumption
USE DEF CbSteps, CbHolds, CbRuns, CreatePcs, CancelPcs, FlushPcs, WaitPcs,
        BlockPcs, UsePcs, ErlangPcs, Pcs, Ops, Rets, Threads

\* RefCountExact for one future.
RefAt(f) == rc[f] = CreatorRefs(f) + CallbackRefs(f) + Cardinality(holders[f])

\* What the invariant says about the count of one future, with the ranges of
\* the summands.
RefCounts(f) ==
    /\ RefAt(f) /\ rc[f] \in Nat /\ Cardinality(holders[f]) \in Nat
    /\ CreatorRefs(f) \in {0, 1} /\ CallbackRefs(f) \in {0, 1}
    /\ phase[f] = "live" <=> rc[f] > 0

\* The set of holders of a future is finite: what adding or removing one does
\* to its cardinality.
LEMMA HoldersCard ==
  ASSUME TypeOK, NEW f \in Futures
  PROVE  /\ Cardinality(holders[f]) \in Nat
         /\ Cardinality(holders[f]) = 0 <=> holders[f] = {}
         /\ \A p \in Procs \ holders[f] :
              Cardinality(holders[f] \cup {p}) = Cardinality(holders[f]) + 1
         /\ \A p \in holders[f] :
              Cardinality(holders[f] \ {p}) = Cardinality(holders[f]) - 1
<1>1. IsFiniteSet(holders[f])
  BY FS_Subset DEF TypeOK
<1> QED
  BY <1>1, FS_CardinalityType, FS_EmptySet, FS_AddElement, FS_RemoveElement

\* A step that changes none of a future's references keeps its count exact.
LEMMA RefSame ==
  ASSUME RefCountExact, NEW g \in Futures,
         rc'[g] = rc[g], holders'[g] = holders[g],
         cb'[g] \in CbHolds <=> cb[g] \in CbHolds,
         \A q \in Procs : Creating(q, g)' <=> Creating(q, g)
  PROVE  RefAt(g)'
<1>1. CreatorRefs(g)' = CreatorRefs(g)
  BY DEF CreatorRefs
<1>2. CallbackRefs(g)' = CallbackRefs(g)
  BY DEF CallbackRefs
<1> QED
  BY <1>1, <1>2 DEF RefCountExact, RefAt

\* The invariant implies these facts.
LEMMA RefFacts ==
  ASSUME IInv, NEW g \in Futures
  PROVE  /\ RefCounts(g)
         /\ CreatorRefs(g) = 1 <=> \E p \in Procs : Creating(p, g)
         /\ CallbackRefs(g) = 1 <=> cb[g] \in CbHolds
<1>1. /\ CreatorRefs(g) = 1 <=> \E p \in Procs : Creating(p, g)
      /\ CreatorRefs(g) \in {0, 1}
  BY DEF CreatorRefs
<1>2. /\ CallbackRefs(g) = 1 <=> cb[g] \in CbHolds
      /\ CallbackRefs(g) \in {0, 1}
  BY DEF CallbackRefs
<1>3. Cardinality(holders[g]) \in Nat
  BY HoldersCard DEF IInv
<1> QED
  BY <1>1, <1>2, <1>3
     DEF IInv, TypeOK, RefCountExact, RefAt, PhaseInv, RefCounts

\* The count starts at 2: the allocation's reference and the callback's.
LEMMA Step_create_future ==
  ASSUME IInv, NEW p \in Procs, NEW f \in Futures, NEW to \in Procs,
         create_future(p, f, to)
  PROVE  IInv'
<1> USE DEF create_future, Call, IInv, TypeOK
<1>1. RefAt(f)' /\ rc'[f] \in Nat /\ (phase'[f] = "live" <=> rc'[f] > 0)
  <2>1. CreatorRefs(f)' = 1 /\ CallbackRefs(f)' = 1
    BY DEF CreatorRefs, CallbackRefs, Creating
  <2>2. holders'[f] = {}
    BY DEF PhaseInv
  <2> QED
    BY <2>1, <2>2, FS_EmptySet DEF RefAt
<1>2. RefCountExact'
  <2> SUFFICES ASSUME NEW g \in Futures, g # f
               PROVE  RefAt(g)'
    BY <1>1 DEF RefCountExact, RefAt
  <2> QED
    BY RefSame DEF Creating
<1>3. TypeOK'
  BY <1>1
<1>4. PhaseInv'
  BY <1>1 DEF PhaseInv
<1>5. CallInv'
  BY DEF CallInv, PhaseInv
<1>6. LockInv' /\ CallbackInv'
  BY DEF PhaseInv, CallInv, LockInv, CallbackInv, InCallback
<1>7. AtMostOneMessage' /\ ReceivedInv' /\ QuietAfterReturn'
  BY DEF PhaseInv, CallInv, CallbackInv, AtMostOneMessage, ReceivedInv,
         QuietAfterReturn, MaySend
<1> QED
  BY <1>1, <1>2, <1>3, <1>4, <1>5, <1>6, <1>7

\* A callback that could not be set gives both references back.
LEMMA Step_set_callback_error ==
  ASSUME IInv, NEW p \in Procs, set_callback_error(p)
  PROVE  IInv'
<1> PICK f \in Futures : f = tgt[p]
  BY DEF IInv, TypeOK
<1> USE DEF set_callback_error, Return, IInv, TypeOK
<1>1. RefAt(f)' /\ rc'[f] \in Nat /\ (phase'[f] = "live" <=> rc'[f] > 0)
  <2>1. /\ CreatorRefs(f) = 1 /\ CreatorRefs(f)' = 0
        /\ CallbackRefs(f) = 1 /\ CallbackRefs(f)' = 0
        /\ holders'[f] = holders[f]
    BY DEF CreatorRefs, CallbackRefs, Creating, CallInv
  <2>2. /\ rc'[f] = rc[f] - 2
        /\ phase'[f] = IF rc[f] = 2 THEN "freed" ELSE phase[f]
    OBVIOUS
  <2>3. RefCounts(f)
    BY RefFacts
  <2>4. QED
    <3> HIDE DEF IInv, TypeOK, set_callback_error
    <3> QED
      BY <2>1, <2>2, <2>3 DEF RefAt, RefCounts
<1>2. RefCountExact'
  <2> SUFFICES ASSUME NEW g \in Futures, g # f
               PROVE  RefAt(g)'
    BY <1>1 DEF RefCountExact, RefAt
  <2> QED
    BY RefSame DEF Creating
<1>3. TypeOK'
  BY <1>1
<1>4. PhaseInv'
  BY <1>1 DEF PhaseInv
<1>5. CallInv'
  BY DEF CallInv, PhaseInv
<1>6. LockInv' /\ CallbackInv'
  BY DEF PhaseInv, CallInv, LockInv, CallbackInv, InCallback
<1>7. AtMostOneMessage' /\ ReceivedInv' /\ QuietAfterReturn'
  BY DEF PhaseInv, CallInv, CallbackInv, AtMostOneMessage, ReceivedInv,
         QuietAfterReturn, MaySend
<1> QED
  BY <1>1, <1>2, <1>3, <1>4, <1>5, <1>6, <1>7

\* The caller's term is a new reference.
LEMMA Step_make_resource ==
  ASSUME IInv, NEW p \in Procs, make_resource(p)
  PROVE  IInv'
<1> PICK f \in Futures : f = tgt[p]
  BY DEF IInv, TypeOK
<1> USE DEF make_resource, Goto, IInv, TypeOK
<1>1. RefAt(f)' /\ rc'[f] \in Nat /\ (phase'[f] = "live" <=> rc'[f] > 0)
  <2>1. /\ CreatorRefs(f)' = CreatorRefs(f) /\ CallbackRefs(f)' = CallbackRefs(f)
        /\ CreatorRefs(f) = 1
    BY DEF CreatorRefs, CallbackRefs, Creating
  <2>2. Cardinality(holders'[f]) = Cardinality(holders[f]) + 1
    <3>1. holders[f] = {} /\ holders'[f] = {p}
      BY DEF CallInv
    <3>2. Cardinality({}) = 0 /\ Cardinality({p}) = 1
      BY FS_EmptySet, FS_Singleton
    <3> QED
      BY <3>1, <3>2
  <2>3. /\ rc'[f] = rc[f] + 1
        /\ phase'[f] = phase[f]
    OBVIOUS
  <2>4. RefCounts(f)
    BY RefFacts
  <2>5. QED
    <3> HIDE DEF IInv, TypeOK, make_resource
    <3> QED
      BY <2>1, <2>2, <2>3, <2>4 DEF RefAt, RefCounts
<1>2. RefCountExact'
  <2> SUFFICES ASSUME NEW g \in Futures, g # f
               PROVE  RefAt(g)'
    BY <1>1 DEF RefCountExact, RefAt
  <2> QED
    BY RefSame DEF Creating
<1>3. TypeOK'
  BY <1>1
<1>4. PhaseInv'
  BY <1>1 DEF PhaseInv
<1>5. CallInv'
  BY DEF CallInv, PhaseInv
<1>6. LockInv' /\ CallbackInv'
  BY DEF PhaseInv, CallInv, LockInv, CallbackInv, InCallback
<1>7. AtMostOneMessage' /\ ReceivedInv' /\ QuietAfterReturn'
  BY DEF PhaseInv, CallInv, CallbackInv, AtMostOneMessage, ReceivedInv,
         QuietAfterReturn, MaySend
<1> QED
  BY <1>1, <1>2, <1>3, <1>4, <1>5, <1>6, <1>7

\* The allocation's reference is given back.
LEMMA Step_create_release ==
  ASSUME IInv, NEW p \in Procs, create_release(p)
  PROVE  IInv'
<1> PICK f \in Futures : f = tgt[p]
  BY DEF IInv, TypeOK
<1> USE DEF create_release, Release, Return, IInv, TypeOK
<1>1. RefAt(f)' /\ rc'[f] \in Nat /\ (phase'[f] = "live" <=> rc'[f] > 0)
  <2>1. /\ CreatorRefs(f) = 1 /\ CreatorRefs(f)' = 0
        /\ CallbackRefs(f)' = CallbackRefs(f)
        /\ holders'[f] = holders[f]
    BY DEF CreatorRefs, CallbackRefs, Creating, CallInv
  <2>2. /\ rc'[f] = rc[f] - 1
        /\ phase'[f] = IF rc[f] = 1 THEN "freed" ELSE phase[f]
    OBVIOUS
  <2>3. RefCounts(f)
    BY RefFacts
  <2>4. QED
    <3> HIDE DEF IInv, TypeOK, create_release, Release
    <3> QED
      BY <2>1, <2>2, <2>3 DEF RefAt, RefCounts
<1>2. RefCountExact'
  <2> SUFFICES ASSUME NEW g \in Futures, g # f
               PROVE  RefAt(g)'
    BY <1>1 DEF RefCountExact, RefAt
  <2> QED
    BY RefSame DEF Creating
<1>3. TypeOK'
  BY <1>1
<1>4. PhaseInv'
  BY <1>1 DEF PhaseInv
<1>5. CallInv'
  BY DEF CallInv, PhaseInv
<1>6. LockInv' /\ CallbackInv'
  BY DEF PhaseInv, CallInv, LockInv, CallbackInv, InCallback
<1>7. AtMostOneMessage' /\ ReceivedInv' /\ QuietAfterReturn'
  BY DEF PhaseInv, CallInv, CallbackInv, AtMostOneMessage, ReceivedInv,
         QuietAfterReturn, MaySend
<1> QED
  BY <1>1, <1>2, <1>3, <1>4, <1>5, <1>6, <1>7

\* The callback's reference is given back.
LEMMA Step_cb_release ==
  ASSUME IInv, NEW f \in Futures, cb_release(f)
  PROVE  IInv'
<1> USE DEF cb_release, Release, procVars, IInv, TypeOK
<1>1. RefAt(f)' /\ rc'[f] \in Nat /\ (phase'[f] = "live" <=> rc'[f] > 0)
  <2>1. /\ CreatorRefs(f)' = CreatorRefs(f)
        /\ CallbackRefs(f) = 1 /\ CallbackRefs(f)' = 0
        /\ holders'[f] = holders[f]
    BY DEF CreatorRefs, CallbackRefs, Creating
  <2>2. /\ rc'[f] = rc[f] - 1
        /\ phase'[f] = IF rc[f] = 1 THEN "freed" ELSE phase[f]
    OBVIOUS
  <2>3. RefCounts(f)
    BY RefFacts
  <2>4. QED
    <3> HIDE DEF IInv, TypeOK, cb_release, Release
    <3> QED
      BY <2>1, <2>2, <2>3 DEF RefAt, RefCounts
<1>2. RefCountExact'
  <2> SUFFICES ASSUME NEW g \in Futures, g # f
               PROVE  RefAt(g)'
    BY <1>1 DEF RefCountExact, RefAt
  <2> QED
    BY RefSame DEF Creating
<1>3. TypeOK'
  BY <1>1
<1>4. PhaseInv'
  BY <1>1 DEF PhaseInv
<1>5. CallInv'
  BY DEF CallInv, PhaseInv
<1>6. LockInv' /\ CallbackInv'
  BY DEF PhaseInv, CallInv, LockInv, CallbackInv, InCallback
<1>7. AtMostOneMessage' /\ ReceivedInv' /\ QuietAfterReturn'
  BY DEF PhaseInv, CallInv, CallbackInv, AtMostOneMessage, ReceivedInv,
         QuietAfterReturn, MaySend
<1> QED
  BY <1>1, <1>2, <1>3, <1>4, <1>5, <1>6, <1>7

\* Another process gets a term.
LEMMA Step_share ==
  ASSUME IInv, NEW p \in Procs, NEW q \in Procs, NEW f \in Futures,
         share(p, q, f)
  PROVE  IInv'
<1> USE DEF share, procVars, IInv, TypeOK
<1>1. RefAt(f)' /\ rc'[f] \in Nat /\ (phase'[f] = "live" <=> rc'[f] > 0)
  <2>1. CreatorRefs(f)' = CreatorRefs(f) /\ CallbackRefs(f)' = CallbackRefs(f)
    BY DEF CreatorRefs, CallbackRefs, Creating
  <2>2. Cardinality(holders'[f]) = Cardinality(holders[f]) + 1
    BY HoldersCard
  <2>3. Cardinality(holders[f]) # 0
    BY HoldersCard
  <2>4. /\ rc'[f] = rc[f] + 1
        /\ phase'[f] = phase[f]
    OBVIOUS
  <2>5. RefCounts(f)
    BY RefFacts
  <2>6. QED
    <3> HIDE DEF IInv, TypeOK, share
    <3> QED
      BY <2>1, <2>2, <2>3, <2>4, <2>5 DEF RefAt, RefCounts
<1>2. RefCountExact'
  <2> SUFFICES ASSUME NEW g \in Futures, g # f
               PROVE  RefAt(g)'
    BY <1>1 DEF RefCountExact, RefAt
  <2> QED
    BY RefSame DEF Creating
<1>3. TypeOK'
  BY <1>1
<1>4. PhaseInv'
  BY <1>1 DEF PhaseInv
<1>5. CallInv'
  BY DEF CallInv, PhaseInv
<1>6. LockInv' /\ CallbackInv'
  BY DEF PhaseInv, CallInv, LockInv, CallbackInv, InCallback
<1>7. AtMostOneMessage' /\ ReceivedInv' /\ QuietAfterReturn'
  BY DEF PhaseInv, CallInv, CallbackInv, AtMostOneMessage, ReceivedInv,
         QuietAfterReturn, MaySend
<1> QED
  BY <1>1, <1>2, <1>3, <1>4, <1>5, <1>6, <1>7

\* A process drops its term.
LEMMA Step_drop ==
  ASSUME IInv, NEW p \in Procs, NEW f \in Futures, drop(p, f)
  PROVE  IInv'
<1> USE DEF drop, Release, procVars, IInv, TypeOK
<1>1. RefAt(f)' /\ rc'[f] \in Nat /\ (phase'[f] = "live" <=> rc'[f] > 0)
  <2>1. CreatorRefs(f)' = CreatorRefs(f) /\ CallbackRefs(f)' = CallbackRefs(f)
    BY DEF CreatorRefs, CallbackRefs, Creating
  <2>2. Cardinality(holders'[f]) = Cardinality(holders[f]) - 1
    BY HoldersCard
  <2>3. Cardinality(holders[f]) # 0
    BY HoldersCard
  <2>4. /\ rc'[f] = rc[f] - 1
        /\ phase'[f] = IF rc[f] = 1 THEN "freed" ELSE phase[f]
    OBVIOUS
  <2>5. RefCounts(f)
    BY RefFacts
  <2>6. QED
    <3> HIDE DEF IInv, TypeOK, drop, Release
    <3> QED
      BY <2>1, <2>2, <2>3, <2>4, <2>5 DEF RefAt, RefCounts
<1>2. RefCountExact'
  <2> SUFFICES ASSUME NEW g \in Futures, g # f
               PROVE  RefAt(g)'
    BY <1>1 DEF RefCountExact, RefAt
  <2> QED
    BY RefSame DEF Creating
<1>3. TypeOK'
  BY <1>1
<1>4. PhaseInv'
  BY <1>1 DEF PhaseInv
<1>5. CallInv'
  BY DEF CallInv, PhaseInv
<1>6. LockInv' /\ CallbackInv'
  BY DEF PhaseInv, CallInv, LockInv, CallbackInv, InCallback
<1>7. AtMostOneMessage' /\ ReceivedInv' /\ QuietAfterReturn'
  BY DEF PhaseInv, CallInv, CallbackInv, AtMostOneMessage, ReceivedInv,
         QuietAfterReturn, MaySend
<1> QED
  BY <1>1, <1>2, <1>3, <1>4, <1>5, <1>6, <1>7

\* A process that exits drops all its terms.
LEMMA Step_exit ==
  ASSUME IInv, NEW p \in Procs, exit(p)
  PROVE  IInv'
<1> USE DEF exit, IInv, TypeOK
<1>1. ASSUME NEW f \in Futures
      PROVE  RefAt(f)' /\ rc'[f] \in Nat /\ (phase'[f] = "live" <=> rc'[f] > 0)
  <2>1. CreatorRefs(f)' = CreatorRefs(f) /\ CallbackRefs(f)' = CallbackRefs(f)
    BY DEF CreatorRefs, CallbackRefs, Creating
  <2>2. CASE p \in holders[f]
    <3>1. /\ Cardinality(holders'[f]) = Cardinality(holders[f]) - 1
          /\ Cardinality(holders[f]) # 0
      BY <2>2, HoldersCard
    <3>2. /\ rc'[f] = rc[f] - 1
          /\ phase'[f] = IF rc[f] = 1 THEN "freed" ELSE phase[f]
      BY <2>2
    <3>3. RefCounts(f)
      BY RefFacts
    <3>4. QED
      <4> HIDE DEF IInv, TypeOK, exit
      <4> QED
        BY <2>1, <3>1, <3>2, <3>3 DEF RefAt, RefCounts
  <2>3. CASE p \notin holders[f]
    <3>1. holders'[f] = holders[f] /\ rc'[f] = rc[f] /\ phase'[f] = phase[f]
      BY <2>3
    <3>2. RefCounts(f)
      BY RefFacts
    <3>3. QED
      <4> HIDE DEF IInv, TypeOK, exit
      <4> QED
        BY <2>1, <3>1, <3>2 DEF RefAt, RefCounts
  <2> QED
    BY <2>2, <2>3
<1>2. RefCountExact'
  BY <1>1 DEF RefCountExact, RefAt
<1>3. TypeOK'
  BY <1>1
<1>4. PhaseInv'
  BY <1>1 DEF PhaseInv
<1>5. CallInv'
  BY DEF CallInv, PhaseInv
<1>6. LockInv' /\ CallbackInv'
  BY DEF PhaseInv, CallInv, LockInv, CallbackInv, InCallback
<1>7. AtMostOneMessage' /\ ReceivedInv' /\ QuietAfterReturn'
  BY DEF PhaseInv, CallInv, CallbackInv, AtMostOneMessage, ReceivedInv,
         QuietAfterReturn, MaySend
<1> QED
  BY <1>1, <1>2, <1>3, <1>4, <1>5, <1>6, <1>7

\* The steps that change no reference count: RefSame keeps the counts exact.
LEMMA RefFrame ==
  ASSUME RefCountExact, rc' = rc, holders' = holders,
         \A g \in Futures : cb'[g] \in CbHolds <=> cb[g] \in CbHolds,
         \A g \in Futures, q \in Procs : Creating(q, g)' <=> Creating(q, g)
  PROVE  RefCountExact'
BY RefSame DEF RefCountExact, RefAt

\* Nothing was referred to yet.
LEMMA Step_create_future_no_lock ==
  ASSUME IInv, NEW p \in Procs, NEW f \in Futures, create_future_no_lock(p, f)
  PROVE  IInv'
<1> USE DEF create_future_no_lock, CallRaises, IInv, TypeOK
<1>1. TypeOK' /\ PhaseInv' /\ CallInv'
  BY DEF PhaseInv, CallInv, InCallback
<1>2. RefCountExact'
  BY RefFrame DEF Creating, CallInv
<1>3. LockInv' /\ CallbackInv'
  BY DEF PhaseInv, CallInv, LockInv, CallbackInv, InCallback
<1>4. AtMostOneMessage' /\ ReceivedInv' /\ QuietAfterReturn'
  BY DEF PhaseInv, CallInv, CallbackInv, AtMostOneMessage, ReceivedInv,
         QuietAfterReturn, MaySend, InCallback
<1> QED
  BY <1>1, <1>2, <1>3, <1>4

\* Nothing was referred to yet.
LEMMA Step_create_future_no_env ==
  ASSUME IInv, NEW p \in Procs, NEW f \in Futures, create_future_no_env(p, f)
  PROVE  IInv'
<1> USE DEF create_future_no_env, CallRaises, IInv, TypeOK
<1>1. TypeOK' /\ PhaseInv' /\ CallInv'
  BY DEF PhaseInv, CallInv, InCallback
<1>2. RefCountExact'
  BY RefFrame DEF Creating, CallInv
<1>3. LockInv' /\ CallbackInv'
  BY DEF PhaseInv, CallInv, LockInv, CallbackInv, InCallback
<1>4. AtMostOneMessage' /\ ReceivedInv' /\ QuietAfterReturn'
  BY DEF PhaseInv, CallInv, CallbackInv, AtMostOneMessage, ReceivedInv,
         QuietAfterReturn, MaySend, InCallback
<1> QED
  BY <1>1, <1>2, <1>3, <1>4

\* The callback begins on the creating thread.
LEMMA Step_set_callback_sync ==
  ASSUME IInv, NEW p \in Procs, set_callback_sync(p)
  PROVE  IInv'
<1> USE DEF set_callback_sync, Goto, Ready, IInv, TypeOK
<1>1. TypeOK' /\ PhaseInv' /\ CallInv'
  BY DEF PhaseInv, CallInv, InCallback
<1>2. RefCountExact'
  BY RefFrame DEF Creating, CallInv
<1>3. LockInv' /\ CallbackInv'
  BY DEF PhaseInv, CallInv, LockInv, CallbackInv, InCallback
<1>4. AtMostOneMessage' /\ ReceivedInv' /\ QuietAfterReturn'
  BY DEF PhaseInv, CallInv, CallbackInv, AtMostOneMessage, ReceivedInv,
         QuietAfterReturn, MaySend, InCallback
<1> QED
  BY <1>1, <1>2, <1>3, <1>4

\* The callback is left to the library's thread.
LEMMA Step_set_callback_async ==
  ASSUME IInv, NEW p \in Procs, set_callback_async(p)
  PROVE  IInv'
<1> USE DEF set_callback_async, Goto, Ready, IInv, TypeOK
<1>1. TypeOK' /\ PhaseInv' /\ CallInv'
  BY DEF PhaseInv, CallInv, InCallback
<1>2. RefCountExact'
  BY RefFrame DEF Creating, CallInv
<1>3. LockInv' /\ CallbackInv'
  BY DEF PhaseInv, CallInv, LockInv, CallbackInv, InCallback
<1>4. AtMostOneMessage' /\ ReceivedInv' /\ QuietAfterReturn'
  BY DEF PhaseInv, CallInv, CallbackInv, AtMostOneMessage, ReceivedInv,
         QuietAfterReturn, MaySend, InCallback
<1> QED
  BY <1>1, <1>2, <1>3, <1>4

\* A call of wait.
LEMMA Step_wait ==
  ASSUME IInv, NEW p \in Procs, NEW f \in Futures, wait(p, f)
  PROVE  IInv'
<1> USE DEF wait, Call, futureVars, IInv, TypeOK
<1>1. TypeOK' /\ PhaseInv' /\ CallInv'
  BY DEF PhaseInv, CallInv, InCallback
<1>2. RefCountExact'
  BY RefFrame DEF Creating, CallInv
<1>3. LockInv' /\ CallbackInv'
  BY DEF PhaseInv, CallInv, LockInv, CallbackInv, InCallback
<1>4. AtMostOneMessage' /\ ReceivedInv' /\ QuietAfterReturn'
  BY DEF PhaseInv, CallInv, CallbackInv, AtMostOneMessage, ReceivedInv,
         QuietAfterReturn, MaySend, InCallback
<1> QED
  BY <1>1, <1>2, <1>3, <1>4

\* wait asks whether the future is ready.
LEMMA Step_wait_is_ready ==
  ASSUME IInv, NEW p \in Procs, wait_is_ready(p)
  PROVE  IInv'
<1> USE DEF wait_is_ready, Goto, Ready, futureVars, IInv, TypeOK
<1>1. TypeOK' /\ PhaseInv' /\ CallInv'
  BY DEF PhaseInv, CallInv, InCallback
<1>2. RefCountExact'
  BY RefFrame DEF Creating, CallInv
<1>3. LockInv' /\ CallbackInv'
  BY DEF PhaseInv, CallInv, LockInv, CallbackInv, InCallback
<1>4. AtMostOneMessage' /\ ReceivedInv' /\ QuietAfterReturn'
  BY DEF PhaseInv, CallInv, CallbackInv, AtMostOneMessage, ReceivedInv,
         QuietAfterReturn, MaySend, InCallback
<1> QED
  BY <1>1, <1>2, <1>3, <1>4

\* wait goes on to flush.
LEMMA Step_wait_get ==
  ASSUME IInv, NEW p \in Procs, wait_get(p)
  PROVE  IInv'
<1> USE DEF wait_get, Goto, futureVars, IInv, TypeOK
<1>1. TypeOK' /\ PhaseInv' /\ CallInv'
  BY DEF PhaseInv, CallInv, InCallback
<1>2. RefCountExact'
  BY RefFrame DEF Creating, CallInv
<1>3. LockInv' /\ CallbackInv'
  BY DEF PhaseInv, CallInv, LockInv, CallbackInv, InCallback
<1>4. AtMostOneMessage' /\ ReceivedInv' /\ QuietAfterReturn'
  BY DEF PhaseInv, CallInv, CallbackInv, AtMostOneMessage, ReceivedInv,
         QuietAfterReturn, MaySend, InCallback
<1> QED
  BY <1>1, <1>2, <1>3, <1>4

\* wait raises.
LEMMA Step_wait_get_error ==
  ASSUME IInv, NEW p \in Procs, wait_get_error(p)
  PROVE  IInv'
<1> USE DEF wait_get_error, Return, futureVars, IInv, TypeOK
<1>1. TypeOK' /\ PhaseInv' /\ CallInv'
  BY DEF PhaseInv, CallInv, InCallback
<1>2. RefCountExact'
  BY RefFrame DEF Creating, CallInv
<1>3. LockInv' /\ CallbackInv'
  BY DEF PhaseInv, CallInv, LockInv, CallbackInv, InCallback
<1>4. AtMostOneMessage' /\ ReceivedInv' /\ QuietAfterReturn'
  BY DEF PhaseInv, CallInv, CallbackInv, AtMostOneMessage, ReceivedInv,
         QuietAfterReturn, MaySend, InCallback
<1> QED
  BY <1>1, <1>2, <1>3, <1>4

\* The message taken was the only one, and the callback is past its send.
LEMMA Step_wait_receive ==
  ASSUME IInv, NEW p \in Procs, wait_receive(p)
  PROVE  IInv'
<1> USE DEF wait_receive, Goto, Consume, IInv, TypeOK
<1>1. TypeOK' /\ PhaseInv' /\ CallInv'
  BY DEF PhaseInv, CallInv, InCallback
<1>2. RefCountExact'
  BY RefFrame DEF Creating, CallInv
<1>3. LockInv' /\ CallbackInv'
  BY DEF PhaseInv, CallInv, LockInv, CallbackInv, InCallback
<1>4. AtMostOneMessage' /\ ReceivedInv' /\ QuietAfterReturn'
  BY DEF PhaseInv, CallInv, CallbackInv, AtMostOneMessage, ReceivedInv,
         QuietAfterReturn, MaySend, InCallback
<1> QED
  BY <1>1, <1>2, <1>3, <1>4

\* wait returns after its receive: ReceivedInv.
LEMMA Step_wait_receive_get ==
  ASSUME IInv, NEW p \in Procs, wait_receive_get(p)
  PROVE  IInv'
<1> USE DEF wait_receive_get, Return, futureVars, IInv, TypeOK
<1>1. TypeOK' /\ PhaseInv' /\ CallInv'
  BY DEF PhaseInv, CallInv, InCallback
<1>2. RefCountExact'
  BY RefFrame DEF Creating, CallInv
<1>3. LockInv' /\ CallbackInv'
  BY DEF PhaseInv, CallInv, LockInv, CallbackInv, InCallback
<1>4. AtMostOneMessage' /\ ReceivedInv' /\ QuietAfterReturn'
  BY DEF PhaseInv, CallInv, CallbackInv, AtMostOneMessage, ReceivedInv,
         QuietAfterReturn, MaySend, InCallback
<1> QED
  BY <1>1, <1>2, <1>3, <1>4

\* wait raises a timeout.
LEMMA Step_wait_timeout ==
  ASSUME IInv, NEW p \in Procs, wait_timeout(p)
  PROVE  IInv'
<1> USE DEF wait_timeout, Return, futureVars, IInv, TypeOK
<1>1. TypeOK' /\ PhaseInv' /\ CallInv'
  BY DEF PhaseInv, CallInv, InCallback
<1>2. RefCountExact'
  BY RefFrame DEF Creating, CallInv
<1>3. LockInv' /\ CallbackInv'
  BY DEF PhaseInv, CallInv, LockInv, CallbackInv, InCallback
<1>4. AtMostOneMessage' /\ ReceivedInv' /\ QuietAfterReturn'
  BY DEF PhaseInv, CallInv, CallbackInv, AtMostOneMessage, ReceivedInv,
         QuietAfterReturn, MaySend, InCallback
<1> QED
  BY <1>1, <1>2, <1>3, <1>4

\* silence takes the lock.
LEMMA Step_silence_lock ==
  ASSUME IInv, NEW p \in Procs, silence_lock(p)
  PROVE  IInv'
<1> USE DEF silence_lock, LockFuture, Goto, IInv, TypeOK
<1>1. TypeOK' /\ PhaseInv' /\ CallInv'
  BY DEF PhaseInv, CallInv, InCallback
<1>2. RefCountExact'
  BY RefFrame DEF Creating, CallInv
<1>3. LockInv' /\ CallbackInv'
  BY DEF PhaseInv, CallInv, LockInv, CallbackInv, InCallback
<1>4. AtMostOneMessage' /\ ReceivedInv' /\ QuietAfterReturn'
  BY DEF PhaseInv, CallInv, CallbackInv, AtMostOneMessage, ReceivedInv,
         QuietAfterReturn, MaySend, InCallback
<1> QED
  BY <1>1, <1>2, <1>3, <1>4

\* From here on the callback sends nothing.
LEMMA Step_silence_set ==
  ASSUME IInv, NEW p \in Procs, silence_set(p)
  PROVE  IInv'
<1> USE DEF silence_set, SetCancelled, Goto, IInv, TypeOK
<1>1. TypeOK' /\ PhaseInv' /\ CallInv'
  BY DEF PhaseInv, CallInv, InCallback
<1>2. RefCountExact'
  BY RefFrame DEF Creating, CallInv
<1>3. LockInv' /\ CallbackInv'
  BY DEF PhaseInv, CallInv, LockInv, CallbackInv, InCallback
<1>4. AtMostOneMessage' /\ ReceivedInv' /\ QuietAfterReturn'
  BY DEF PhaseInv, CallInv, CallbackInv, AtMostOneMessage, ReceivedInv,
         QuietAfterReturn, MaySend, InCallback
<1> QED
  BY <1>1, <1>2, <1>3, <1>4

\* The message taken was the only one, and the flag is set.
LEMMA Step_flush_message ==
  ASSUME IInv, NEW p \in Procs, flush_message(p)
  PROVE  IInv'
<1> USE DEF flush_message, Consume, Return, IInv, TypeOK
<1>1. TypeOK' /\ PhaseInv' /\ CallInv'
  BY DEF PhaseInv, CallInv, InCallback
<1>2. RefCountExact'
  BY RefFrame DEF Creating, CallInv
<1>3. LockInv' /\ CallbackInv'
  BY DEF PhaseInv, CallInv, LockInv, CallbackInv, InCallback
<1>4. AtMostOneMessage' /\ ReceivedInv' /\ QuietAfterReturn'
  BY DEF PhaseInv, CallInv, CallbackInv, AtMostOneMessage, ReceivedInv,
         QuietAfterReturn, MaySend, InCallback
<1> QED
  BY <1>1, <1>2, <1>3, <1>4

\* There is no message, and the flag is set.
LEMMA Step_flush_nothing ==
  ASSUME IInv, NEW p \in Procs, flush_nothing(p)
  PROVE  IInv'
<1> USE DEF flush_nothing, Return, futureVars, IInv, TypeOK
<1>1. TypeOK' /\ PhaseInv' /\ CallInv'
  BY DEF PhaseInv, CallInv, InCallback
<1>2. RefCountExact'
  BY RefFrame DEF Creating, CallInv
<1>3. LockInv' /\ CallbackInv'
  BY DEF PhaseInv, CallInv, LockInv, CallbackInv, InCallback
<1>4. AtMostOneMessage' /\ ReceivedInv' /\ QuietAfterReturn'
  BY DEF PhaseInv, CallInv, CallbackInv, AtMostOneMessage, ReceivedInv,
         QuietAfterReturn, MaySend, InCallback
<1> QED
  BY <1>1, <1>2, <1>3, <1>4

\* A call of cancel.
LEMMA Step_cancel ==
  ASSUME IInv, NEW p \in Procs, NEW f \in Futures, cancel(p, f)
  PROVE  IInv'
<1> USE DEF cancel, Call, futureVars, IInv, TypeOK
<1>1. TypeOK' /\ PhaseInv' /\ CallInv'
  BY DEF PhaseInv, CallInv, InCallback
<1>2. RefCountExact'
  BY RefFrame DEF Creating, CallInv
<1>3. LockInv' /\ CallbackInv'
  BY DEF PhaseInv, CallInv, LockInv, CallbackInv, InCallback
<1>4. AtMostOneMessage' /\ ReceivedInv' /\ QuietAfterReturn'
  BY DEF PhaseInv, CallInv, CallbackInv, AtMostOneMessage, ReceivedInv,
         QuietAfterReturn, MaySend, InCallback
<1> QED
  BY <1>1, <1>2, <1>3, <1>4

\* cancel takes the lock.
LEMMA Step_cancel_lock ==
  ASSUME IInv, NEW p \in Procs, cancel_lock(p)
  PROVE  IInv'
<1> USE DEF cancel_lock, LockFuture, Goto, IInv, TypeOK
<1>1. TypeOK' /\ PhaseInv' /\ CallInv'
  BY DEF PhaseInv, CallInv, InCallback
<1>2. RefCountExact'
  BY RefFrame DEF Creating, CallInv
<1>3. LockInv' /\ CallbackInv'
  BY DEF PhaseInv, CallInv, LockInv, CallbackInv, InCallback
<1>4. AtMostOneMessage' /\ ReceivedInv' /\ QuietAfterReturn'
  BY DEF PhaseInv, CallInv, CallbackInv, AtMostOneMessage, ReceivedInv,
         QuietAfterReturn, MaySend, InCallback
<1> QED
  BY <1>1, <1>2, <1>3, <1>4

\* cancel sets the flag before it calls the library.
LEMMA Step_cancel_set ==
  ASSUME IInv, NEW p \in Procs, cancel_set(p)
  PROVE  IInv'
<1> USE DEF cancel_set, SetCancelled, Goto, IInv, TypeOK
<1>1. TypeOK' /\ PhaseInv' /\ CallInv'
  BY DEF PhaseInv, CallInv, InCallback
<1>2. RefCountExact'
  BY RefFrame DEF Creating, CallInv
<1>3. LockInv' /\ CallbackInv'
  BY DEF PhaseInv, CallInv, LockInv, CallbackInv, InCallback
<1>4. AtMostOneMessage' /\ ReceivedInv' /\ QuietAfterReturn'
  BY DEF PhaseInv, CallInv, CallbackInv, AtMostOneMessage, ReceivedInv,
         QuietAfterReturn, MaySend, InCallback
<1> QED
  BY <1>1, <1>2, <1>3, <1>4

\* The library's thread will call back.
LEMMA Step_cancel_fdb ==
  ASSUME IInv, NEW p \in Procs, cancel_fdb(p)
  PROVE  IInv'
<1> USE DEF cancel_fdb, Goto, IInv, TypeOK
<1>1. TypeOK' /\ PhaseInv' /\ CallInv'
  BY DEF PhaseInv, CallInv, InCallback
<1>2. RefCountExact'
  BY RefFrame DEF Creating, CallInv
<1>3. LockInv' /\ CallbackInv'
  BY DEF PhaseInv, CallInv, LockInv, CallbackInv, InCallback
<1>4. AtMostOneMessage' /\ ReceivedInv' /\ QuietAfterReturn'
  BY DEF PhaseInv, CallInv, CallbackInv, AtMostOneMessage, ReceivedInv,
         QuietAfterReturn, MaySend, InCallback
<1> QED
  BY <1>1, <1>2, <1>3, <1>4

\* The callback begins on the cancelling thread, with the flag set.
LEMMA Step_cancel_fdb_sync ==
  ASSUME IInv, NEW p \in Procs, cancel_fdb_sync(p)
  PROVE  IInv'
<1> USE DEF cancel_fdb_sync, Goto, Ready, IInv, TypeOK
<1>1. TypeOK' /\ PhaseInv' /\ CallInv'
  BY DEF PhaseInv, CallInv, InCallback
<1>2. RefCountExact'
  BY RefFrame DEF Creating, CallInv
<1>3. LockInv' /\ CallbackInv'
  BY DEF PhaseInv, CallInv, LockInv, CallbackInv, InCallback
<1>4. AtMostOneMessage' /\ ReceivedInv' /\ QuietAfterReturn'
  BY DEF PhaseInv, CallInv, CallbackInv, AtMostOneMessage, ReceivedInv,
         QuietAfterReturn, MaySend, InCallback
<1> QED
  BY <1>1, <1>2, <1>3, <1>4

\* cancel goes on to flush.
LEMMA Step_cancel_flush ==
  ASSUME IInv, NEW p \in Procs, cancel_flush(p)
  PROVE  IInv'
<1> USE DEF cancel_flush, Goto, futureVars, IInv, TypeOK
<1>1. TypeOK' /\ PhaseInv' /\ CallInv'
  BY DEF PhaseInv, CallInv, InCallback
<1>2. RefCountExact'
  BY RefFrame DEF Creating, CallInv
<1>3. LockInv' /\ CallbackInv'
  BY DEF PhaseInv, CallInv, LockInv, CallbackInv, InCallback
<1>4. AtMostOneMessage' /\ ReceivedInv' /\ QuietAfterReturn'
  BY DEF PhaseInv, CallInv, CallbackInv, AtMostOneMessage, ReceivedInv,
         QuietAfterReturn, MaySend, InCallback
<1> QED
  BY <1>1, <1>2, <1>3, <1>4

\* cancel returns.
LEMMA Step_cancel_return ==
  ASSUME IInv, NEW p \in Procs, cancel_return(p)
  PROVE  IInv'
<1> USE DEF cancel_return, Return, futureVars, IInv, TypeOK
<1>1. TypeOK' /\ PhaseInv' /\ CallInv'
  BY DEF PhaseInv, CallInv, InCallback
<1>2. RefCountExact'
  BY RefFrame DEF Creating, CallInv
<1>3. LockInv' /\ CallbackInv'
  BY DEF PhaseInv, CallInv, LockInv, CallbackInv, InCallback
<1>4. AtMostOneMessage' /\ ReceivedInv' /\ QuietAfterReturn'
  BY DEF PhaseInv, CallInv, CallbackInv, AtMostOneMessage, ReceivedInv,
         QuietAfterReturn, MaySend, InCallback
<1> QED
  BY <1>1, <1>2, <1>3, <1>4

\* A call of block_until_ready.
LEMMA Step_block_until_ready ==
  ASSUME IInv, NEW p \in Procs, NEW f \in Futures, block_until_ready(p, f)
  PROVE  IInv'
<1> USE DEF block_until_ready, Call, futureVars, IInv, TypeOK
<1>1. TypeOK' /\ PhaseInv' /\ CallInv'
  BY DEF PhaseInv, CallInv, InCallback
<1>2. RefCountExact'
  BY RefFrame DEF Creating, CallInv
<1>3. LockInv' /\ CallbackInv'
  BY DEF PhaseInv, CallInv, LockInv, CallbackInv, InCallback
<1>4. AtMostOneMessage' /\ ReceivedInv' /\ QuietAfterReturn'
  BY DEF PhaseInv, CallInv, CallbackInv, AtMostOneMessage, ReceivedInv,
         QuietAfterReturn, MaySend, InCallback
<1> QED
  BY <1>1, <1>2, <1>3, <1>4

\* The message taken was the only one.
LEMMA Step_block_receive ==
  ASSUME IInv, NEW p \in Procs, block_receive(p)
  PROVE  IInv'
<1> USE DEF block_receive, Consume, Return, IInv, TypeOK
<1>1. TypeOK' /\ PhaseInv' /\ CallInv'
  BY DEF PhaseInv, CallInv, InCallback
<1>2. RefCountExact'
  BY RefFrame DEF Creating, CallInv
<1>3. LockInv' /\ CallbackInv'
  BY DEF PhaseInv, CallInv, LockInv, CallbackInv, InCallback
<1>4. AtMostOneMessage' /\ ReceivedInv' /\ QuietAfterReturn'
  BY DEF PhaseInv, CallInv, CallbackInv, AtMostOneMessage, ReceivedInv,
         QuietAfterReturn, MaySend, InCallback
<1> QED
  BY <1>1, <1>2, <1>3, <1>4

\* The library resolves a future.
LEMMA Step_fdb_resolve ==
  ASSUME IInv, NEW f \in Futures, fdb_resolve(f)
  PROVE  IInv'
<1> USE DEF fdb_resolve, Ready, procVars, IInv, TypeOK
<1>1. TypeOK' /\ PhaseInv' /\ CallInv'
  BY DEF PhaseInv, CallInv, InCallback
<1>2. RefCountExact'
  BY RefFrame DEF Creating, CallInv
<1>3. LockInv' /\ CallbackInv'
  BY DEF PhaseInv, CallInv, LockInv, CallbackInv, InCallback
<1>4. AtMostOneMessage' /\ ReceivedInv' /\ QuietAfterReturn'
  BY DEF PhaseInv, CallInv, CallbackInv, AtMostOneMessage, ReceivedInv,
         QuietAfterReturn, MaySend, InCallback
<1> QED
  BY <1>1, <1>2, <1>3, <1>4

\* The library's thread begins the callback.
LEMMA Step_fdb_call_back ==
  ASSUME IInv, NEW f \in Futures, fdb_call_back(f)
  PROVE  IInv'
<1> USE DEF fdb_call_back, Ready, procVars, IInv, TypeOK
<1>1. TypeOK' /\ PhaseInv' /\ CallInv'
  BY DEF PhaseInv, CallInv, InCallback
<1>2. RefCountExact'
  BY RefFrame DEF Creating, CallInv
<1>3. LockInv' /\ CallbackInv'
  BY DEF PhaseInv, CallInv, LockInv, CallbackInv, InCallback
<1>4. AtMostOneMessage' /\ ReceivedInv' /\ QuietAfterReturn'
  BY DEF PhaseInv, CallInv, CallbackInv, AtMostOneMessage, ReceivedInv,
         QuietAfterReturn, MaySend, InCallback
<1> QED
  BY <1>1, <1>2, <1>3, <1>4

\* The callback takes the lock.
LEMMA Step_cb_lock ==
  ASSUME IInv, NEW f \in Futures, cb_lock(f)
  PROVE  IInv'
<1> USE DEF cb_lock, procVars, IInv, TypeOK
<1>1. TypeOK' /\ PhaseInv' /\ CallInv'
  BY DEF PhaseInv, CallInv, InCallback
<1>2. RefCountExact'
  BY RefFrame DEF Creating, CallInv
<1>3. LockInv' /\ CallbackInv'
  BY DEF PhaseInv, CallInv, LockInv, CallbackInv, InCallback
<1>4. AtMostOneMessage' /\ ReceivedInv' /\ QuietAfterReturn'
  BY DEF PhaseInv, CallInv, CallbackInv, AtMostOneMessage, ReceivedInv,
         QuietAfterReturn, MaySend, InCallback
<1> QED
  BY <1>1, <1>2, <1>3, <1>4

\* The callback sends its only message.
LEMMA Step_cb_send ==
  ASSUME IInv, NEW f \in Futures, cb_send(f)
  PROVE  IInv'
<1> USE DEF cb_send, procVars, IInv, TypeOK
<1>1. TypeOK' /\ PhaseInv' /\ CallInv'
  BY DEF PhaseInv, CallInv, InCallback
<1>2. RefCountExact'
  BY RefFrame DEF Creating, CallInv
<1>3. LockInv' /\ CallbackInv'
  BY DEF PhaseInv, CallInv, LockInv, CallbackInv, InCallback
<1>4. AtMostOneMessage' /\ ReceivedInv' /\ QuietAfterReturn'
  <2>1. MaySend(f)
    BY DEF MaySend
  <2>2. mail'[f] \in {0, 1} /\ ~MaySend(f)'
    <3>1. mail[f] = 0
      <4>1. mail[f] \in Nat /\ mail[f] <= 1 /\ mail[f] # 1
        BY <2>1 DEF AtMostOneMessage
      <4> HIDE DEF IInv, TypeOK, cb_send
      <4> QED
        BY <4>1
    <3>2. mail'[f] = mail[f] \/ mail'[f] = mail[f] + 1
      OBVIOUS
    <3>3. ~MaySend(f)'
      BY DEF MaySend
    <3> QED
      BY <3>1, <3>2, <3>3
  <2>3. \A g \in Futures \ {f} :
           mail'[g] = mail[g] /\ (MaySend(g)' <=> MaySend(g))
    BY DEF MaySend
  <2>4. AtMostOneMessage'
    BY <2>2, <2>3 DEF AtMostOneMessage
  <2>5. ReceivedInv'
    BY <2>1, <2>3 DEF ReceivedInv
  <2>6. QuietAfterReturn'
    BY <2>1, <2>3 DEF QuietAfterReturn
  <2> QED
    BY <2>4, <2>5, <2>6
<1> QED
  BY <1>1, <1>2, <1>3, <1>4

\* A cancelled future sends nothing.
LEMMA Step_cb_skip ==
  ASSUME IInv, NEW f \in Futures, cb_skip(f)
  PROVE  IInv'
<1> USE DEF cb_skip, procVars, IInv, TypeOK
<1>1. TypeOK' /\ PhaseInv' /\ CallInv'
  BY DEF PhaseInv, CallInv, InCallback
<1>2. RefCountExact'
  BY RefFrame DEF Creating, CallInv
<1>3. LockInv' /\ CallbackInv'
  BY DEF PhaseInv, CallInv, LockInv, CallbackInv, InCallback
<1>4. AtMostOneMessage' /\ ReceivedInv' /\ QuietAfterReturn'
  BY DEF PhaseInv, CallInv, CallbackInv, AtMostOneMessage, ReceivedInv,
         QuietAfterReturn, MaySend, InCallback
<1> QED
  BY <1>1, <1>2, <1>3, <1>4

\* The callback gives the lock back.
LEMMA Step_cb_unlock ==
  ASSUME IInv, NEW f \in Futures, cb_unlock(f)
  PROVE  IInv'
<1> USE DEF cb_unlock, procVars, IInv, TypeOK
<1>1. TypeOK' /\ PhaseInv' /\ CallInv'
  BY DEF PhaseInv, CallInv, InCallback
<1>2. RefCountExact'
  BY RefFrame DEF Creating, CallInv
<1>3. LockInv' /\ CallbackInv'
  BY DEF PhaseInv, CallInv, LockInv, CallbackInv, InCallback
<1>4. AtMostOneMessage' /\ ReceivedInv' /\ QuietAfterReturn'
  BY DEF PhaseInv, CallInv, CallbackInv, AtMostOneMessage, ReceivedInv,
         QuietAfterReturn, MaySend, InCallback
<1> QED
  BY <1>1, <1>2, <1>3, <1>4

-----------------------------------------------------------------------------

\* The invariant holds initially and every step, or stutter, preserves it.
LEMMA Inductive ==
  /\ Init => IInv
  /\ IInv /\ [Next]_vars => IInv'
<1>1. Init => IInv
  <2> SUFFICES ASSUME Init
               PROVE  IInv
    OBVIOUS
  <2> USE DEF Init
  <2>1. TypeOK
    BY DEF TypeOK
  <2>2. PhaseInv /\ CallInv /\ LockInv /\ CallbackInv
    BY DEF PhaseInv, CallInv, LockInv, CallbackInv, InCallback
  <2>3. RefCountExact
    BY FS_EmptySet DEF RefCountExact, CreatorRefs, CallbackRefs, Creating
  <2>4. AtMostOneMessage /\ ReceivedInv /\ QuietAfterReturn
    BY DEF AtMostOneMessage, ReceivedInv, QuietAfterReturn
  <2> QED
    BY <2>1, <2>2, <2>3, <2>4 DEF IInv
<1>2. ASSUME IInv, UNCHANGED vars
      PROVE  IInv'
  BY <1>2 DEF vars, futureVars, procVars, IInv, TypeOK, PhaseInv, CallInv,
     RefCountExact, CreatorRefs, CallbackRefs, Creating, LockInv, CallbackInv,
     InCallback, AtMostOneMessage, ReceivedInv, QuietAfterReturn, MaySend
<1>3. ASSUME IInv, NEW p \in Procs,
             Create(p) \/ Wait(p) \/ Silence(p) \/ Cancel(p) \/ Block(p)
               \/ Runtime(p)
      PROVE  IInv'
  <2>1. CASE Create(p)
    BY <1>3, <2>1,
       Step_create_future, Step_create_future_no_lock,
       Step_create_future_no_env, Step_set_callback_sync,
       Step_set_callback_async, Step_set_callback_error, Step_make_resource,
       Step_create_release
       DEF Create
  <2>2. CASE Wait(p)
    BY <1>3, <2>2,
       Step_wait, Step_wait_is_ready, Step_wait_get, Step_wait_get_error,
       Step_wait_receive, Step_wait_receive_get, Step_wait_timeout
       DEF Wait
  <2>3. CASE Silence(p)
    BY <1>3, <2>3,
       Step_silence_lock, Step_silence_set, Step_flush_message,
       Step_flush_nothing
       DEF Silence
  <2>4. CASE Cancel(p)
    BY <1>3, <2>4,
       Step_cancel, Step_cancel_lock, Step_cancel_set, Step_cancel_fdb,
       Step_cancel_fdb_sync, Step_cancel_flush, Step_cancel_return
       DEF Cancel
  <2>5. CASE Block(p)
    BY <1>3, <2>5,
       Step_block_until_ready, Step_block_receive
       DEF Block
  <2>6. CASE Runtime(p)
    BY <1>3, <2>6,
       Step_share, Step_drop, Step_exit
       DEF Runtime
  <2> QED
    BY <1>3, <2>1, <2>2, <2>3, <2>4, <2>5, <2>6
<1>4. ASSUME IInv, NEW f \in Futures, Callback(f)
      PROVE  IInv'
  BY <1>4,
     Step_fdb_resolve, Step_fdb_call_back, Step_cb_lock, Step_cb_send,
     Step_cb_skip, Step_cb_unlock, Step_cb_release
     DEF Callback
<1> QED
  BY <1>1, <1>2, <1>3, <1>4 DEF Next

\* The inductive invariant holds in every reachable state.
THEOREM Invariance == Spec => []IInv
BY Inductive, PTL DEF Spec

\* Every variable keeps its type; in particular no count goes below zero.
THEOREM TypeCorrect == Spec => []TypeOK
<1>1. IInv => TypeOK
  BY DEF IInv
<1> QED
  BY <1>1, Invariance, PTL

\* The count of every future is the number of its references, whatever the
\* order of the creating NIF, the callback and the holders of terms.
THEOREM ReferenceCount == Spec => []RefCountExact
<1>1. IInv => RefCountExact
  BY DEF IInv
<1> QED
  BY <1>1, Invariance, PTL

\* No thread touches a future whose destructor has run, and a live future has
\* a reference that will run it.
THEOREM UseAfterFree == Spec => []NoUseAfterFree
<1>1. ASSUME IInv
      PROVE  NoUseAfterFree
  <2> SUFFICES ASSUME NEW f \in Futures
               PROVE  /\ phase[f] = "freed" =>
                           /\ cb[f] \notin CbHolds
                           /\ holders[f] = {}
                           /\ lock[f] = NoThread
                           /\ \A p \in Procs :
                                tgt[p] = f => pc[p] \notin CreatePcs \cup UsePcs
                      /\ phase[f] = "live" =>
                           \/ cb[f] \in CbHolds
                           \/ holders[f] # {}
                           \/ \E p \in Procs : Creating(p, f)
    BY DEF NoUseAfterFree
  <2>1. CASE phase[f] = "freed"
    <3>1. rc[f] = 0
      BY <1>1, <2>1, RefFacts DEF RefCounts
    <3>2. /\ CreatorRefs(f) = 0 /\ CallbackRefs(f) = 0
          /\ Cardinality(holders[f]) = 0
      BY <1>1, <3>1, RefFacts DEF RefAt, RefCounts
    <3>3. /\ cb[f] \notin CbHolds
          /\ \A p \in Procs : ~Creating(p, f)
          /\ holders[f] = {}
      BY <1>1, <3>2, RefFacts, HoldersCard DEF IInv, RefCounts
    <3>4. \A p \in Procs : tgt[p] = f => pc[p] \notin CreatePcs \cup UsePcs
      BY <1>1, <3>3 DEF IInv, CallInv, Creating
    <3>5. lock[f] = NoThread
      BY <1>1, <3>3, <3>4 DEF IInv, LockInv
    <3> QED
      BY <2>1, <3>3, <3>4, <3>5
  <2>2. CASE phase[f] = "live"
    <3>1. CreatorRefs(f) + CallbackRefs(f) + Cardinality(holders[f]) > 0
      BY <1>1, <2>2, RefFacts DEF RefAt, RefCounts
    <3>2. CreatorRefs(f) = 1 \/ CallbackRefs(f) = 1
            \/ Cardinality(holders[f]) # 0
      BY <1>1, <3>1, RefFacts DEF RefCounts
    <3> QED
      BY <1>1, <2>2, <3>2, RefFacts, HoldersCard DEF IInv, RefCounts
  <2>3. CASE phase[f] = "none"
    BY <2>3
  <2> QED
    BY <1>1, <2>1, <2>2, <2>3 DEF IInv, TypeOK
<1> QED
  BY <1>1, Invariance, PTL

\* A callback on a scheduler thread that sends does so inside the call that
\* created the future, while f->pid_env is valid.
THEOREM PidEnv == Spec => []PidEnvValid
<1>1. ASSUME IInv
      PROVE  PidEnvValid
  <2> SUFFICES ASSUME NEW f \in Futures, cb[f] = "send", ~cancelled[f],
                      cbThread[f] # Network
               PROVE  Creating(cbThread[f], f)
    BY DEF PidEnvValid
  <2>1. cbThread[f] \in Procs /\ InCallback(cbThread[f], f)
    BY <1>1 DEF IInv, TypeOK, InCallback
  <2> QED
    BY <1>1, <2>1 DEF IInv, CallbackInv, Creating
<1> QED
  BY <1>1, Invariance, PTL

\* No ready message is left, or comes later, after wait, block_until_ready or
\* cancel with flush has returned.
THEOREM Quiet == Spec => []QuietAfterReturn
<1>1. IInv => QuietAfterReturn
  BY DEF IInv
<1> QED
  BY <1>1, Invariance, PTL

\* A future sends at most one ready message.
THEOREM OneMessage == Spec => []AtMostOneMessage
<1>1. IInv => AtMostOneMessage
  BY DEF IInv
<1> QED
  BY <1>1, Invariance, PTL

=============================================================================
