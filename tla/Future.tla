------------------------------- MODULE Future -------------------------------
(***************************************************************************)
(* The NIF's future resource (ErlFDBFuture in c_src/resources.h) and the   *)
(* Erlang functions that wait for it, silence it and cancel it.            *)
(*                                                                         *)
(* Three kinds of thread touch one future: the scheduler thread that runs  *)
(* a NIF for an Erlang process, the FoundationDB network thread that runs  *)
(* the callback, and the garbage collector that drops a process's terms.   *)
(* An action is one critical section, one reference-count operation or one *)
(* call into the client library; everything between two of them is local   *)
(* to one thread.  The client library is external: a future becomes ready  *)
(* at any moment, and its callback then runs on the network thread, or on  *)
(* the thread that calls fdb_future_set_callback or fdb_future_cancel.     *)
(***************************************************************************)
EXTENDS Naturals, FiniteSets

CONSTANTS Futures,       \* the future resources that may be allocated
          Procs,         \* the Erlang processes
          NoThread,      \* the holder of a lock that is free
          Network,       \* the client library's callback thread
          AllocMayFail   \* may enif_alloc_env and enif_mutex_create fail?

ASSUME FutureAssumption ==
    /\ IsFiniteSet(Procs)
    /\ Futures # {}
    /\ NoThread \notin Procs /\ Network \notin Procs /\ NoThread # Network
    /\ AllocMayFail \in BOOLEAN

VARIABLES
    phase,      \* the resource's memory: none, live, freed (dtor has run)
    rc,         \* its reference count
    holders,    \* the processes whose heap has a term for it
    result,     \* what fdb_future_get_error and _get_ would say
    cancelled,  \* f->cancelled
    lock,       \* the thread that holds f->lock
    cb,         \* how far erlfdb_future_cb has come
    cbThread,   \* the thread it runs on
    pid,        \* f->pid, the process that is sent the ready message
    mail,       \* ready messages of the future in that process's mailbox
    pc,         \* what each process is doing
    op,         \* the function it called
    tgt,        \* with which future
    ret,        \* what its last call returned or raised
    vm          \* up, or crashed by the use of an uninitialised pointer

futureVars == <<phase, rc, holders, result, cancelled, lock, cb, cbThread,
                pid, mail>>
procVars   == <<pc, op, tgt, ret>>
vars       == <<futureVars, procVars, vm>>

Threads == Procs \cup {Network}

\* The steps of erlfdb_future_cb; the callback's own reference on the resource
\* lives from enif_keep_resource in erlfdb_create_future to its own release.
CbSteps == {"unset", "kept", "armed", "lock", "send", "unlock", "release",
            "done"}
CbHolds == {"kept", "armed", "lock", "send", "unlock", "release"}
CbRuns  == {"lock", "send", "unlock", "release"}

\* Where a process can be inside each call.
CreatePcs == {"set_callback", "make_resource", "create_release"}
CancelPcs == {"cancel_lock", "cancel_set", "cancel_fdb", "cancel_return"}
FlushPcs  == {"silence_lock", "silence_set", "flush"}
WaitPcs   == {"is_ready", "get", "receive", "receive_get"}
BlockPcs  == {"block"}
UsePcs    == CancelPcs \cup FlushPcs \cup WaitPcs \cup BlockPcs
ErlangPcs == WaitPcs \cup BlockPcs \cup {"idle", "flush"}  \* outside a NIF
Pcs       == CreatePcs \cup UsePcs \cup {"idle", "dead"}
Ops       == {"none", "create", "wait", "wait_timeout", "cancel",
              "cancel_flush", "block"}
Rets      == {"none", "value", "error", "timeout"}

TypeOK ==
    /\ phase \in [Futures -> {"none", "live", "freed"}]
    /\ rc \in [Futures -> Nat]
    /\ holders \in [Futures -> SUBSET Procs]
    /\ result \in [Futures -> {"pending", "ok", "error"}]
    /\ cancelled \in [Futures -> BOOLEAN]
    /\ lock \in [Futures -> Threads \cup {NoThread}]
    /\ cb \in [Futures -> CbSteps]
    /\ cbThread \in [Futures -> Threads]
    /\ pid \in [Futures -> Procs]
    /\ mail \in [Futures -> Nat]
    /\ pc \in [Procs -> Pcs]
    /\ op \in [Procs -> Ops]
    /\ tgt \in [Procs -> Futures]
    /\ ret \in [Procs -> Rets]
    /\ vm \in {"up", "crashed"}

Init ==
    /\ phase = [f \in Futures |-> "none"]
    /\ rc = [f \in Futures |-> 0]
    /\ holders = [f \in Futures |-> {}]
    /\ result = [f \in Futures |-> "pending"]
    /\ cancelled = [f \in Futures |-> FALSE]
    /\ lock = [f \in Futures |-> NoThread]
    /\ cb = [f \in Futures |-> "unset"]
    /\ cbThread = [f \in Futures |-> Network]
    /\ \E p \in Procs : pid = [f \in Futures |-> p]
    /\ mail = [f \in Futures |-> 0]
    /\ pc = [p \in Procs |-> "idle"]
    /\ op = [p \in Procs |-> "none"]
    /\ \E f \in Futures : tgt = [p \in Procs |-> f]
    /\ ret = [p \in Procs |-> "none"]
    /\ vm = "up"

Ready(f) == result[f] # "pending"

\* The callback of f runs on p's thread, inside the NIF that p is executing.
InCallback(p, f) == cb[f] \in CbRuns /\ cbThread[f] = p

\* enif_release_resource: the destructor runs when the count reaches zero.
Release(f) ==
    /\ rc' = [rc EXCEPT ![f] = @ - 1]
    /\ phase' = [phase EXCEPT ![f] = IF rc[f] = 1 THEN "freed" ELSE @]

\* Process p calls the function named o on future f, first stopping at step s.
Call(p, f, o, s) ==
    /\ op' = [op EXCEPT ![p] = o]
    /\ tgt' = [tgt EXCEPT ![p] = f]
    /\ ret' = [ret EXCEPT ![p] = "none"]
    /\ pc' = [pc EXCEPT ![p] = s]

\* Process p moves on to step s of its call.
Goto(p, s) ==
    /\ pc' = [pc EXCEPT ![p] = s]
    /\ UNCHANGED <<op, tgt, ret>>

\* Process p's call returns or raises r.
Return(p, r) ==
    /\ pc' = [pc EXCEPT ![p] = "idle"]
    /\ ret' = [ret EXCEPT ![p] = r]
    /\ UNCHANGED <<op, tgt>>

-----------------------------------------------------------------------------
(* erlfdb_create_future *)

\* Mutant: the callback's reference is not taken.
create_future_unkept(p, f, to) ==
    /\ vm = "up" /\ pc[p] = "idle" /\ phase[f] = "none"
    /\ phase' = [phase EXCEPT ![f] = "live"]
    /\ rc' = [rc EXCEPT ![f] = 1]
    /\ pid' = [pid EXCEPT ![f] = to]
    /\ cb' = [cb EXCEPT ![f] = "kept"]
    /\ Call(p, f, "create", "set_callback")
    /\ UNCHANGED <<holders, result, cancelled, lock, cbThread, mail, vm>>

\* Up to and including enif_keep_resource no other thread knows the resource:
\* it is allocated with count 1, its fields are set and the callback's
\* reference makes the count 2.  A watch or a versionstamp may name another
\* process to send to.
create_future(p, f, to) ==
    /\ vm = "up" /\ pc[p] = "idle" /\ phase[f] = "none"
    /\ phase' = [phase EXCEPT ![f] = "live"]
    /\ rc' = [rc EXCEPT ![f] = 2]
    /\ pid' = [pid EXCEPT ![f] = to]
    /\ cb' = [cb EXCEPT ![f] = "kept"]
    /\ Call(p, f, "create", "set_callback")
    /\ UNCHANGED <<holders, result, cancelled, lock, cbThread, mail, vm>>

\* A call that fails at once: process p called o on f and it raised an error.
CallRaises(p, f, o) ==
    /\ op' = [op EXCEPT ![p] = o]
    /\ tgt' = [tgt EXCEPT ![p] = f]
    /\ ret' = [ret EXCEPT ![p] = "error"]
    /\ UNCHANGED pc

\* enif_mutex_create returns NULL: the only reference is released, so the
\* destructor runs, and the NIF raises badarg.
create_future_no_lock(p, f) ==
    /\ vm = "up" /\ pc[p] = "idle" /\ phase[f] = "none" /\ AllocMayFail
    /\ phase' = [phase EXCEPT ![f] = "freed"]
    /\ CallRaises(p, f, "create")
    /\ UNCHANGED <<rc, holders, result, cancelled, lock, cb, cbThread, pid,
                   mail, vm>>

\* enif_alloc_env returns NULL: the reference is released before f->lock is
\* assigned, and the destructor tests and destroys whatever that pointer holds.
create_future_no_env(p, f) ==
    /\ vm = "up" /\ pc[p] = "idle" /\ phase[f] = "none" /\ AllocMayFail
    /\ phase' = [phase EXCEPT ![f] = "freed"]
    /\ vm' \in {"up", "crashed"}
    /\ CallRaises(p, f, "create")
    /\ UNCHANGED <<rc, holders, result, cancelled, lock, cb, cbThread, pid,
                   mail>>

\* fdb_future_set_callback: a future that is ready already calls back on this
\* thread, before the function returns ...
set_callback_sync(p) ==
    LET f == tgt[p] IN
    /\ vm = "up" /\ pc[p] = "set_callback" /\ Ready(f)
    /\ cb' = [cb EXCEPT ![f] = "lock"]
    /\ cbThread' = [cbThread EXCEPT ![f] = p]
    /\ Goto(p, "make_resource")
    /\ UNCHANGED <<phase, rc, holders, result, cancelled, lock, pid, mail, vm>>

\* ... and one that is not calls back later, on the library's thread.
set_callback_async(p) ==
    LET f == tgt[p] IN
    /\ vm = "up" /\ pc[p] = "set_callback" /\ ~Ready(f)
    /\ cb' = [cb EXCEPT ![f] = "armed"]
    /\ Goto(p, "make_resource")
    /\ UNCHANGED <<phase, rc, holders, result, cancelled, lock, cbThread, pid,
                   mail, vm>>

\* fdb_future_set_callback fails: both references are released and the error
\* is raised.
set_callback_error(p) ==
    LET f == tgt[p] IN
    /\ vm = "up" /\ pc[p] = "set_callback"
    /\ rc' = [rc EXCEPT ![f] = @ - 2]
    /\ phase' = [phase EXCEPT ![f] = IF rc[f] = 2 THEN "freed" ELSE @]
    /\ cb' = [cb EXCEPT ![f] = "unset"]
    /\ Return(p, "error")
    /\ UNCHANGED <<holders, result, cancelled, lock, cbThread, pid, mail, vm>>

\* Mutant: the caller's term has no reference of its own.
make_resource_borrowed(p) ==
    LET f == tgt[p] IN
    /\ vm = "up" /\ pc[p] = "make_resource" /\ ~InCallback(p, f)
    /\ holders' = [holders EXCEPT ![f] = @ \cup {p}]
    /\ Goto(p, "create_release")
    /\ UNCHANGED <<phase, rc, result, cancelled, lock, cb, cbThread, pid, mail,
                   vm>>

\* enif_make_resource: the caller's term holds a reference of its own.
make_resource(p) ==
    LET f == tgt[p] IN
    /\ vm = "up" /\ pc[p] = "make_resource" /\ ~InCallback(p, f)
    /\ rc' = [rc EXCEPT ![f] = @ + 1]
    /\ holders' = [holders EXCEPT ![f] = @ \cup {p}]
    /\ Goto(p, "create_release")
    /\ UNCHANGED <<phase, result, cancelled, lock, cb, cbThread, pid, mail, vm>>

\* The allocation's reference is released and the NIF returns; from here on
\* f->pid_env is stale.
create_release(p) ==
    /\ vm = "up" /\ pc[p] = "create_release"
    /\ Release(tgt[p])
    /\ Return(p, "value")
    /\ UNCHANGED <<holders, result, cancelled, lock, cb, cbThread, pid, mail,
                   vm>>

-----------------------------------------------------------------------------
(* The client library (external) *)

\* A future becomes ready, with a result or with an error code.
fdb_resolve(f) ==
    /\ vm = "up" /\ phase[f] = "live" /\ ~Ready(f)
    /\ \E r \in {"ok", "error"} : result' = [result EXCEPT ![f] = r]
    /\ UNCHANGED <<phase, rc, holders, cancelled, lock, cb, cbThread, pid,
                   mail, procVars, vm>>

\* The library's thread calls the callback of a ready future.
fdb_call_back(f) ==
    /\ vm = "up" /\ Ready(f) /\ cb[f] = "armed"
    /\ cb' = [cb EXCEPT ![f] = "lock"]
    /\ cbThread' = [cbThread EXCEPT ![f] = Network]
    /\ UNCHANGED <<phase, rc, holders, result, cancelled, lock, pid, mail,
                   procVars, vm>>

-----------------------------------------------------------------------------
(* erlfdb_future_cb *)

cb_lock(f) ==
    /\ vm = "up" /\ cb[f] = "lock" /\ lock[f] = NoThread
    /\ lock' = [lock EXCEPT ![f] = cbThread[f]]
    /\ cb' = [cb EXCEPT ![f] = "send"]
    /\ UNCHANGED <<phase, rc, holders, result, cancelled, cbThread, pid, mail,
                   procVars, vm>>

\* The future was not cancelled: enif_send.  A send to a process that has
\* exited has no effect.
cb_send(f) ==
    /\ vm = "up" /\ cb[f] = "send" /\ ~cancelled[f]
    /\ mail' = IF pc[pid[f]] = "dead" THEN mail
               ELSE [mail EXCEPT ![f] = @ + 1]
    /\ cb' = [cb EXCEPT ![f] = "unlock"]
    /\ UNCHANGED <<phase, rc, holders, result, cancelled, lock, cbThread, pid,
                   procVars, vm>>

\* The future was cancelled: nothing is sent.
cb_skip(f) ==
    /\ vm = "up" /\ cb[f] = "send" /\ cancelled[f]
    /\ cb' = [cb EXCEPT ![f] = "unlock"]
    /\ UNCHANGED <<phase, rc, holders, result, cancelled, lock, cbThread, pid,
                   mail, procVars, vm>>

cb_unlock(f) ==
    /\ vm = "up" /\ cb[f] = "unlock"
    /\ lock' = [lock EXCEPT ![f] = NoThread]
    /\ cb' = [cb EXCEPT ![f] = "release"]
    /\ UNCHANGED <<phase, rc, holders, result, cancelled, cbThread, pid, mail,
                   procVars, vm>>

\* Mutant: the callback keeps its reference.
cb_release_leaks(f) ==
    /\ vm = "up" /\ cb[f] = "release"
    /\ cb' = [cb EXCEPT ![f] = "done"]
    /\ UNCHANGED <<phase, rc, holders, result, cancelled, lock, cbThread, pid,
                   mail, procVars, vm>>

\* The callback gives up its reference.
cb_release(f) ==
    /\ vm = "up" /\ cb[f] = "release"
    /\ Release(f)
    /\ cb' = [cb EXCEPT ![f] = "done"]
    /\ UNCHANGED <<holders, result, cancelled, lock, cbThread, pid, mail,
                   procVars, vm>>

-----------------------------------------------------------------------------
(* erlfdb:wait/2 *)

\* wait(Future, Options), with a timeout or with none.
wait(p, f) ==
    /\ vm = "up" /\ pc[p] = "idle" /\ p \in holders[f]
    /\ \E o \in {"wait", "wait_timeout"} : Call(p, f, o, "is_ready")
    /\ UNCHANGED <<futureVars, vm>>

\* Mutant: wait does not ask whether the future is ready already.
wait_is_ready_skipped(p) ==
    /\ vm = "up" /\ pc[p] = "is_ready"
    /\ Goto(p, "receive")
    /\ UNCHANGED <<futureVars, vm>>

wait_is_ready(p) ==
    /\ vm = "up" /\ pc[p] = "is_ready"
    /\ Goto(p, IF Ready(tgt[p]) THEN "get" ELSE "receive")
    /\ UNCHANGED <<futureVars, vm>>

\* The future was ready: get/1 returns its result, and the message is flushed.
wait_get(p) ==
    /\ vm = "up" /\ pc[p] = "get" /\ result[tgt[p]] = "ok"
    /\ Goto(p, "silence_lock")
    /\ UNCHANGED <<futureVars, vm>>

\* get/1 raises the future's error, and nothing is flushed.
wait_get_error(p) ==
    /\ vm = "up" /\ pc[p] = "get" /\ result[tgt[p]] = "error"
    /\ Return(p, "error")
    /\ UNCHANGED <<futureVars, vm>>

\* A ready message of future f is taken from the mailbox of process p.
Consume(p, f) ==
    /\ pid[f] = p /\ mail[f] > 0
    /\ mail' = [mail EXCEPT ![f] = @ - 1]

\* The future was not ready: the receive takes its message.
wait_receive(p) ==
    /\ vm = "up" /\ pc[p] = "receive"
    /\ Consume(p, tgt[p])
    /\ Goto(p, "receive_get")
    /\ UNCHANGED <<phase, rc, holders, result, cancelled, lock, cb, cbThread,
                   pid, vm>>

wait_receive_get(p) ==
    /\ vm = "up" /\ pc[p] = "receive_get"
    /\ Return(p, IF result[tgt[p]] = "ok" THEN "value" ELSE "error")
    /\ UNCHANGED <<futureVars, vm>>

wait_timeout(p) ==
    /\ vm = "up" /\ pc[p] = "receive" /\ op[p] = "wait_timeout"
    /\ Return(p, "timeout")
    /\ UNCHANGED <<futureVars, vm>>

-----------------------------------------------------------------------------
(* erlfdb:flush_future_message/1, with erlfdb_future_silence *)

LockFuture(p, f) ==
    /\ lock[f] = NoThread
    /\ lock' = [lock EXCEPT ![f] = p]

\* Under the lock the flag is set, and the lock is given back.
SetCancelled(f) ==
    /\ cancelled' = [cancelled EXCEPT ![f] = TRUE]
    /\ lock' = [lock EXCEPT ![f] = NoThread]

silence_lock(p) ==
    /\ vm = "up" /\ pc[p] = "silence_lock"
    /\ LockFuture(p, tgt[p])
    /\ Goto(p, "silence_set")
    /\ UNCHANGED <<phase, rc, holders, result, cancelled, cb, cbThread, pid,
                   mail, vm>>

\* Mutant: silence does not set the flag.
silence_set_unflagged(p) ==
    /\ vm = "up" /\ pc[p] = "silence_set"
    /\ lock' = [lock EXCEPT ![tgt[p]] = NoThread]
    /\ Goto(p, "flush")
    /\ UNCHANGED <<phase, rc, holders, result, cancelled, cb, cbThread, pid,
                   mail, vm>>

silence_set(p) ==
    /\ vm = "up" /\ pc[p] = "silence_set"
    /\ SetCancelled(tgt[p])
    /\ Goto(p, "flush")
    /\ UNCHANGED <<phase, rc, holders, result, cb, cbThread, pid, mail, vm>>

\* receive ... after 0: the message is taken if it is there.
flush_message(p) ==
    /\ vm = "up" /\ pc[p] = "flush"
    /\ Consume(p, tgt[p])
    /\ Return(p, "value")
    /\ UNCHANGED <<phase, rc, holders, result, cancelled, lock, cb, cbThread,
                   pid, vm>>

flush_nothing(p) ==
    /\ vm = "up" /\ pc[p] = "flush" /\ ~(pid[tgt[p]] = p /\ mail[tgt[p]] > 0)
    /\ Return(p, "value")
    /\ UNCHANGED <<futureVars, vm>>

-----------------------------------------------------------------------------
(* erlfdb:cancel/2, with erlfdb_future_cancel *)

cancel(p, f) ==
    /\ vm = "up" /\ pc[p] = "idle" /\ p \in holders[f]
    /\ \E o \in {"cancel", "cancel_flush"} : Call(p, f, o, "cancel_lock")
    /\ UNCHANGED <<futureVars, vm>>

cancel_lock(p) ==
    /\ vm = "up" /\ pc[p] = "cancel_lock"
    /\ LockFuture(p, tgt[p])
    /\ Goto(p, "cancel_set")
    /\ UNCHANGED <<phase, rc, holders, result, cancelled, cb, cbThread, pid,
                   mail, vm>>

\* Mutant: cancel does not set the flag.
cancel_set_unflagged(p) ==
    /\ vm = "up" /\ pc[p] = "cancel_set"
    /\ lock' = [lock EXCEPT ![tgt[p]] = NoThread]
    /\ Goto(p, "cancel_fdb")
    /\ UNCHANGED <<phase, rc, holders, result, cancelled, cb, cbThread, pid,
                   mail, vm>>

\* Mutant: cancel goes into the client library with the lock held.
cancel_set_locked(p) ==
    /\ vm = "up" /\ pc[p] = "cancel_set"
    /\ cancelled' = [cancelled EXCEPT ![tgt[p]] = TRUE]
    /\ Goto(p, "cancel_fdb")
    /\ UNCHANGED <<phase, rc, holders, result, lock, cb, cbThread, pid, mail,
                   vm>>

cancel_set(p) ==
    /\ vm = "up" /\ pc[p] = "cancel_set"
    /\ SetCancelled(tgt[p])
    /\ Goto(p, "cancel_fdb")
    /\ UNCHANGED <<phase, rc, holders, result, cb, cbThread, pid, mail, vm>>

\* fdb_future_cancel gives a future that is not ready an error; its callback
\* is left to the library's thread ...
cancel_fdb(p) ==
    LET f == tgt[p] IN
    /\ vm = "up" /\ pc[p] = "cancel_fdb"
    /\ result' = [result EXCEPT ![f] = IF @ = "pending" THEN "error" ELSE @]
    /\ Goto(p, "cancel_return")
    /\ UNCHANGED <<phase, rc, holders, cancelled, lock, cb, cbThread, pid, mail,
                   vm>>

\* ... or called at once, on this thread.
cancel_fdb_sync(p) ==
    LET f == tgt[p] IN
    /\ vm = "up" /\ pc[p] = "cancel_fdb" /\ ~Ready(f) /\ cb[f] = "armed"
    /\ result' = [result EXCEPT ![f] = "error"]
    /\ cb' = [cb EXCEPT ![f] = "lock"]
    /\ cbThread' = [cbThread EXCEPT ![f] = p]
    /\ Goto(p, "cancel_return")
    /\ UNCHANGED <<phase, rc, holders, cancelled, lock, pid, mail, vm>>

\* The NIF returns when a callback on its thread has; cancel/2 flushes ...
cancel_flush(p) ==
    /\ vm = "up" /\ pc[p] = "cancel_return" /\ op[p] = "cancel_flush"
    /\ ~InCallback(p, tgt[p])
    /\ Goto(p, "silence_lock")
    /\ UNCHANGED <<futureVars, vm>>

\* ... if it was asked to.
cancel_return(p) ==
    /\ vm = "up" /\ pc[p] = "cancel_return" /\ op[p] = "cancel"
    /\ ~InCallback(p, tgt[p])
    /\ Return(p, "value")
    /\ UNCHANGED <<futureVars, vm>>

-----------------------------------------------------------------------------
(* erlfdb:block_until_ready/1 *)

block_until_ready(p, f) ==
    /\ vm = "up" /\ pc[p] = "idle" /\ p \in holders[f]
    /\ Call(p, f, "block", "block")
    /\ UNCHANGED <<futureVars, vm>>

block_receive(p) ==
    /\ vm = "up" /\ pc[p] = "block"
    /\ Consume(p, tgt[p])
    /\ Return(p, "value")
    /\ UNCHANGED <<phase, rc, holders, result, cancelled, lock, cb, cbThread,
                   pid, vm>>

-----------------------------------------------------------------------------
(* Terms: what the Erlang runtime does with references (external) *)

\* Process p sends its term to process q.
share(p, q, f) ==
    /\ vm = "up" /\ pc[p] = "idle" /\ p \in holders[f]
    /\ q \notin holders[f] /\ pc[q] # "dead"
    /\ holders' = [holders EXCEPT ![f] = @ \cup {q}]
    /\ rc' = [rc EXCEPT ![f] = @ + 1]
    /\ UNCHANGED <<phase, result, cancelled, lock, cb, cbThread, pid, mail,
                   procVars, vm>>

\* The collector drops a term that process p no longer uses.
drop(p, f) ==
    /\ vm = "up" /\ pc[p] = "idle" /\ p \in holders[f]
    /\ holders' = [holders EXCEPT ![f] = @ \ {p}]
    /\ Release(f)
    /\ UNCHANGED <<result, cancelled, lock, cb, cbThread, pid, mail, procVars,
                   vm>>

\* Process p exits between two NIF calls: its terms and its mailbox are gone.
exit(p) ==
    /\ vm = "up" /\ pc[p] \in ErlangPcs
    /\ pc' = [pc EXCEPT ![p] = "dead"]
    /\ holders' = [f \in Futures |-> holders[f] \ {p}]
    /\ rc' = [f \in Futures |-> IF p \in holders[f] THEN rc[f] - 1 ELSE rc[f]]
    /\ phase' = [f \in Futures |->
                   IF p \in holders[f] /\ rc[f] = 1 THEN "freed" ELSE phase[f]]
    /\ mail' = [f \in Futures |-> IF pid[f] = p THEN 0 ELSE mail[f]]
    /\ UNCHANGED <<result, cancelled, lock, cb, cbThread, pid, op, tgt, ret, vm>>

-----------------------------------------------------------------------------

Create(p) ==
    \/ \E f \in Futures :
          \/ \E to \in Procs : create_future(p, f, to)
          \/ create_future_no_lock(p, f)
          \/ create_future_no_env(p, f)
    \/ set_callback_sync(p)
    \/ set_callback_async(p)
    \/ set_callback_error(p)
    \/ make_resource(p)
    \/ create_release(p)

Wait(p) ==
    \/ \E f \in Futures : wait(p, f)
    \/ wait_is_ready(p)
    \/ wait_get(p)
    \/ wait_get_error(p)
    \/ wait_receive(p)
    \/ wait_receive_get(p)
    \/ wait_timeout(p)

Silence(p) ==
    \/ silence_lock(p)
    \/ silence_set(p)
    \/ flush_message(p)
    \/ flush_nothing(p)

Cancel(p) ==
    \/ \E f \in Futures : cancel(p, f)
    \/ cancel_lock(p)
    \/ cancel_set(p)
    \/ cancel_fdb(p)
    \/ cancel_fdb_sync(p)
    \/ cancel_flush(p)
    \/ cancel_return(p)

Block(p) == (\E f \in Futures : block_until_ready(p, f)) \/ block_receive(p)

Runtime(p) ==
    \/ \E f \in Futures : (\E q \in Procs : share(p, q, f)) \/ drop(p, f)
    \/ exit(p)

Callback(f) ==
    \/ fdb_resolve(f)
    \/ fdb_call_back(f)
    \/ cb_lock(f)
    \/ cb_send(f)
    \/ cb_skip(f)
    \/ cb_unlock(f)
    \/ cb_release(f)

Next ==
    \/ \E p \in Procs : Create(p) \/ Wait(p) \/ Silence(p) \/ Cancel(p)
                          \/ Block(p) \/ Runtime(p)
    \/ \E f \in Futures : Callback(f)

Spec == Init /\ [][Next]_vars

-----------------------------------------------------------------------------
(* Properties *)

Creating(p, f) == pc[p] \in CreatePcs /\ tgt[p] = f

\* The references that exist: the allocation's until erlfdb_create_future
\* returns, the callback's until it has run, and one for each holder's term.
CreatorRefs(f) == IF \E p \in Procs : Creating(p, f) THEN 1 ELSE 0
CallbackRefs(f) == IF cb[f] \in CbHolds THEN 1 ELSE 0

\* The reference-counting "dance" of erlfdb_create_future and erlfdb_future_cb:
\* whatever the order of the NIF and the callback, the count is the number of
\* references that exist.
RefCountExact ==
    \A f \in Futures :
        rc[f] = CreatorRefs(f) + CallbackRefs(f) + Cardinality(holders[f])

\* The resource is destroyed exactly when the last reference goes: no thread is
\* in the callback, in a NIF or has a term of a future whose destructor has run
\* (c_src/resources.c frees its lock and its environment), and a live future
\* has a reference left that will run the destructor.
NoUseAfterFree ==
    \A f \in Futures :
        /\ phase[f] = "freed" =>
              /\ cb[f] \notin CbHolds
              /\ holders[f] = {}
              /\ lock[f] = NoThread
              /\ \A p \in Procs :
                    tgt[p] = f => pc[p] \notin CreatePcs \cup UsePcs
        /\ phase[f] = "live" =>
              \/ cb[f] \in CbHolds
              \/ holders[f] # {}
              \/ \E p \in Procs : Creating(p, f)

\* erlfdb_future_cb uses f->pid_env on a scheduler thread only inside the call
\* of erlfdb_create_future that stored it (the SAFETY note of resources.h);
\* the cancelled flag keeps a callback made by fdb_future_cancel from using it.
PidEnvValid ==
    \A f \in Futures :
        cb[f] = "send" /\ ~cancelled[f] /\ cbThread[f] # Network
            => Creating(cbThread[f], f)

\* May the callback still send a ready message?
MaySend(f) ==
    ~cancelled[f] /\ cb[f] \in {"unset", "kept", "armed", "lock", "send"}

\* After wait, block_until_ready or cancel with flush has returned to the
\* process that the future reports to, that process's mailbox has no ready
\* message of the future, and none can arrive later.
QuietAfterReturn ==
    \A p \in Procs :
        /\ pc[p] = "idle" /\ ret[p] = "value" /\ pid[tgt[p]] = p
        /\ op[p] \in {"wait", "wait_timeout", "cancel_flush", "block"}
        => mail[tgt[p]] = 0 /\ ~MaySend(tgt[p])

\* enif_send invalidates the terms of f->msg_env, so a second message could not
\* be built: a future has at most one ready message, and none once it has been
\* taken.
AtMostOneMessage ==
    \A f \in Futures : mail[f] <= 1 /\ (mail[f] = 1 => ~MaySend(f))

\* What CHANGELOG.md (v0.3.4) says of create_future: "Handle allocation
\* failures in NIF".
AllocationFailureHandled == vm = "up"

-----------------------------------------------------------------------------
(* The inductive invariant *)

\* Nothing refers to a future before it is allocated, and its memory is there
\* exactly as long as its count is positive.
PhaseInv ==
    \A f \in Futures :
        /\ phase[f] = "none" =>
              /\ holders[f] = {}
              /\ ~cancelled[f]
              /\ cb[f] = "unset"
              /\ \A p \in Procs : tgt[p] = f => op[p] = "none"
        /\ phase[f] = "live" <=> rc[f] > 0

\* A call in progress was made by the function that op names, on a future the
\* process refers to; one process at most is creating a future, and until it
\* has returned nobody else has a term.
CallInv ==
    /\ \A p \in Procs :
        /\ pc[p] \in CreatePcs => op[p] = "create"
        /\ pc[p] \in CancelPcs => op[p] \in {"cancel", "cancel_flush"}
        /\ pc[p] \in UsePcs => op[p] # "none" /\ p \in holders[tgt[p]]
        /\ pc[p] = "set_callback" => cb[tgt[p]] = "kept"
        /\ pc[p] \in {"set_callback", "make_resource"} => holders[tgt[p]] = {}
        /\ pc[p] = "create_release" => holders[tgt[p]] = {p}
    /\ \A p, q \in Procs :
        pc[p] \in CreatePcs /\ pc[q] \in CreatePcs /\ tgt[p] = tgt[q] => p = q

\* The lock is held by the callback between its lock and its unlock, by a
\* process that is about to set the flag, or by nobody.
LockInv ==
    /\ \A f \in Futures : cb[f] \in {"send", "unlock"} => lock[f] = cbThread[f]
    /\ \A p \in Procs :
        pc[p] \in {"silence_set", "cancel_set"} => lock[tgt[p]] = p
    /\ \A f \in Futures :
        \/ lock[f] = NoThread
        \/ cb[f] \in {"send", "unlock"}
        \/ \E p \in Procs : /\ lock[f] = p /\ tgt[p] = f
                            /\ pc[p] \in {"silence_set", "cancel_set"}

\* A callback on a scheduler thread runs inside the NIF that made it: the one
\* that created the future, or a cancel, which has set the flag before.
CallbackInv ==
    /\ \A p \in Procs : pc[p] \in {"cancel_fdb", "cancel_return", "flush"} => cancelled[tgt[p]]
    /\ \A f \in Futures, p \in Procs :
        InCallback(p, f) =>
            /\ tgt[p] = f
            /\ \/ pc[p] = "make_resource"
               \/ pc[p] = "cancel_return" /\ cancelled[f]

\* What wait knows after its receive.
ReceivedInv ==
    \A p \in Procs :
        pc[p] = "receive_get" => mail[tgt[p]] = 0 /\ ~MaySend(tgt[p])

\* The invariant that every step preserves, and that implies the ones above.
IInv ==
    /\ TypeOK
    /\ PhaseInv
    /\ CallInv
    /\ RefCountExact
    /\ LockInv
    /\ CallbackInv
    /\ AtMostOneMessage
    /\ ReceivedInv
    /\ QuietAfterReturn

-----------------------------------------------------------------------------
(* Liveness *)

\* The client library resolves every future and calls its callback; a thread
\* inside a NIF or a callback goes on; a thread that contends for a future's
\* lock gets it some day.  Nothing is assumed of the calls the processes make.
Fairness ==
    /\ \A f \in Futures :
        /\ WF_vars(fdb_resolve(f) \/ fdb_call_back(f))
        /\ SF_vars(cb_lock(f))
        /\ WF_vars(cb_send(f) \/ cb_skip(f) \/ cb_unlock(f) \/ cb_release(f))
    /\ \A p \in Procs :
        /\ WF_vars(set_callback_sync(p) \/ set_callback_async(p)
                     \/ make_resource(p) \/ create_release(p))
        /\ WF_vars(wait_is_ready(p) \/ wait_get(p) \/ wait_get_error(p)
                     \/ wait_receive(p) \/ wait_receive_get(p)
                     \/ block_receive(p))
        /\ SF_vars(silence_lock(p) \/ cancel_lock(p))
        /\ WF_vars(silence_set(p) \/ flush_message(p) \/ flush_nothing(p))
        /\ WF_vars(cancel_set(p) \/ cancel_fdb(p) \/ cancel_fdb_sync(p)
                     \/ cancel_flush(p) \/ cancel_return(p))

FairSpec == Spec /\ Fairness

\* cancel/2 returns: no order of the callback and the lock makes
\* erlfdb_future_cancel wait for itself (CHANGELOG.md, "Fix deadlock when
\* canceling a future").
CancelReturns ==
    \A p \in Procs :
        pc[p] \in CancelPcs \cup FlushPcs ~> pc[p] \in {"idle", "dead"}

\* wait/2 without a timeout returns to the process the future reports to,
\* unless somebody cancels the future meanwhile: no ready message is missed
\* between is_ready and the receive.
WaitReturns ==
    \A p \in Procs :
        (pc[p] \in WaitPcs /\ op[p] = "wait" /\ pid[tgt[p]] = p)
            ~> (pc[p] \in {"idle", "dead"} \/ cancelled[tgt[p]])

\* A future that no process has a term for is destroyed in the end.
Reclaimed ==
    \A f \in Futures :
        (phase[f] = "live" /\ holders[f] = {})
            ~> (phase[f] = "freed" \/ holders[f] # {})

\* What the documentation of block_until_ready says: "Blocks the calling process
\* until the future is ready."
BlockReturnsWhenReady ==
    \A p \in Procs :
        (pc[p] = "block" /\ pid[tgt[p]] = p /\ Ready(tgt[p]))
            ~> pc[p] # "block"

=============================================================================
