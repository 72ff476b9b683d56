------------------------------- MODULE Handles -------------------------------
(***************************************************************************)
(* The database, tenant and transaction resources (c_src/resources.h), the *)
(* NIFs that create them and use them, and open/2 and open_all/2 of        *)
(* src/erlfdb.erl, which share databases through persistent_term.          *)
(*                                                                         *)
(* A handle is a resource with the library object that it points to.       *)
(* References to it are a term on a process's heap, a persistent term, and *)
(* the term in the message of a future that is tied to a transaction.      *)
(* A NIF that creates a handle is one action: nobody else sees the handle  *)
(* before it returns.  open/2 is three: it looks, creates and stores.      *)
(***************************************************************************)
EXTENDS Naturals, FiniteSets, Sequences

CONSTANTS Handles,      \* the handles that may be created
          Procs,        \* the Erlang processes
          Schedulers,   \* how many schedulers are online
          Futures,      \* the futures that may be outstanding
          None          \* no handle

ASSUME HandlesAssumption ==
    /\ IsFiniteSet(Procs) /\ IsFiniteSet(Futures) /\ None \notin Handles
    /\ Schedulers \in Nat \ {0}

VARIABLES
    kind,       \* what each handle points to: none before it is created
    owner,      \* t->owner of a transaction
    rc,         \* the resource's reference count
    destroys,   \* how often its library object was destroyed
    held,       \* the processes whose heap has a term for it
    pool,       \* persistent_term: the database of each open_dist_key
    tied,       \* the transaction whose reference each future's message has
    pc, call, todo,   \* where a process is in open or open_all, and the keys
                      \* that it still has to open
    new,        \* the database that it has created and not stored yet
    made        \* how many databases it has created for each key

handleVars == <<kind, owner, rc, destroys, held, pool, tied>>
openVars   == <<pc, call, todo, new, made>>
vars       == <<handleVars, openVars>>

\* The keys of one cluster file: one for each scheduler id.
Keys == 1..Schedulers

TypeOK ==
    /\ kind \in [Handles -> {"none", "database", "tenant", "transaction"}]
    /\ owner \in [Handles -> Procs \cup {None}]
    /\ rc \in [Handles -> Nat] /\ destroys \in [Handles -> 0..1]
    /\ held \in [Handles -> SUBSET Procs]
    /\ pool \in [Keys -> Handles \cup {None}]
    /\ tied \in [Futures -> Handles \cup {None}]
    /\ pc \in [Procs -> {"idle", "get", "create", "put", "dead"}]
    /\ call \in [Procs -> {"none", "open", "open_all"}]
    /\ todo \in [Procs -> Seq(Keys)]
    /\ new \in [Procs -> Handles \cup {None}]
    /\ made \in [Procs -> [Keys -> Nat]]

Init ==
    /\ kind = [h \in Handles |-> "none"] /\ owner = [h \in Handles |-> None]
    /\ rc = [h \in Handles |-> 0] /\ destroys = [h \in Handles |-> 0]
    /\ held = [h \in Handles |-> {}]
    /\ pool = [k \in Keys |-> None] /\ tied = [f \in Futures |-> None]
    /\ pc = [p \in Procs |-> "idle"] /\ call = [p \in Procs |-> "none"]
    /\ todo = [p \in Procs |-> <<>>] /\ new = [p \in Procs |-> None]
    /\ made = [p \in Procs |-> [k \in Keys |-> 0]]

-----------------------------------------------------------------------------
(* References *)

\* erlfdb_database_dtor, erlfdb_tenant_dtor and erlfdb_transaction_dtor.
dtor(gone) ==
    destroys' = [h \in Handles |-> IF h \in gone THEN destroys[h] + 1 ELSE destroys[h]]

\* Mutant: the destructor runs while one reference is left.
Adjust_early(up, down) ==
    /\ rc' = [h \in Handles |-> rc[h] + (IF h \in up THEN 1 ELSE 0)
                                      - (IF h \in down THEN 1 ELSE 0)]
    /\ dtor({h \in down : rc[h] <= 2 /\ h \notin up})

\* References are taken to the handles up and dropped from those in down; the
\* destructor runs for those whose count has reached zero.
Adjust(up, down) ==
    /\ rc' = [h \in Handles |-> rc[h] + (IF h \in up THEN 1 ELSE 0)
                                      - (IF h \in down THEN 1 ELSE 0)]
    /\ dtor({h \in down : rc[h] = 1 /\ h \notin up})

\* Process p's heap gets a term for h.
Hold(p, h) == held' = [held EXCEPT ![h] = @ \cup {p}]

\* A process that is not in a NIF or in open.
Idle(p) == pc[p] = "idle"

-----------------------------------------------------------------------------
(* The NIFs that create a handle *)

\* Mutant: the library object is left when there is no memory.
NoMemory_leaks(h, k) ==
    /\ kind[h] = "none"
    /\ kind' = [kind EXCEPT ![h] = k]
    /\ UNCHANGED <<owner, rc, destroys, held>>

\* The library has made its object and enif_alloc_resource fails: the object
\* is destroyed, and badarg is returned.
NoMemory(h, k) ==
    /\ kind[h] = "none"
    /\ kind' = [kind EXCEPT ![h] = k]
    /\ destroys' = [destroys EXCEPT ![h] = @ + 1]
    /\ UNCHANGED <<owner, rc, held>>

\* enif_make_resource and enif_release_resource leave the caller's reference.
Created(p, h, k) ==
    /\ kind[h] = "none"
    /\ kind' = [kind EXCEPT ![h] = k]
    /\ rc' = [rc EXCEPT ![h] = 1]
    /\ Hold(p, h)
    /\ owner' = [owner EXCEPT ![h] = IF k = "transaction" THEN p ELSE @]
    /\ UNCHANGED destroys

\* The caller has a handle of kind k.
Has(p, h, k) == Idle(p) /\ p \in held[h] /\ kind[h] = k

Create(p, h, k) ==
    /\ Created(p, h, k) \/ NoMemory(h, k)
    /\ UNCHANGED <<pool, tied, openVars>>

database_open_tenant(p, d, h) == Has(p, d, "database") /\ Create(p, h, "tenant")

database_create_transaction(p, d, h) ==
    Has(p, d, "database") /\ Create(p, h, "transaction")

tenant_create_transaction(p, t, h) ==
    Has(p, t, "tenant") /\ Create(p, h, "transaction")

-----------------------------------------------------------------------------
(* The NIFs that use a handle *)

\* They pass the library object to the library and change no handle.
Use(p, h) == Has(p, h, "database") /\ UNCHANGED vars

database_set_option(p, d) == Use(p, d)
database_get_main_thread_busyness(p, d) == Use(p, d)
database_get_client_status(p, d) == Use(p, d)

\* A call of the owner that makes a future tied to the transaction: the
\* transaction's term is copied into the environment of its message.
transaction_call(p, t, f) ==
    /\ Has(p, t, "transaction") /\ owner[t] = p /\ tied[f] = None
    /\ tied' = [tied EXCEPT ![f] = t]
    /\ Adjust({t}, {})
    /\ UNCHANGED <<kind, owner, held, pool, openVars>>

\* erlfdb_transaction_is_owner fails: badarg.
transaction_not_owner(p, t) ==
    /\ Has(p, t, "transaction") /\ owner[t] # p
    /\ UNCHANGED vars

\* The future is gone and its message, if it was sent, received.
future_gone(f) ==
    /\ tied[f] # None
    /\ tied' = [tied EXCEPT ![f] = None]
    /\ Adjust({}, {tied[f]})
    /\ UNCHANGED <<kind, owner, held, pool, openVars>>

-----------------------------------------------------------------------------
(* open/2 and open_all/2 *)

StartOpen(p, c, keys) ==
    /\ Idle(p)
    /\ pc' = [pc EXCEPT ![p] = "get"] /\ call' = [call EXCEPT ![p] = c]
    /\ todo' = [todo EXCEPT ![p] = keys]
    /\ UNCHANGED <<handleVars, new, made>>

\* The scheduler id is read once; the process may run on another afterwards.
open(p) == \E sid \in Keys : StartOpen(p, "open", <<sid>>)

open_all(p) == StartOpen(p, "open_all", [i \in 1..Schedulers |-> i])

\* Mutant: the call returns after its first key.
NextKey_early(p) ==
    /\ todo' = [todo EXCEPT ![p] = Tail(@)]
    /\ pc' = [pc EXCEPT ![p] = "idle"]

\* The next key, or the return of the call.
NextKey(p) ==
    /\ todo' = [todo EXCEPT ![p] = Tail(@)]
    /\ pc' = [pc EXCEPT ![p] = IF Len(todo[p]) = 1 THEN "idle" ELSE "get"]

Key(p) == Head(todo[p])

\* open_with_key: persistent_term:get finds a database, whose term the
\* process now has ...
get_found(p) ==
    /\ pc[p] = "get" /\ pool[Key(p)] # None
    /\ Hold(p, pool[Key(p)])
    /\ Adjust(IF p \in held[pool[Key(p)]] THEN {} ELSE {pool[Key(p)]}, {})
    /\ NextKey(p)
    /\ UNCHANGED <<kind, owner, pool, tied, call, new, made>>

\* ... or nothing.
get_undefined(p) ==
    /\ pc[p] = "get" /\ pool[Key(p)] = None
    /\ pc' = [pc EXCEPT ![p] = "create"]
    /\ UNCHANGED <<handleVars, call, todo, new, made>>

\* create_database raises: open raises, with what it has opened in the pool.
OpenRaises(p) ==
    /\ pc' = [pc EXCEPT ![p] = "idle"] /\ call' = [call EXCEPT ![p] = "none"]
    /\ todo' = [todo EXCEPT ![p] = <<>>]
    /\ UNCHANGED <<new, made>>

create_database(p, h) ==
    /\ pc[p] = "create"
    /\ \/ /\ Created(p, h, "database")
          /\ new' = [new EXCEPT ![p] = h]
          /\ made' = [made EXCEPT ![p][Key(p)] = @ + 1]
          /\ pc' = [pc EXCEPT ![p] = "put"]
          /\ UNCHANGED <<call, todo>>
       \/ NoMemory(h, "database") /\ OpenRaises(p)
    /\ UNCHANGED <<pool, tied>>

\* fdb_create_database returns an error.
create_database_error(p) ==
    /\ pc[p] = "create"
    /\ OpenRaises(p)
    /\ UNCHANGED handleVars

\* persistent_term:put: the last one stays.  A database that is replaced
\* keeps the references of the processes that have its term.
persistent_term_put(p) ==
    /\ pc[p] = "put"
    /\ pool' = [pool EXCEPT ![Key(p)] = new[p]]
    /\ Adjust({new[p]}, {pool[Key(p)]} \ {None})
    /\ new' = [new EXCEPT ![p] = None]
    /\ NextKey(p)
    /\ UNCHANGED <<kind, owner, held, tied, call, made>>

-----------------------------------------------------------------------------
(* The Erlang runtime (external) *)

\* p sends q a term.
share(p, q, h) ==
    /\ Idle(p) /\ p \in held[h] /\ q \notin held[h] /\ pc[q] # "dead"
    /\ Hold(q, h) /\ Adjust({h}, {})
    /\ UNCHANGED <<kind, owner, pool, tied, openVars>>

\* p's last term for h is collected.
drop(p, h) ==
    /\ Idle(p) /\ p \in held[h]
    /\ held' = [held EXCEPT ![h] = @ \ {p}]
    /\ Adjust({}, {h})
    /\ UNCHANGED <<kind, owner, pool, tied, openVars>>

\* p exits, or is killed in the middle of open.
exit(p) ==
    /\ pc[p] # "dead"
    /\ held' = [h \in Handles |-> held[h] \ {p}]
    /\ Adjust({}, {h \in Handles : p \in held[h]})
    /\ pc' = [pc EXCEPT ![p] = "dead"] /\ call' = [call EXCEPT ![p] = "none"]
    /\ todo' = [todo EXCEPT ![p] = <<>>] /\ new' = [new EXCEPT ![p] = None]
    /\ UNCHANGED <<kind, owner, pool, tied, made>>

Open(p) ==
    \/ open(p)
    \/ open_all(p)
    \/ get_found(p)
    \/ get_undefined(p)
    \/ \E h \in Handles : create_database(p, h)
    \/ create_database_error(p)
    \/ persistent_term_put(p)

Nifs(p, h) ==
    \/ \E g \in Handles : \/ database_open_tenant(p, h, g)
                          \/ database_create_transaction(p, h, g)
                          \/ tenant_create_transaction(p, h, g)
    \/ database_set_option(p, h)
    \/ database_get_main_thread_busyness(p, h)
    \/ database_get_client_status(p, h)
    \/ \E f \in Futures : transaction_call(p, h, f)
    \/ transaction_not_owner(p, h)

Next ==
    \/ \E p \in Procs : Open(p) \/ exit(p)
    \/ \E p \in Procs, h \in Handles :
          Nifs(p, h) \/ drop(p, h) \/ \E q \in Procs : share(p, q, h)
    \/ \E f \in Futures : future_gone(f)

Spec == Init /\ [][Next]_vars

-----------------------------------------------------------------------------
(* Properties *)

\* What refers to a handle.
PoolRefs(h) == {k \in Keys : pool[k] = h}
FutureRefs(h) == {f \in Futures : tied[f] = h}
Referenced(h) == held[h] # {} \/ PoolRefs(h) # {} \/ FutureRefs(h) # {}

\* The count is the number of references, whichever way a handle was passed
\* on, replaced in the pool or dropped.
RefCountExact ==
    \A h \in Handles :
        rc[h] = Cardinality(held[h]) + Cardinality(PoolRefs(h))
                + Cardinality(FutureRefs(h))

\* A handle that a process, the pool or a future can still reach points to a
\* library object that was not destroyed: no NIF uses a destroyed one, also
\* when two processes have stored a database for the same key.
NoUseAfterDestroy ==
    /\ TypeOK /\ RefCountExact
    /\ \A h \in Handles : Referenced(h) => destroys[h] = 0

\* A library object without a reference has been destroyed, on the paths too
\* where the resource could not be allocated.
NothingLeaked ==
    \A h \in Handles : kind[h] # "none" /\ ~Referenced(h) => destroys[h] = 1

\* open_all has filled the pool when it returns, whoever opened the databases,
\* and a process creates at most one database for a key: the pool is never
\* empty again once it has stored one.
OpenAllFills ==
    /\ \A p \in Procs : pc[p] = "idle" /\ call[p] = "open_all" =>
          \A k \in Keys : pool[k] # None
    /\ \A p \in Procs, k \in Keys : made[p][k] <= 1

-----------------------------------------------------------------------------
(* The inductive invariant *)

\* The library object is destroyed exactly when the last reference is gone.
Alive ==
    \A h \in Handles :
        /\ kind[h] = "none" => rc[h] = 0
        /\ destroys[h] = IF kind[h] # "none" /\ rc[h] = 0 THEN 1 ELSE 0

\* A process in open has a key to open, and holds the database that it is about
\* to store; what open_all has not to open any more is in the pool.
OpenInv ==
    \A p \in Procs :
        /\ pc[p] \in {"get", "create", "put"} <=> todo[p] # <<>>
        /\ IF pc[p] = "put" THEN new[p] \in Handles /\ p \in held[new[p]]
                            ELSE new[p] = None
        /\ call[p] = "open_all" =>
              \A k \in Keys : pool[k] # None \/ \E i \in DOMAIN todo[p] : todo[p][i] = k

\* A database that a process has created is in the pool, or about to be.
MadeInv ==
    \A p \in Procs, k \in Keys :
        /\ made[p][k] <= 1
        /\ pc[p] = "create" /\ k = Key(p) => made[p][k] = 0
        /\ made[p][k] = 1 =>
              pool[k] # None \/ pc[p] = "dead" \/ (pc[p] = "put" /\ k = Key(p))

IInv == TypeOK /\ RefCountExact /\ Alive /\ OpenInv /\ MadeInv

=============================================================================
