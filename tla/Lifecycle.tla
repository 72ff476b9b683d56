----------------------------- MODULE Lifecycle -----------------------------
(***************************************************************************)
(* The NIF library's own state (ErlFDBSt in c_src/main.c) from load to     *)
(* unload or halt: the -on_load function erlfdb_nif:init/0, the handshake  *)
(* between erlfdb_setup_network and the network thread, and erlfdb_join,   *)
(* which stops and joins that thread and frees the state.                  *)
(*                                                                         *)
(* The Erlang runtime and the client library are external.  A process that *)
(* loads the module runs init/0; processes call NIFs once it is loaded; a  *)
(* module whose init/0 failed is unloaded, and one that nobody executes    *)
(* may be; the runtime may halt, and then calls erlfdb_join itself.        *)
(***************************************************************************)
EXTENDS Naturals

CONSTANTS Clients,          \* processes that call NIFs of the loaded module
          MaxLoads,         \* bound: how often the module is loaded
          HaltOverlapsNifs  \* may the VM halt while a NIF call is executing?

ASSUME LifecycleAssumption ==
    /\ MaxLoads \in Nat
    /\ HaltOverlapsNifs \in BOOLEAN

VARIABLES
    priv,       \* the ErlFDBSt: none, alive or freed
    lib_state,  \* st->lib_state
    lock,       \* who holds st->lock
    init,       \* where init/0 is; loaded or failed when it has returned
    net,        \* where the network thread is
    join,       \* where erlfdb_join is
    fdb,        \* the client library's network: none, setup or stopped
    sentinel,   \* does the SENTINEL atom exist?
    selects,    \* calls of fdb_select_api_version
    loads,      \* how often the module was loaded
    client,     \* where each client is
    vm          \* up, halting or halted

vars == <<priv, lib_state, lock, init, net, join, fdb, sentinel, selects,
          loads, client, vm>>

LibStates == <<"ERROR", "LOADED", "API_SELECTED", "NETWORK_STARTING",
               "CONNECTED">>
LibStateSet == {LibStates[i] : i \in 1..5}
Rank(s) == CHOOSE i \in 1..5 : LibStates[i] = s

\* Where erlfdb_setup_network can be once fdb_setup_network has succeeded, and
\* which of these places use the ErlFDBSt next.
SetupPcs == {"thread_create", "setup_lock", "setup_check", "cond_wait",
             "setup_relock", "set_connected"}
InitPcs  == SetupPcs \cup {"can_initialize", "select_api_version",
                           "network_set_option", "setup_network"}
JoinPcs  == {"lock", "read", "stop", "thread_join", "destroy"}

TypeOK ==
    /\ priv \in {"none", "alive", "freed"}
    /\ lib_state \in LibStateSet
    /\ lock \in {"free", "init", "net", "join"}
    /\ init \in InitPcs \cup {"unloaded", "loaded", "failed"}
    /\ net \in {"none", "lock", "signal", "run", "exited", "joined"}
    /\ join \in JoinPcs \cup {"none"}
    /\ fdb \in {"none", "setup", "stopped"}
    /\ sentinel \in BOOLEAN
    /\ selects \in Nat
    /\ loads \in 0..MaxLoads
    /\ client \in [Clients -> {"out", "check", "call"}]
    /\ vm \in {"up", "halting", "halted"}

Init ==
    /\ priv = "none" /\ lib_state = "ERROR" /\ lock = "free"
    /\ init = "unloaded" /\ net = "none"
    /\ join = "none"
    /\ fdb = "none" /\ sentinel = FALSE /\ selects = 0 /\ loads = 0
    /\ client = [c \in Clients |-> "out"]
    /\ vm = "up"

\* A NIF call goes on while the VM halts; a new one is not begun.
MayBegin == vm = "up"
Goes == vm # "halted"

-----------------------------------------------------------------------------
(* Loading: erlfdb_load, then erlfdb_nif:init/0 *)

erlfdb_load ==
    /\ MayBegin /\ init = "unloaded" /\ loads < MaxLoads
    /\ priv' = "alive" /\ lib_state' = "LOADED" /\ lock' = "free"
    /\ loads' = loads + 1
    /\ init' = "can_initialize"
    /\ UNCHANGED <<net, join, fdb, sentinel, selects, client, vm>>

\* true = erlfdb_can_initialize(): the atom outlives the library, so that a
\* second load in the same VM fails here.
erlfdb_can_initialize ==
    /\ MayBegin /\ init = "can_initialize" /\ lib_state = "LOADED"
    /\ ~sentinel
    /\ sentinel' = TRUE
    /\ init' = "select_api_version"
    /\ UNCHANGED <<priv, lib_state, lock, net, join, fdb, selects, loads,
                   client, vm>>

erlfdb_cannot_initialize ==
    /\ MayBegin /\ init = "can_initialize" /\ lib_state = "LOADED"
    /\ sentinel
    /\ init' = "failed"
    /\ UNCHANGED <<priv, lib_state, lock, net, join, fdb, sentinel,
                   selects, loads, client, vm>>

\* ok = select_api_version(Vsn): the library may refuse the version.
erlfdb_select_api_version ==
    /\ MayBegin /\ init = "select_api_version" /\ lib_state = "LOADED"
    /\ selects' = selects + 1
    /\ \/ lib_state' = "API_SELECTED" /\ init' = "network_set_option"
       \/ lib_state' = lib_state /\ init' = "failed"
    /\ UNCHANGED <<priv, lock, net, join, fdb, sentinel, loads, client,
                   vm>>

\* ok = network_set_option(Name, Value), for every resolved option.
erlfdb_network_set_option ==
    /\ MayBegin /\ init = "network_set_option" /\ lib_state = "API_SELECTED"
    /\ init' \in {"network_set_option", "setup_network", "failed"}
    /\ UNCHANGED <<priv, lib_state, lock, net, join, fdb, sentinel,
                   selects, loads, client, vm>>

\* erlfdb_setup_network up to fdb_setup_network, which may fail.
erlfdb_setup_network ==
    /\ MayBegin /\ init = "setup_network" /\ lib_state = "API_SELECTED"
    /\ \/ fdb' = "setup" /\ init' = "thread_create"
       \/ fdb' = fdb /\ init' = "failed"
    /\ UNCHANGED <<priv, lib_state, lock, net, join, sentinel, selects,
                   loads, client, vm>>

\* Mutant: the NIF returns without waiting for the thread.
setup_thread_create_unwaited ==
    /\ Goes /\ init = "thread_create"
    /\ net' = "lock" /\ init' = "loaded"
    /\ UNCHANGED <<priv, lib_state, lock, join, fdb, sentinel, selects, loads,
                   client, vm>>

\* enif_thread_create, which may fail.
setup_thread_create ==
    /\ Goes /\ init = "thread_create"
    /\ \/ net' = "lock" /\ init' = "setup_lock"
       \/ net' = net /\ init' = "failed"
    /\ UNCHANGED <<priv, lib_state, lock, join, fdb, sentinel, selects,
                   loads, client, vm>>

setup_lock ==
    /\ Goes /\ init \in {"setup_lock", "setup_relock"} /\ lock = "free"
    /\ lock' = "init"
    /\ init' = "setup_check"
    /\ UNCHANGED <<priv, lib_state, net, join, fdb, sentinel, selects,
                   loads, client, vm>>

\* while (st->lib_state != ErlFDB_NETWORK_STARTING) enif_cond_wait(...): the
\* wait gives the lock up.
setup_wait ==
    /\ Goes /\ init = "setup_check" /\ lib_state # "NETWORK_STARTING"
    /\ lock' = "free"
    /\ init' = "cond_wait"
    /\ UNCHANGED <<priv, lib_state, net, join, fdb, sentinel, selects,
                   loads, client, vm>>

\* A condition variable may wake its waiter for no reason.
setup_spurious_wakeup ==
    /\ Goes /\ init = "cond_wait"
    /\ init' = "setup_relock"
    /\ UNCHANGED <<priv, lib_state, lock, net, join, fdb, sentinel,
                   selects, loads, client, vm>>

\* Mutant: any wake-up is taken for the network thread's.
setup_unlock_early ==
    /\ Goes /\ init = "setup_check"
    /\ lock' = "free"
    /\ init' = "set_connected"
    /\ UNCHANGED <<priv, lib_state, net, join, fdb, sentinel, selects, loads,
                   client, vm>>

setup_unlock ==
    /\ Goes /\ init = "setup_check" /\ lib_state = "NETWORK_STARTING"
    /\ lock' = "free"
    /\ init' = "set_connected"
    /\ UNCHANGED <<priv, lib_state, net, join, fdb, sentinel, selects,
                   loads, client, vm>>

\* The last assignment is made without the lock; then init/0 returns ok.
setup_connected ==
    /\ Goes /\ init = "set_connected"
    /\ lib_state' = "CONNECTED"
    /\ init' = "loaded"
    /\ UNCHANGED <<priv, lock, net, join, fdb, sentinel, selects, loads,
                   client, vm>>

-----------------------------------------------------------------------------
(* erlfdb_network_thread *)

network_lock ==
    /\ Goes /\ net = "lock" /\ lock = "free"
    /\ lock' = "net"
    /\ net' = "signal"
    /\ UNCHANGED <<priv, lib_state, init, join, fdb, sentinel, selects,
                   loads, client, vm>>

\* Mutant: the waiter is not woken.
network_signal_silent ==
    /\ Goes /\ net = "signal"
    /\ lib_state' = "NETWORK_STARTING"
    /\ lock' = "free"
    /\ net' = "run"
    /\ UNCHANGED <<priv, init, join, fdb, sentinel, selects, loads, client, vm>>

\* Mutant: the state is not set.
network_signal_unset ==
    /\ Goes /\ net = "signal"
    /\ init' = IF init = "cond_wait" THEN "setup_relock" ELSE init
    /\ lock' = "free"
    /\ net' = "run"
    /\ UNCHANGED <<priv, lib_state, join, fdb, sentinel, selects, loads, client,
                   vm>>

\* Under the lock: the state is set and the waiter, if there is one, woken.
network_signal ==
    /\ Goes /\ net = "signal"
    /\ lib_state' = "NETWORK_STARTING"
    /\ init' = IF init = "cond_wait" THEN "setup_relock" ELSE init
    /\ lock' = "free"
    /\ net' = "run"
    /\ UNCHANGED <<priv, join, fdb, sentinel, selects, loads, client, vm>>

\* fdb_run_network returns when the network has been stopped.
network_return ==
    /\ Goes /\ net = "run" /\ fdb = "stopped"
    /\ net' = "exited"
    /\ UNCHANGED <<priv, lib_state, lock, init, join, fdb, sentinel,
                   selects, loads, client, vm>>

-----------------------------------------------------------------------------
(* Clients: every other NIF begins with a test of st->lib_state *)

nif_enter(c) ==
    /\ MayBegin /\ init = "loaded" /\ join = "none" /\ client[c] = "out"
    /\ client' = [client EXCEPT ![c] = "check"]
    /\ UNCHANGED <<priv, lib_state, lock, init, net, join, fdb, sentinel,
                   selects, loads, vm>>

\* if (st->lib_state != ErlFDB_CONNECTED) return badarg.
nif_check(c) ==
    /\ Goes /\ client[c] = "check"
    /\ client' = [client EXCEPT
                    ![c] = IF lib_state = "CONNECTED" THEN "call" ELSE "out"]
    /\ UNCHANGED <<priv, lib_state, lock, init, net, join, fdb, sentinel,
                   selects, loads, vm>>

\* The rest of the NIF, with its calls of the client library.
nif_call(c) ==
    /\ Goes /\ client[c] = "call"
    /\ client' = [client EXCEPT ![c] = "out"]
    /\ UNCHANGED <<priv, lib_state, lock, init, net, join, fdb, sentinel,
                   selects, loads, vm>>

-----------------------------------------------------------------------------
(* erlfdb_join *)

InNif == init \in SetupPcs \/ \E c \in Clients : client[c] # "out"

\* erlfdb_unload: the runtime unloads a module that failed to load, or one that
\* was purged when no process executed it.
erlfdb_unload ==
    /\ MayBegin /\ join = "none" /\ priv = "alive"
    /\ init \in {"failed", "loaded"} /\ ~InNif
    /\ join' = "lock"
    /\ UNCHANGED <<priv, lib_state, lock, init, net, fdb, sentinel,
                   selects, loads, client, vm>>

\* The runtime halts, and calls erlfdb_join if the library is loaded.
halt ==
    /\ vm = "up" /\ join = "none"
    /\ HaltOverlapsNifs \/ ~InNif
    /\ IF priv = "alive" THEN vm' = "halting" /\ join' = "lock"
                         ELSE vm' = "halted" /\ UNCHANGED join
    /\ UNCHANGED <<priv, lib_state, lock, init, net, fdb, sentinel,
                   selects, loads, client>>

join_lock ==
    /\ Goes /\ join = "lock" /\ lock = "free"
    /\ lock' = "join"
    /\ join' = "read"
    /\ UNCHANGED <<priv, lib_state, init, net, fdb, sentinel, selects,
                   loads, client, vm>>

\* The state is copied, the lock given back, and the copy tested.
join_read ==
    /\ Goes /\ join = "read"
    /\ lock' = "free"
    /\ join' = IF lib_state = "CONNECTED" THEN "stop" ELSE "destroy"
    /\ UNCHANGED <<priv, lib_state, init, net, fdb, sentinel, selects, loads,
                   client, vm>>

\* Mutant: the thread is not joined.
join_stop_network_unjoined ==
    /\ Goes /\ join = "stop"
    /\ fdb' = "stopped"
    /\ join' = "destroy"
    /\ UNCHANGED <<priv, lib_state, lock, init, net, sentinel, selects, loads,
                   client, vm>>

\* Mutant: the thread is joined without being stopped.
join_stop_network_skipped ==
    /\ Goes /\ join = "stop"
    /\ join' = "thread_join"
    /\ UNCHANGED <<priv, lib_state, lock, init, net, fdb, sentinel, selects,
                   loads, client, vm>>

join_stop_network ==
    /\ Goes /\ join = "stop"
    /\ fdb' = "stopped"
    /\ join' = "thread_join"
    /\ UNCHANGED <<priv, lib_state, lock, init, net, sentinel, selects,
                   loads, client, vm>>

join_thread_join ==
    /\ Goes /\ join = "thread_join" /\ net = "exited"
    /\ net' = "joined"
    /\ join' = "destroy"
    /\ UNCHANGED <<priv, lib_state, lock, init, fdb, sentinel, selects,
                   loads, client, vm>>

\* The lock, the condition variable and the state are destroyed; the library
\* is gone, or the VM is.
join_destroy ==
    /\ Goes /\ join = "destroy"
    /\ priv' = "freed"
    /\ join' = "none"
    /\ IF vm = "halting" THEN vm' = "halted" /\ UNCHANGED init
                         ELSE init' = "unloaded" /\ UNCHANGED vm
    /\ UNCHANGED <<lib_state, lock, net, fdb, sentinel, selects, loads,
                   client>>

-----------------------------------------------------------------------------

Setup == \/ erlfdb_setup_network
         \/ setup_thread_create
         \/ setup_lock
         \/ setup_wait
         \/ setup_unlock
         \/ setup_connected

Load == \/ erlfdb_load
        \/ erlfdb_can_initialize
        \/ erlfdb_cannot_initialize
        \/ erlfdb_select_api_version
        \/ erlfdb_network_set_option

NetworkThread == network_signal \/ network_return

Join == join_read \/ join_stop_network \/ join_thread_join \/ join_destroy

Nif(c) == nif_enter(c) \/ nif_check(c) \/ nif_call(c)

Next ==
    \/ Load \/ Setup \/ setup_spurious_wakeup
    \/ network_lock \/ NetworkThread
    \/ \E c \in Clients : Nif(c)
    \/ erlfdb_unload \/ halt \/ join_lock \/ Join

Spec == Init /\ [][Next]_vars

-----------------------------------------------------------------------------
(* Properties *)

\* The places whose next step reads or writes the ErlFDBSt, its lock or its
\* condition variable.
InitUses == SetupPcs \ {"thread_create"}

\* Nobody uses the ErlFDBSt that erlfdb_join has freed: not the network thread
\* (which must be past its handshake), not erlfdb_setup_network, not a client's
\* test of lib_state, and not a second erlfdb_join.
StateNotFreed ==
    priv = "freed" =>
        /\ net \notin {"lock", "signal"}
        /\ init \notin InitUses
        /\ \A c \in Clients : client[c] # "check"
        /\ join = "none"

\* notes/thread-design.md, Shutdown: "The erlfdb NIF uses enif callbacks to
\* ensure the event loop is stopped and the thread is joined before the VM is
\* terminated."  The same holds of an unload, whose code the thread executes.
JoinedBeforeTermination ==
    vm = "halted" \/ init = "unloaded" => net \in {"none", "joined"}

\* The assertions of erlfdb_join: fdb_stop_network succeeds because the network
\* was set up and not stopped before, and there is a thread to join.
JoinAssertions ==
    /\ join = "stop" => fdb = "setup" /\ net = "run"
    /\ join = "thread_join" => net \in {"run", "exited"}

\* The client library accepts one fdb_select_api_version in an OS process, and
\* its network cannot be set up again: whatever fails, and however often the
\* module is loaded, the SENTINEL atom lets init/0 get that far only once.
SelectedOnce == selects <= 1

\* A NIF calls the client library only while its network thread is there.
CallsWhileConnected ==
    \A c \in Clients :
        client[c] = "call" => fdb = "setup" /\ net = "run" /\ priv = "alive"

\* Within one load lib_state only moves forward: the network thread's
\* assignment of NETWORK_STARTING cannot undo the unlocked assignment of
\* CONNECTED, which would make erlfdb_join skip the thread.
StateMovesForward ==
    [][lib_state' # lib_state =>
          lib_state' = "LOADED" \/ Rank(lib_state') > Rank(lib_state)]_vars

-----------------------------------------------------------------------------
(* The inductive invariant, when the VM halts between NIF calls only *)

\* Each holder of the lock is where it holds it.
LockInv ==
    /\ lock = "init" <=> init = "setup_check"
    /\ lock = "net" <=> net = "signal"
    /\ lock = "join" <=> join = "read"

\* Who may still use the ErlFDBSt: it is there while init/0, a NIF or
\* erlfdb_join is at work, and init/0 and the NIFs are not when erlfdb_join is.
PrivInv ==
    /\ priv = "alive" <=> init # "unloaded" /\ vm # "halted"
    /\ join # "none" => priv = "alive" /\ ~InNif
    /\ InNif => vm = "up"
    /\ \A c \in Clients : client[c] # "out" => init = "loaded"
    /\ join # "none" /\ vm = "up" => init \in {"failed", "loaded"}
    /\ vm = "halting" => join # "none"
    /\ vm = "halted" => join = "none"

\* The network is touched by one init/0 at most, the first to pass the sentinel.
SentinelInv ==
    /\ ~sentinel => net = "none" /\ fdb = "none" /\ selects = 0
    /\ init = "select_api_version" => sentinel /\ selects = 0
    /\ selects <= 1
    /\ init \in {"select_api_version", "network_set_option", "setup_network"}
         => sentinel /\ net = "none" /\ fdb = "none"

\* The handshake: how far init/0, the network thread and lib_state are of each
\* other.
HandshakeInv ==
    /\ init \in {"can_initialize", "select_api_version"} =>
          lib_state = "LOADED"
    /\ init \in {"network_set_option", "setup_network", "thread_create"} =>
          lib_state = "API_SELECTED"
    /\ init \in {"can_initialize", "failed", "unloaded"} =>
          net \in {"none", "joined"}
    /\ init = "failed" => lib_state \in {"LOADED", "API_SELECTED"}
    /\ init = "thread_create" => net = "none" /\ fdb = "setup"
    /\ init \in {"setup_lock", "setup_check", "cond_wait", "setup_relock"} =>
          /\ fdb = "setup"
          /\ \/ net \in {"lock", "signal"} /\ lib_state = "API_SELECTED"
             \/ net = "run" /\ lib_state = "NETWORK_STARTING"
    /\ init = "set_connected" =>
          fdb = "setup" /\ net = "run" /\ lib_state = "NETWORK_STARTING"
    /\ init = "loaded" => lib_state = "CONNECTED"

\* What erlfdb_join has done to the network of a loaded module.
JoinInv ==
    /\ join \in {"stop", "thread_join"} => init = "loaded"
    /\ init = "loaded" /\ vm # "halted" =>
          /\ join \in {"none", "lock", "read", "stop"} =>
                fdb = "setup" /\ net = "run"
          /\ join = "thread_join" => fdb = "stopped" /\ net \in {"run", "exited"}
          /\ join = "destroy" => net = "joined"
    /\ vm = "halted" => net \in {"none", "joined"}

IInv ==
    /\ TypeOK
    /\ LockInv
    /\ PrivInv
    /\ SentinelInv
    /\ HandshakeInv
    /\ JoinInv

-----------------------------------------------------------------------------
(* Liveness *)

\* Threads that can go on do; the mutex is given to a thread that contends for
\* it some day.  Nothing is assumed of the clients' calls or of halt, and the
\* options that init/0 sets are finitely many.
Fairness ==
    /\ WF_vars(erlfdb_can_initialize \/ erlfdb_cannot_initialize
                 \/ erlfdb_select_api_version)
    /\ SF_vars(erlfdb_network_set_option /\ init' # "network_set_option")
    /\ WF_vars(erlfdb_setup_network \/ setup_thread_create \/ setup_wait
                 \/ setup_unlock \/ setup_connected)
    /\ SF_vars(setup_lock)
    /\ SF_vars(network_lock)
    /\ WF_vars(NetworkThread)
    /\ SF_vars(join_lock)
    /\ WF_vars(Join)

FairSpec == Spec /\ Fairness

\* init/0 returns unless the VM halts first: the wake-up of
\* erlfdb_setup_network is not lost, whichever thread gets the lock first.
InitReturns ==
    init \in InitPcs ~> (init \in {"loaded", "failed"} \/ vm # "up")

\* erlfdb_join returns, so that a halt ends.
JoinReturns == join # "none" ~> join = "none"

=============================================================================
