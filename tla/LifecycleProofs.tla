--------------------------- MODULE LifecycleProofs ---------------------------
(***************************************************************************)
(* The handshake and erlfdb_join are safe for any number of clients and of *)
(* loads, provided the VM halts only while no NIF call is executing.       *)
(***************************************************************************)
EXTENDS Lifecycle, TLAPS

USE LifecycleAssumption
USE DEF LibStateSet, LibStates, SetupPcs, InitPcs, JoinPcs, MayBegin, Goes,
        InNif

-----------------------------------------------------------------------------
(* One lemma per action *)

\* A new state, while the old network, if there was one, has been joined.
LEMMA Step_erlfdb_load ==
  ASSUME IInv, erlfdb_load
  PROVE  IInv'
<1> USE DEF erlfdb_load, IInv, TypeOK
<1>1. TypeOK'
  OBVIOUS
<1>2. LockInv' /\ PrivInv'
  BY DEF LockInv, PrivInv, HandshakeInv
<1>3. SentinelInv' /\ HandshakeInv' /\ JoinInv'
  BY DEF LockInv, PrivInv, SentinelInv, HandshakeInv, JoinInv
<1> QED
  BY <1>1, <1>2, <1>3

\* The first init/0 to come here finds nothing set up.
LEMMA Step_erlfdb_can_initialize ==
  ASSUME IInv, erlfdb_can_initialize
  PROVE  IInv'
<1> USE DEF erlfdb_can_initialize, IInv, TypeOK
<1>1. TypeOK'
  OBVIOUS
<1>2. LockInv' /\ PrivInv'
  BY DEF LockInv, PrivInv, HandshakeInv
<1>3. SentinelInv' /\ HandshakeInv' /\ JoinInv'
  BY DEF LockInv, PrivInv, SentinelInv, HandshakeInv, JoinInv
<1> QED
  BY <1>1, <1>2, <1>3

\* A later one fails.
LEMMA Step_erlfdb_cannot_initialize ==
  ASSUME IInv, erlfdb_cannot_initialize
  PROVE  IInv'
<1> USE DEF erlfdb_cannot_initialize, IInv, TypeOK
<1>1. TypeOK'
  OBVIOUS
<1>2. LockInv' /\ PrivInv'
  BY DEF LockInv, PrivInv, HandshakeInv
<1>3. SentinelInv' /\ HandshakeInv' /\ JoinInv'
  BY DEF LockInv, PrivInv, SentinelInv, HandshakeInv, JoinInv
<1> QED
  BY <1>1, <1>2, <1>3

\* The version is selected once.
LEMMA Step_erlfdb_select_api_version ==
  ASSUME IInv, erlfdb_select_api_version
  PROVE  IInv'
<1> USE DEF erlfdb_select_api_version, IInv, TypeOK
<1>1. TypeOK'
  OBVIOUS
<1>2. LockInv' /\ PrivInv'
  BY DEF LockInv, PrivInv, HandshakeInv
<1>3. SentinelInv' /\ HandshakeInv' /\ JoinInv'
  BY DEF LockInv, PrivInv, SentinelInv, HandshakeInv, JoinInv
<1> QED
  BY <1>1, <1>2, <1>3

\* Only init changes.
LEMMA Step_erlfdb_network_set_option ==
  ASSUME IInv, erlfdb_network_set_option
  PROVE  IInv'
<1> USE DEF erlfdb_network_set_option, IInv, TypeOK
<1>1. TypeOK'
  OBVIOUS
<1>2. LockInv' /\ PrivInv'
  BY DEF LockInv, PrivInv, HandshakeInv
<1>3. SentinelInv' /\ HandshakeInv' /\ JoinInv'
  BY DEF LockInv, PrivInv, SentinelInv, HandshakeInv, JoinInv
<1> QED
  BY <1>1, <1>2, <1>3

\* The network is set up, or init/0 fails.
LEMMA Step_erlfdb_setup_network ==
  ASSUME IInv, erlfdb_setup_network
  PROVE  IInv'
<1> USE DEF erlfdb_setup_network, IInv, TypeOK
<1>1. TypeOK'
  OBVIOUS
<1>2. LockInv' /\ PrivInv'
  BY DEF LockInv, PrivInv, HandshakeInv
<1>3. SentinelInv' /\ HandshakeInv' /\ JoinInv'
  BY DEF LockInv, PrivInv, SentinelInv, HandshakeInv, JoinInv
<1> QED
  BY <1>1, <1>2, <1>3

\* The thread exists from here on, or init/0 fails.
LEMMA Step_setup_thread_create ==
  ASSUME IInv, setup_thread_create
  PROVE  IInv'
<1> USE DEF setup_thread_create, IInv, TypeOK
<1>1. TypeOK'
  OBVIOUS
<1>2. LockInv' /\ PrivInv'
  BY DEF LockInv, PrivInv, HandshakeInv
<1>3. SentinelInv' /\ HandshakeInv' /\ JoinInv'
  BY DEF LockInv, PrivInv, SentinelInv, HandshakeInv, JoinInv
<1> QED
  BY <1>1, <1>2, <1>3

\* init/0 takes the lock.
LEMMA Step_setup_lock ==
  ASSUME IInv, setup_lock
  PROVE  IInv'
<1> USE DEF setup_lock, IInv, TypeOK
<1>1. TypeOK'
  OBVIOUS
<1>2. LockInv' /\ PrivInv'
  BY DEF LockInv, PrivInv, HandshakeInv
<1>3. SentinelInv' /\ HandshakeInv' /\ JoinInv'
  BY DEF LockInv, PrivInv, SentinelInv, HandshakeInv, JoinInv
<1> QED
  BY <1>1, <1>2, <1>3

\* init/0 gives the lock up to wait.
LEMMA Step_setup_wait ==
  ASSUME IInv, setup_wait
  PROVE  IInv'
<1> USE DEF setup_wait, IInv, TypeOK
<1>1. TypeOK'
  OBVIOUS
<1>2. LockInv' /\ PrivInv'
  BY DEF LockInv, PrivInv, HandshakeInv
<1>3. SentinelInv' /\ HandshakeInv' /\ JoinInv'
  BY DEF LockInv, PrivInv, SentinelInv, HandshakeInv, JoinInv
<1> QED
  BY <1>1, <1>2, <1>3

\* A wake-up changes nothing but init.
LEMMA Step_setup_spurious_wakeup ==
  ASSUME IInv, setup_spurious_wakeup
  PROVE  IInv'
<1> USE DEF setup_spurious_wakeup, IInv, TypeOK
<1>1. TypeOK'
  OBVIOUS
<1>2. LockInv' /\ PrivInv'
  BY DEF LockInv, PrivInv, HandshakeInv
<1>3. SentinelInv' /\ HandshakeInv' /\ JoinInv'
  BY DEF LockInv, PrivInv, SentinelInv, HandshakeInv, JoinInv
<1> QED
  BY <1>1, <1>2, <1>3

\* The network thread is past its handshake.
LEMMA Step_setup_unlock ==
  ASSUME IInv, setup_unlock
  PROVE  IInv'
<1> USE DEF setup_unlock, IInv, TypeOK
<1>1. TypeOK'
  OBVIOUS
<1>2. LockInv' /\ PrivInv'
  BY DEF LockInv, PrivInv, HandshakeInv
<1>3. SentinelInv' /\ HandshakeInv' /\ JoinInv'
  BY DEF LockInv, PrivInv, SentinelInv, HandshakeInv, JoinInv
<1> QED
  BY <1>1, <1>2, <1>3

\* The network thread, past its handshake, does not undo this.
LEMMA Step_setup_connected ==
  ASSUME IInv, setup_connected
  PROVE  IInv'
<1> USE DEF setup_connected, IInv, TypeOK
<1>1. TypeOK'
  OBVIOUS
<1>2. LockInv' /\ PrivInv'
  BY DEF LockInv, PrivInv, HandshakeInv
<1>3. SentinelInv' /\ HandshakeInv' /\ JoinInv'
  BY DEF LockInv, PrivInv, SentinelInv, HandshakeInv, JoinInv
<1> QED
  BY <1>1, <1>2, <1>3

\* The network thread takes the lock.
LEMMA Step_network_lock ==
  ASSUME IInv, network_lock
  PROVE  IInv'
<1> USE DEF network_lock, IInv, TypeOK
<1>1. TypeOK'
  OBVIOUS
<1>2. LockInv' /\ PrivInv'
  BY DEF LockInv, PrivInv, HandshakeInv
<1>3. SentinelInv' /\ HandshakeInv' /\ JoinInv'
  BY DEF LockInv, PrivInv, SentinelInv, HandshakeInv, JoinInv
<1> QED
  BY <1>1, <1>2, <1>3

\* init/0 is still waiting for this.
LEMMA Step_network_signal ==
  ASSUME IInv, network_signal
  PROVE  IInv'
<1> USE DEF network_signal, IInv, TypeOK
<1>1. TypeOK'
  OBVIOUS
<1>2. LockInv' /\ PrivInv'
  BY DEF LockInv, PrivInv, HandshakeInv
<1>3. SentinelInv' /\ HandshakeInv' /\ JoinInv'
  BY DEF LockInv, PrivInv, SentinelInv, HandshakeInv, JoinInv
<1> QED
  BY <1>1, <1>2, <1>3

\* The thread returns after erlfdb_join stopped the network.
LEMMA Step_network_return ==
  ASSUME IInv, network_return
  PROVE  IInv'
<1> USE DEF network_return, IInv, TypeOK
<1>1. TypeOK'
  OBVIOUS
<1>2. LockInv' /\ PrivInv'
  BY DEF LockInv, PrivInv, HandshakeInv
<1>3. SentinelInv' /\ HandshakeInv' /\ JoinInv'
  BY DEF LockInv, PrivInv, SentinelInv, HandshakeInv, JoinInv
<1> QED
  BY <1>1, <1>2, <1>3

\* A client begins a NIF of the loaded module.
LEMMA Step_nif_enter ==
  ASSUME IInv, NEW c \in Clients, nif_enter(c)
  PROVE  IInv'
<1> USE DEF nif_enter, IInv, TypeOK
<1>1. TypeOK'
  OBVIOUS
<1>2. LockInv' /\ PrivInv'
  BY DEF LockInv, PrivInv, HandshakeInv
<1>3. SentinelInv' /\ HandshakeInv' /\ JoinInv'
  BY DEF LockInv, PrivInv, SentinelInv, HandshakeInv, JoinInv
<1> QED
  BY <1>1, <1>2, <1>3

\* A client tests lib_state.
LEMMA Step_nif_check ==
  ASSUME IInv, NEW c \in Clients, nif_check(c)
  PROVE  IInv'
<1> USE DEF nif_check, IInv, TypeOK
<1>1. TypeOK'
  OBVIOUS
<1>2. LockInv' /\ PrivInv'
  BY DEF LockInv, PrivInv, HandshakeInv
<1>3. SentinelInv' /\ HandshakeInv' /\ JoinInv'
  BY DEF LockInv, PrivInv, SentinelInv, HandshakeInv, JoinInv
<1> QED
  BY <1>1, <1>2, <1>3

\* A client's NIF returns.
LEMMA Step_nif_call ==
  ASSUME IInv, NEW c \in Clients, nif_call(c)
  PROVE  IInv'
<1> USE DEF nif_call, IInv, TypeOK
<1>1. TypeOK'
  OBVIOUS
<1>2. LockInv' /\ PrivInv'
  BY DEF LockInv, PrivInv, HandshakeInv
<1>3. SentinelInv' /\ HandshakeInv' /\ JoinInv'
  BY DEF LockInv, PrivInv, SentinelInv, HandshakeInv, JoinInv
<1> QED
  BY <1>1, <1>2, <1>3

\* erlfdb_join begins while nobody executes the module.
LEMMA Step_erlfdb_unload ==
  ASSUME IInv, erlfdb_unload
  PROVE  IInv'
<1> USE DEF erlfdb_unload, IInv, TypeOK
<1>1. TypeOK'
  OBVIOUS
<1>2. LockInv' /\ PrivInv'
  BY DEF LockInv, PrivInv, HandshakeInv
<1>3. SentinelInv' /\ HandshakeInv' /\ JoinInv'
  BY DEF LockInv, PrivInv, SentinelInv, HandshakeInv, JoinInv
<1> QED
  BY <1>1, <1>2, <1>3

\* erlfdb_join begins, or there is nothing to join.
LEMMA Step_halt ==
  ASSUME IInv, ~HaltOverlapsNifs, halt
  PROVE  IInv'
<1> USE DEF halt, IInv, TypeOK
<1>1. TypeOK'
  OBVIOUS
<1>2. LockInv' /\ PrivInv'
  BY DEF LockInv, PrivInv, HandshakeInv
<1>3. SentinelInv' /\ HandshakeInv' /\ JoinInv'
  BY DEF LockInv, PrivInv, SentinelInv, HandshakeInv, JoinInv
<1> QED
  BY <1>1, <1>2, <1>3

\* erlfdb_join takes the lock.
LEMMA Step_join_lock ==
  ASSUME IInv, join_lock
  PROVE  IInv'
<1> USE DEF join_lock, IInv, TypeOK
<1>1. TypeOK'
  OBVIOUS
<1>2. LockInv' /\ PrivInv'
  BY DEF LockInv, PrivInv, HandshakeInv
<1>3. SentinelInv' /\ HandshakeInv' /\ JoinInv'
  BY DEF LockInv, PrivInv, SentinelInv, HandshakeInv, JoinInv
<1> QED
  BY <1>1, <1>2, <1>3

\* Only a loaded module is CONNECTED, and only it has a thread.
LEMMA Step_join_read ==
  ASSUME IInv, join_read
  PROVE  IInv'
<1> USE DEF join_read, IInv, TypeOK
<1>1. TypeOK'
  OBVIOUS
<1>2. LockInv' /\ PrivInv'
  BY DEF LockInv, PrivInv, HandshakeInv
<1>3. SentinelInv' /\ HandshakeInv' /\ JoinInv'
  BY DEF LockInv, PrivInv, SentinelInv, HandshakeInv, JoinInv
<1> QED
  BY <1>1, <1>2, <1>3

\* The network is stopped.
LEMMA Step_join_stop_network ==
  ASSUME IInv, join_stop_network
  PROVE  IInv'
<1> USE DEF join_stop_network, IInv, TypeOK
<1>1. TypeOK'
  OBVIOUS
<1>2. LockInv' /\ PrivInv'
  BY DEF LockInv, PrivInv, HandshakeInv
<1>3. SentinelInv' /\ HandshakeInv' /\ JoinInv'
  BY DEF LockInv, PrivInv, SentinelInv, HandshakeInv, JoinInv
<1> QED
  BY <1>1, <1>2, <1>3

\* The thread has returned.
LEMMA Step_join_thread_join ==
  ASSUME IInv, join_thread_join
  PROVE  IInv'
<1> USE DEF join_thread_join, IInv, TypeOK
<1>1. TypeOK'
  OBVIOUS
<1>2. LockInv' /\ PrivInv'
  BY DEF LockInv, PrivInv, HandshakeInv
<1>3. SentinelInv' /\ HandshakeInv' /\ JoinInv'
  BY DEF LockInv, PrivInv, SentinelInv, HandshakeInv, JoinInv
<1> QED
  BY <1>1, <1>2, <1>3

\* The state is freed when there is no thread.
LEMMA Step_join_destroy ==
  ASSUME IInv, join_destroy
  PROVE  IInv'
<1> USE DEF join_destroy, IInv, TypeOK
<1>1. TypeOK'
  OBVIOUS
<1>2. LockInv' /\ PrivInv'
  BY DEF LockInv, PrivInv, HandshakeInv
<1>3. SentinelInv' /\ HandshakeInv' /\ JoinInv'
  BY DEF LockInv, PrivInv, SentinelInv, HandshakeInv, JoinInv
<1> QED
  BY <1>1, <1>2, <1>3

-----------------------------------------------------------------------------

\* The invariant holds initially and every step, or stutter, preserves it.
LEMMA Inductive ==
  ASSUME ~HaltOverlapsNifs
  PROVE  /\ Init => IInv
         /\ IInv /\ [Next]_vars => IInv'
<1>1. ASSUME Init
      PROVE  IInv
  <2>1. TypeOK
    <3>1. 0 \in 0..MaxLoads
      OBVIOUS
    <3>2. "ERROR" \in LibStateSet
      OBVIOUS
    <3> QED
      BY <1>1, <3>1, <3>2 DEF Init, TypeOK
  <2>2. LockInv /\ PrivInv
    BY <1>1 DEF Init, LockInv, PrivInv
  <2>3. SentinelInv /\ HandshakeInv /\ JoinInv
    BY <1>1 DEF Init, SentinelInv, HandshakeInv, JoinInv
  <2> QED
    BY <2>1, <2>2, <2>3 DEF IInv
<1>2. ASSUME IInv, UNCHANGED vars
      PROVE  IInv'
  BY <1>2 DEF vars, IInv, TypeOK, LockInv, PrivInv, SentinelInv, HandshakeInv,
     JoinInv
<1>3. ASSUME IInv, Load \/ Setup \/ setup_spurious_wakeup
      PROVE  IInv'
  BY <1>3, Step_erlfdb_load, Step_erlfdb_can_initialize,
     Step_erlfdb_cannot_initialize, Step_erlfdb_select_api_version,
     Step_erlfdb_network_set_option, Step_erlfdb_setup_network,
     Step_setup_thread_create, Step_setup_lock, Step_setup_wait,
     Step_setup_unlock, Step_setup_connected, Step_setup_spurious_wakeup
     DEF Load, Setup
<1>4. ASSUME IInv, network_lock \/ NetworkThread
      PROVE  IInv'
  BY <1>4, Step_network_lock, Step_network_signal, Step_network_return
     DEF NetworkThread
<1>5. ASSUME IInv, NEW c \in Clients, Nif(c)
      PROVE  IInv'
  BY <1>5, Step_nif_enter, Step_nif_check, Step_nif_call DEF Nif
<1>6. ASSUME IInv, erlfdb_unload \/ halt \/ join_lock \/ Join
      PROVE  IInv'
  BY <1>6, Step_erlfdb_unload, Step_halt, Step_join_lock, Step_join_read,
     Step_join_stop_network, Step_join_thread_join, Step_join_destroy
     DEF Join
<1> QED
  BY <1>1, <1>2, <1>3, <1>4, <1>5, <1>6 DEF Next

\* The inductive invariant holds in every reachable state.
THEOREM Invariance ==
  ASSUME ~HaltOverlapsNifs
  PROVE  Spec => []IInv
BY Inductive, PTL DEF Spec

\* Nobody uses the ErlFDBSt after erlfdb_join has freed it.
THEOREM StateSafe ==
  ASSUME ~HaltOverlapsNifs
  PROVE  Spec => []StateNotFreed
<1>1. IInv => StateNotFreed
  BY DEF IInv, TypeOK, StateNotFreed, PrivInv, HandshakeInv, JoinInv, InitUses
<1> QED
  BY <1>1, Invariance, PTL

\* The network thread is joined before the library is unloaded or the VM ends.
THEOREM ThreadJoined ==
  ASSUME ~HaltOverlapsNifs
  PROVE  Spec => []JoinedBeforeTermination
<1>1. IInv => JoinedBeforeTermination
  BY DEF IInv, JoinedBeforeTermination, HandshakeInv, JoinInv
<1> QED
  BY <1>1, Invariance, PTL

\* The assertions of erlfdb_join hold.
THEOREM AssertionsHold ==
  ASSUME ~HaltOverlapsNifs
  PROVE  Spec => []JoinAssertions
<1>1. IInv => JoinAssertions
  BY DEF IInv, JoinAssertions, PrivInv, JoinInv
<1> QED
  BY <1>1, Invariance, PTL

\* The API version is selected at most once, however often the module is
\* loaded.
THEOREM Once ==
  ASSUME ~HaltOverlapsNifs
  PROVE  Spec => []SelectedOnce
<1>1. IInv => SelectedOnce
  BY DEF IInv, SelectedOnce, SentinelInv
<1> QED
  BY <1>1, Invariance, PTL

\* A client calls the library only while the network thread runs.
THEOREM CallsSafe ==
  ASSUME ~HaltOverlapsNifs
  PROVE  Spec => []CallsWhileConnected
<1>1. IInv => CallsWhileConnected
  BY DEF IInv, TypeOK, CallsWhileConnected, PrivInv, JoinInv
<1> QED
  BY <1>1, Invariance, PTL

\* The order of the library states.
LEMMA Ranks ==
  /\ Rank("LOADED") = 2 /\ Rank("API_SELECTED") = 3
  /\ Rank("NETWORK_STARTING") = 4 /\ Rank("CONNECTED") = 5
<1>1. /\ LibStates[1] = "ERROR" /\ LibStates[2] = "LOADED"
      /\ LibStates[3] = "API_SELECTED" /\ LibStates[4] = "NETWORK_STARTING"
      /\ LibStates[5] = "CONNECTED"
  OBVIOUS
<1>2. \A i \in 1..5 : i = 1 \/ i = 2 \/ i = 3 \/ i = 4 \/ i = 5
  OBVIOUS
<1> HIDE DEF LibStates
<1>3. Rank("LOADED") = 2
  BY <1>1, <1>2 DEF Rank
<1>4. Rank("API_SELECTED") = 3
  BY <1>1, <1>2 DEF Rank
<1>5. Rank("NETWORK_STARTING") = 4
  BY <1>1, <1>2 DEF Rank
<1>6. Rank("CONNECTED") = 5
  BY <1>1, <1>2 DEF Rank
<1> QED
  BY <1>3, <1>4, <1>5, <1>6

\* What a step may do to lib_state.
Forward ==
  lib_state' # lib_state =>
     lib_state' = "LOADED" \/ Rank(lib_state') > Rank(lib_state)

\* lib_state is assigned in four places; in the network thread's the invariant
\* says that init/0 has not gone on to CONNECTED.
LEMMA StepForward ==
  ASSUME IInv, Next
  PROVE  Forward
<1> USE DEF Forward
<1>1. CASE erlfdb_load
  BY <1>1 DEF erlfdb_load
<1>2. CASE erlfdb_select_api_version
  BY <1>2, Ranks DEF erlfdb_select_api_version
<1>3. CASE setup_connected
  BY <1>3, Ranks DEF setup_connected, IInv, HandshakeInv
<1>4. CASE network_signal
  <2>1. lib_state = "API_SELECTED"
    BY <1>4 DEF network_signal, IInv, TypeOK, LockInv, PrivInv, SentinelInv,
       HandshakeInv, JoinInv
  <2> QED
    BY <1>4, <2>1, Ranks DEF network_signal
<1>5. CASE /\ Load \/ Setup \/ setup_spurious_wakeup
           /\ ~erlfdb_load /\ ~erlfdb_select_api_version /\ ~setup_connected
  <2>1. lib_state' = lib_state
    BY <1>5 DEF Load, Setup, erlfdb_can_initialize, erlfdb_cannot_initialize,
       erlfdb_network_set_option, erlfdb_setup_network, setup_thread_create,
       setup_lock, setup_wait, setup_unlock, setup_spurious_wakeup
  <2> QED
    BY <2>1
<1>6. CASE network_lock \/ network_return \/ \E c \in Clients : Nif(c)
  <2>1. lib_state' = lib_state
    BY <1>6 DEF network_lock, network_return, Nif, nif_enter, nif_check, nif_call
  <2> QED
    BY <2>1
<1>7. CASE erlfdb_unload \/ halt \/ join_lock \/ Join
  <2>1. lib_state' = lib_state
    BY <1>7 DEF erlfdb_unload, halt, join_lock, Join, join_read,
       join_stop_network, join_thread_join, join_destroy
  <2> QED
    BY <2>1
<1> QED
  BY <1>1, <1>2, <1>3, <1>4, <1>5, <1>6, <1>7 DEF Next, NetworkThread

\* The network thread does not undo the unlocked assignment of CONNECTED: within
\* one load lib_state only moves forward.
THEOREM MovesForward ==
  ASSUME ~HaltOverlapsNifs
  PROVE  Spec => StateMovesForward
<1>1. IInv /\ [Next]_vars => [Forward]_vars
  BY StepForward
<1> QED
  BY <1>1, Invariance, PTL DEF Spec, StateMovesForward, Forward

=============================================================================
