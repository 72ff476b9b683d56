---------------------------- MODULE Transactional ----------------------------
(***************************************************************************)
(* erlfdb:transactional/2: one process, its transaction resource           *)
(* (ErlFDBTransaction in c_src/resources.h), the retry loop do_transaction *)
(* and the ready messages that the futures of its attempts send it.        *)
(*                                                                         *)
(* The user's function is any sequence of calls that ends in a return or   *)
(* an exception, and may behave differently in every attempt.  The client  *)
(* library is external: what the transaction has to commit is kept in      *)
(* dirty and watched, a commit may fail with or without having been        *)
(* applied, and on_error decides whether an error is retried.              *)
(***************************************************************************)
EXTENDS Naturals

CONSTANTS Futures,    \* the futures that exist at one time
          MaxDepth,   \* bound: how often the function is retried
          TxIdLimit   \* the largest transaction id, 65535 in the code

ASSUME TransactionalAssumption ==
    /\ MaxDepth \in Nat
    /\ TxIdLimit \in Nat

VARIABLES
    pc,              \* where do_transaction is
    depth,           \* its Depth argument: the number of this attempt
    read_only, writes_allowed, has_watches, txid,   \* the resource's fields
    dirty,           \* the library's transaction has writes to commit
    watched,         \* the library's transaction has watches to commit
    cancelled,       \* the library's transaction was cancelled
    applied,         \* how often writes of this call were applied
    unknown,         \* did a commit end with an unknown result?
    fut,             \* each future: pending, sent (its message is in the
                     \* mailbox), or unused: not created, or waited for
    kind,            \* what it is the result of
    tied,            \* does its message carry the transaction's reference?
    born             \* the attempt that created it

txVars  == <<read_only, writes_allowed, has_watches, txid>>
fdbVars == <<dirty, watched, cancelled, applied, unknown>>
futVars == <<fut, kind, tied, born>>
vars    == <<pc, depth, txVars, fdbVars, futVars>>

Pcs   == {"idle", "user", "inspect", "commit", "on_error", "flush", "returned",
          "raised"}
Kinds == {"read", "watch", "versionstamp", "commit"}

\* txid is one above the limit when every id has been given out.
TypeOK ==
    /\ pc \in Pcs
    /\ depth \in 0..MaxDepth
    /\ read_only \in BOOLEAN /\ writes_allowed \in BOOLEAN
    /\ has_watches \in BOOLEAN /\ txid \in 0..(TxIdLimit + 1)
    /\ dirty \in BOOLEAN /\ watched \in BOOLEAN /\ cancelled \in BOOLEAN
    /\ applied \in 0..(MaxDepth + 1) /\ unknown \in BOOLEAN
    /\ fut \in [Futures -> {"unused", "pending", "sent"}]
    /\ kind \in [Futures -> Kinds]
    /\ tied \in [Futures -> BOOLEAN]
    /\ born \in [Futures -> 0..MaxDepth]

Init ==
    /\ pc = "idle" /\ depth = 0
    /\ read_only = TRUE /\ writes_allowed = TRUE /\ has_watches = FALSE
    /\ txid = 0
    /\ dirty = FALSE /\ watched = FALSE /\ cancelled = FALSE
    /\ applied = 0 /\ unknown = FALSE
    /\ fut = [f \in Futures |-> "unused"]
    /\ kind = [f \in Futures |-> "read"]
    /\ tied = [f \in Futures |-> TRUE]
    /\ born = [f \in Futures |-> 0]

\* erlfdb_create_future, with the transaction's reference or without.
CreateFuture(f, k, t) ==
    /\ fut[f] = "unused"
    /\ fut' = [fut EXCEPT ![f] = "pending"]
    /\ kind' = [kind EXCEPT ![f] = k]
    /\ tied' = [tied EXCEPT ![f] = t]
    /\ born' = [born EXCEPT ![f] = depth]

\* wait/2 returned: the message was received, flushed or silenced.
Waited(f) ==
    /\ fut' = [fut EXCEPT ![f] = "unused"]
    /\ UNCHANGED <<kind, tied, born>>

\* wait/2 raised: the message was received, or, when the future was ready
\* before the receive, it is left in the mailbox or still to be sent.
WaitRaised(f) ==
    /\ fut' \in {fut, [fut EXCEPT ![f] = "unused"]}
    /\ UNCHANGED <<kind, tied, born>>

\* One future is left free for commit.
Room(f) == fut[f] = "unused" /\ \E g \in Futures \ {f} : fut[g] = "unused"

-----------------------------------------------------------------------------
(* transactional/2 *)

\* transactional(Db, UserFun) creates the transaction and enters
\* do_transaction with Depth 0.
transactional ==
    /\ pc = "idle"
    /\ read_only' = TRUE /\ writes_allowed' = TRUE
    /\ has_watches' = FALSE /\ txid' = 0
    /\ pc' = "user" /\ depth' = 0
    /\ UNCHANGED <<fdbVars, futVars>>

-----------------------------------------------------------------------------
(* The NIFs that the user's function calls *)

\* A read creates a future tied to the transaction.
Read(f) ==
    /\ pc = "user" /\ Room(f)
    /\ CreateFuture(f, "read", TRUE)
    /\ UNCHANGED <<pc, depth, txVars, fdbVars>>

transaction_get(f) == Read(f)
transaction_get_range(f) == Read(f)
transaction_get_mapped_range(f) == Read(f)
transaction_get_key(f) == Read(f)
transaction_get_read_version(f) == Read(f)
transaction_get_estimated_range_size(f) == Read(f)
transaction_get_range_split_points(f) == Read(f)
transaction_get_addresses_for_key(f) == Read(f)
transaction_get_approximate_size(f) == Read(f)

\* The versionstamp is known after the commit, so its future is not tied.
transaction_get_versionstamp(f) ==
    /\ pc = "user" /\ Room(f)
    /\ CreateFuture(f, "versionstamp", FALSE)
    /\ UNCHANGED <<pc, depth, txVars, fdbVars>>

\* Mutant: the watch's message carries the transaction's reference.
transaction_watch_tied(f) ==
    /\ pc = "user" /\ Room(f) /\ writes_allowed
    /\ watched' = TRUE
    /\ has_watches' = TRUE
    /\ CreateFuture(f, "watch", TRUE)
    /\ UNCHANGED <<pc, depth, read_only, writes_allowed, txid, dirty, cancelled,
                   applied, unknown>>

\* Neither is a watch's, which fires after a commit; writes_allowed is tested.
transaction_watch(f) ==
    /\ pc = "user" /\ Room(f) /\ writes_allowed
    /\ watched' = TRUE
    /\ has_watches' = TRUE
    /\ CreateFuture(f, "watch", FALSE)
    /\ UNCHANGED <<pc, depth, read_only, writes_allowed, txid, dirty, cancelled,
                   applied, unknown>>

\* A write: writes_allowed is tested, the library called, read_only cleared.
Write ==
    /\ pc = "user" /\ writes_allowed
    /\ dirty' = TRUE
    /\ read_only' = FALSE
    /\ UNCHANGED <<pc, depth, writes_allowed, has_watches, txid, watched,
                   cancelled, applied, unknown, futVars>>

transaction_set == Write
transaction_clear == Write
transaction_clear_range == Write
transaction_atomic_op == Write

\* A write conflict range is committed too; a read conflict range is not.
transaction_add_conflict_range == Write

\* A write or a watch that is not allowed raises writes_not_allowed, which
\* do_transaction does not catch.
writes_not_allowed ==
    /\ pc = "user" /\ ~writes_allowed
    /\ pc' = "raised"
    /\ UNCHANGED <<depth, txVars, fdbVars, futVars>>

transaction_allow_writes ==
    /\ pc = "user"
    /\ writes_allowed' = TRUE
    /\ UNCHANGED <<pc, depth, read_only, has_watches, txid, fdbVars, futVars>>

\* Mutant: read_only is not tested.
transaction_disallow_writes_late ==
    /\ pc = "user"
    /\ writes_allowed' = FALSE
    /\ UNCHANGED <<pc, depth, read_only, has_watches, txid, fdbVars, futVars>>

\* disallow_writes raises badarg once something was written.
transaction_disallow_writes ==
    /\ pc = "user"
    /\ \/ read_only /\ writes_allowed' = FALSE /\ UNCHANGED pc
       \/ ~read_only /\ pc' = "raised" /\ UNCHANGED writes_allowed
    /\ UNCHANGED <<depth, read_only, has_watches, txid, fdbVars, futVars>>

\* reset leaves writes_allowed as it is; the library's transaction can be used
\* again.
transaction_reset ==
    /\ pc = "user"
    /\ dirty' = FALSE /\ watched' = FALSE /\ cancelled' = FALSE
    /\ txid' = 0 /\ read_only' = TRUE /\ has_watches' = FALSE
    /\ UNCHANGED <<pc, depth, writes_allowed, applied, unknown, futVars>>

\* The next transaction id, or badarg when there is none left.
transaction_get_next_tx_id ==
    /\ pc = "user"
    /\ \/ txid <= TxIdLimit /\ txid' = txid + 1 /\ UNCHANGED pc
       \/ txid > TxIdLimit /\ pc' = "raised" /\ UNCHANGED txid
    /\ UNCHANGED <<depth, read_only, writes_allowed, has_watches, fdbVars,
                   futVars>>

\* cancel: whatever uses the library's transaction from now on fails.  The
\* resource keeps its fields.
transaction_cancel ==
    /\ pc = "user"
    /\ cancelled' = TRUE
    /\ UNCHANGED <<pc, depth, txVars, dirty, watched, applied, unknown, futVars>>

\* A call that is passed on to the library and is about none of what is
\* modelled: it returns, raises the library's error, or raises badarg.
Passed(next) ==
    /\ pc = "user" /\ pc' \in next
    /\ UNCHANGED <<depth, txVars, fdbVars, futVars>>

\* The options of the library, other than allow_writes and disallow_writes.
transaction_set_option == Passed({"user", "on_error", "raised"})
transaction_set_read_version == Passed({"user", "raised"})
transaction_get_committed_version == Passed({"user", "on_error"})

\* What the resource's fields say.
transaction_is_read_only == read_only
transaction_has_watches == has_watches

-----------------------------------------------------------------------------
(* What else the user's function does *)

\* It waits for a read of this attempt, which returns ...
user_wait(f) ==
    /\ pc = "user" /\ kind[f] = "read" /\ born[f] = depth /\ fut[f] # "unused"
    /\ Waited(f)
    /\ UNCHANGED <<pc, depth, txVars, fdbVars>>

\* ... or raises the error of the future.
user_wait_error(f) ==
    /\ pc = "user" /\ kind[f] = "read" /\ born[f] = depth /\ fut[f] # "unused"
    /\ WaitRaised(f)
    /\ pc' = "on_error"
    /\ UNCHANGED <<depth, txVars, fdbVars>>

\* A NIF raises an {erlfdb_error, Code}.
user_error ==
    /\ pc = "user"
    /\ pc' = "on_error"
    /\ UNCHANGED <<depth, txVars, fdbVars, futVars>>

\* It raises something else, which do_transaction does not catch.
user_raise ==
    /\ pc = "user"
    /\ pc' = "raised"
    /\ UNCHANGED <<depth, txVars, fdbVars, futVars>>

user_return ==
    /\ pc = "user"
    /\ pc' = "inspect"
    /\ UNCHANGED <<depth, txVars, fdbVars, futVars>>

-----------------------------------------------------------------------------
(* do_transaction *)

\* An attempt succeeded: all the frames return, and the one of Depth 0, if
\* there was a retry, flushes.
Finished == pc' = IF depth = 0 THEN "returned" ELSE "flush"

\* Mutant: watches are not taken for something to commit.
inspect_read_only_unwatched ==
    /\ pc = "inspect" /\ read_only
    /\ Finished
    /\ UNCHANGED <<depth, txVars, fdbVars, futVars>>

\* is_read_only(Tx) andalso not has_watches(Tx): nothing to commit.
inspect_read_only ==
    /\ pc = "inspect" /\ transaction_is_read_only /\ ~transaction_has_watches
    /\ Finished
    /\ UNCHANGED <<depth, txVars, fdbVars, futVars>>

\* commit(Tx) and the wait for it.
transaction_commit(f) ==
    /\ pc = "inspect" /\ ~(transaction_is_read_only /\ ~transaction_has_watches)
    /\ CreateFuture(f, "commit", TRUE)
    /\ pc' = "commit"
    /\ UNCHANGED <<depth, txVars, fdbVars>>

CommitFuture(f) == kind[f] = "commit" /\ born[f] = depth /\ fut[f] # "unused"

\* Mutant: the wait for the commit gives up, and the function is retried.
commit_ok_given_up(f) ==
    /\ pc = "commit" /\ CommitFuture(f) /\ ~cancelled
    /\ applied' = IF dirty THEN applied + 1 ELSE applied
    /\ WaitRaised(f)
    /\ pc' = "on_error"
    /\ UNCHANGED <<depth, txVars, dirty, watched, cancelled, unknown>>

commit_ok(f) ==
    /\ pc = "commit" /\ CommitFuture(f) /\ ~cancelled
    /\ applied' = IF dirty THEN applied + 1 ELSE applied
    /\ dirty' = FALSE /\ watched' = FALSE
    /\ Waited(f)
    /\ Finished
    /\ UNCHANGED <<depth, txVars, cancelled, unknown>>

\* The commit failed, and nothing was applied ...
commit_failed(f) ==
    /\ pc = "commit" /\ CommitFuture(f)
    /\ WaitRaised(f)
    /\ pc' = "on_error"
    /\ UNCHANGED <<depth, txVars, fdbVars>>

\* ... or it is not known whether it was.
commit_unknown_result(f) ==
    /\ pc = "commit" /\ CommitFuture(f) /\ ~cancelled
    /\ applied' \in {applied, IF dirty THEN applied + 1 ELSE applied}
    /\ unknown' = TRUE
    /\ WaitRaised(f)
    /\ pc' = "on_error"
    /\ UNCHANGED <<depth, txVars, dirty, watched, cancelled>>

\* catch error:{erlfdb_error, Code}: on_error(Tx, Code), and the wait for its
\* future.  The error can be retried: the library has reset its transaction,
\* and called back every outstanding future of it before this one, whose own
\* message is gone when the wait returns.  The resource keeps its fields.
transaction_on_error ==
    /\ pc = "on_error" /\ depth < MaxDepth /\ ~cancelled
    /\ dirty' = FALSE /\ watched' = FALSE
    /\ fut' = [f \in Futures |->
                 IF tied[f] /\ fut[f] = "pending" THEN "sent" ELSE fut[f]]
    /\ depth' = depth + 1
    /\ pc' = "user"
    /\ UNCHANGED <<txVars, cancelled, applied, unknown, kind, tied, born>>

\* It cannot: the wait raises the error again, out of every frame.
on_error_raise ==
    /\ pc = "on_error"
    /\ pc' = "raised"
    /\ UNCHANGED <<depth, txVars, fdbVars, futVars>>

\* flush_transaction_ready_messages: every message with the transaction's
\* reference that is in the mailbox.
flush_message(f) ==
    /\ pc = "flush" /\ tied[f] /\ fut[f] = "sent"
    /\ fut' = [fut EXCEPT ![f] = "unused"]
    /\ UNCHANGED <<pc, depth, txVars, fdbVars, kind, tied, born>>

\* Mutant: the flush stops while there are messages.
flush_done_early ==
    /\ pc = "flush"
    /\ pc' = "returned"
    /\ UNCHANGED <<depth, txVars, fdbVars, futVars>>

flush_done ==
    /\ pc = "flush" /\ ~\E f \in Futures : tied[f] /\ fut[f] = "sent"
    /\ pc' = "returned"
    /\ UNCHANGED <<depth, txVars, fdbVars, futVars>>

-----------------------------------------------------------------------------

\* The callback of a future sends its message (external).
future_ready(f) ==
    /\ fut[f] = "pending"
    /\ fut' = [fut EXCEPT ![f] = "sent"]
    /\ UNCHANGED <<pc, depth, txVars, fdbVars, kind, tied, born>>

Reads(f) ==
    \/ transaction_get(f)
    \/ transaction_get_range(f)
    \/ transaction_get_mapped_range(f)
    \/ transaction_get_key(f)
    \/ transaction_get_read_version(f)
    \/ transaction_get_estimated_range_size(f)
    \/ transaction_get_range_split_points(f)
    \/ transaction_get_addresses_for_key(f)
    \/ transaction_get_approximate_size(f)

Writes ==
    \/ transaction_set
    \/ transaction_clear
    \/ transaction_clear_range
    \/ transaction_atomic_op
    \/ transaction_add_conflict_range

Settings ==
    \/ writes_not_allowed
    \/ transaction_allow_writes
    \/ transaction_disallow_writes
    \/ transaction_reset
    \/ transaction_get_next_tx_id
    \/ transaction_cancel
    \/ transaction_set_option
    \/ transaction_set_read_version
    \/ transaction_get_committed_version

User ==
    \/ Writes
    \/ Settings
    \/ user_error
    \/ user_raise
    \/ user_return
    \/ \E f \in Futures :
          \/ Reads(f)
          \/ transaction_get_versionstamp(f)
          \/ transaction_watch(f)
          \/ user_wait(f)
          \/ user_wait_error(f)

DoTransaction ==
    \/ inspect_read_only
    \/ transaction_on_error
    \/ on_error_raise
    \/ flush_done
    \/ \E f \in Futures :
          \/ transaction_commit(f)
          \/ commit_ok(f)
          \/ commit_failed(f)
          \/ commit_unknown_result(f)
          \/ flush_message(f)

Next ==
    \/ transactional
    \/ User
    \/ DoTransaction
    \/ \E f \in Futures : future_ready(f)

Spec == Init /\ [][Next]_vars

-----------------------------------------------------------------------------
(* Properties *)

\* Work that the library's transaction has to commit is never forgotten by the
\* flags that do_transaction inspects: neither a retry, which resets the one
\* and not the others, nor reset/1 in the user's function loses any.
FlagsCoverWork ==
    /\ dirty => ~read_only
    /\ watched => has_watches

\* When transactional/2 returns the function's result, what the last attempt
\* wrote or watched has been committed: it does not return for a function that
\* wrote and then cancelled its transaction.
CommittedOnReturn == pc \in {"flush", "returned"} => ~dirty /\ ~watched

\* While writes are disallowed the transaction has none to commit, also after
\* a retry or a reset.
DisallowedMeansNone == ~writes_allowed => ~dirty

\* A call applies its writes a second time only if a commit's result was
\* unknown.
AppliedOnceIfKnown == applied > 1 => unknown

\* After a retry transactional/2 returns with no ready message of an earlier
\* attempt in the mailbox, and with none to come, although wait/2 leaves the
\* message of a future that raised.
FlushedAfterRetry ==
    pc = "returned" /\ depth > 0 =>
        \A f \in Futures :
            tied[f] /\ born[f] < depth => fut[f] = "unused"

\* The flush never takes the message of a watch or of a versionstamp, which
\* the caller is still to receive (CHANGELOG.md, v0.2.3).
FlushKeepsUntied ==
    [][\A f \in Futures :
          pc = "flush" /\ kind[f] \in {"watch", "versionstamp"}
              /\ fut[f] = "sent" => fut'[f] = "sent"]_vars

-----------------------------------------------------------------------------
(* The inductive invariant *)

\* Writes are applied by a commit that ends the call, or by one whose result is
\* unknown; each attempt applies them once at most.
AppliedInv ==
    /\ applied > 0 => unknown \/ pc \in {"flush", "returned"}
    /\ applied <= depth + 1
    /\ pc \in {"user", "inspect", "commit"} => applied <= depth

\* Before the call nothing has been done.
IdleInv ==
    pc = "idle" =>
        /\ ~dirty /\ ~watched /\ applied = 0
        /\ \A f \in Futures : fut[f] = "unused"

\* A future of an earlier attempt has been called back if it is tied to the
\* transaction; those of watches and versionstamps are not.
FutureInv ==
    \A f \in Futures :
        /\ tied[f] /\ born[f] < depth => fut[f] # "pending"
        /\ kind[f] \in {"watch", "versionstamp"} => ~tied[f]

IInv ==
    /\ TypeOK
    /\ FlagsCoverWork
    /\ CommittedOnReturn
    /\ DisallowedMeansNone
    /\ AppliedOnceIfKnown
    /\ AppliedInv
    /\ IdleInv
    /\ FutureInv
    /\ FlushedAfterRetry

=============================================================================
