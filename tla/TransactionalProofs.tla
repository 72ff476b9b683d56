------------------------- MODULE TransactionalProofs -------------------------
(***************************************************************************)
(* Every step of Transactional preserves IInv, for any set of futures, any *)
(* bound on the retries and any limit of the transaction ids; the safety   *)
(* properties follow.                                                      *)
(***************************************************************************)
EXTENDS Transactional, TLAPS

USE TransactionalAssumption
USE DEF Pcs, Kinds

-----------------------------------------------------------------------------
(* One lemma per action *)

\* The call begins with nothing done: IdleInv.
LEMMA Step_transactional ==
  ASSUME IInv, transactional
  PROVE  IInv'
<1> USE DEF transactional
<1> USE DEF IInv, TypeOK, txVars, fdbVars, futVars
<1>1. TypeOK'
  <2>1. depth' \in 0..MaxDepth /\ txid' \in 0..(TxIdLimit + 1)
    BY DEF AppliedInv, IdleInv
  <2> QED
    BY <2>1
<1>2. FlagsCoverWork' /\ CommittedOnReturn' /\ DisallowedMeansNone'
  BY DEF FlagsCoverWork, CommittedOnReturn, DisallowedMeansNone, IdleInv
<1>3. AppliedOnceIfKnown' /\ AppliedInv' /\ IdleInv'
  BY DEF AppliedOnceIfKnown, AppliedInv, IdleInv
<1>4. FutureInv' /\ FlushedAfterRetry'
  BY DEF FutureInv, FlushedAfterRetry, IdleInv
<1> QED
  BY <1>1, <1>2, <1>3, <1>4

\* A read's future belongs to this attempt.
LEMMA Step_Read ==
  ASSUME IInv, NEW f \in Futures, Read(f)
  PROVE  IInv'
<1> USE DEF Read, CreateFuture, Room
<1> USE DEF IInv, TypeOK, txVars, fdbVars, futVars
<1>1. TypeOK'
  BY DEF AppliedInv, IdleInv
<1>2. FlagsCoverWork' /\ CommittedOnReturn' /\ DisallowedMeansNone'
  BY DEF FlagsCoverWork, CommittedOnReturn, DisallowedMeansNone, IdleInv
<1>3. AppliedOnceIfKnown' /\ AppliedInv' /\ IdleInv'
  BY DEF AppliedOnceIfKnown, AppliedInv, IdleInv
<1>4. FutureInv' /\ FlushedAfterRetry'
  BY DEF FutureInv, FlushedAfterRetry, IdleInv
<1> QED
  BY <1>1, <1>2, <1>3, <1>4

\* A versionstamp's future is not tied.
LEMMA Step_transaction_get_versionstamp ==
  ASSUME IInv, NEW f \in Futures, transaction_get_versionstamp(f)
  PROVE  IInv'
<1> USE DEF transaction_get_versionstamp, CreateFuture, Room
<1> USE DEF IInv, TypeOK, txVars, fdbVars, futVars
<1>1. TypeOK'
  BY DEF AppliedInv, IdleInv
<1>2. FlagsCoverWork' /\ CommittedOnReturn' /\ DisallowedMeansNone'
  BY DEF FlagsCoverWork, CommittedOnReturn, DisallowedMeansNone, IdleInv
<1>3. AppliedOnceIfKnown' /\ AppliedInv' /\ IdleInv'
  BY DEF AppliedOnceIfKnown, AppliedInv, IdleInv
<1>4. FutureInv' /\ FlushedAfterRetry'
  BY DEF FutureInv, FlushedAfterRetry, IdleInv
<1> QED
  BY <1>1, <1>2, <1>3, <1>4

\* A watch sets has_watches; its future is not tied.
LEMMA Step_transaction_watch ==
  ASSUME IInv, NEW f \in Futures, transaction_watch(f)
  PROVE  IInv'
<1> USE DEF transaction_watch, CreateFuture, Room
<1> USE DEF IInv, TypeOK, txVars, fdbVars, futVars
<1>1. TypeOK'
  BY DEF AppliedInv, IdleInv
<1>2. FlagsCoverWork' /\ CommittedOnReturn' /\ DisallowedMeansNone'
  BY DEF FlagsCoverWork, CommittedOnReturn, DisallowedMeansNone, IdleInv
<1>3. AppliedOnceIfKnown' /\ AppliedInv' /\ IdleInv'
  BY DEF AppliedOnceIfKnown, AppliedInv, IdleInv
<1>4. FutureInv' /\ FlushedAfterRetry'
  BY DEF FutureInv, FlushedAfterRetry, IdleInv
<1> QED
  BY <1>1, <1>2, <1>3, <1>4

\* A write is allowed, and clears read_only.
LEMMA Step_Write ==
  ASSUME IInv, Write
  PROVE  IInv'
<1> USE DEF Write
<1> USE DEF IInv, TypeOK, txVars, fdbVars, futVars
<1>1. TypeOK'
  BY DEF AppliedInv, IdleInv
<1>2. FlagsCoverWork' /\ CommittedOnReturn' /\ DisallowedMeansNone'
  BY DEF FlagsCoverWork, CommittedOnReturn, DisallowedMeansNone, IdleInv
<1>3. AppliedOnceIfKnown' /\ AppliedInv' /\ IdleInv'
  BY DEF AppliedOnceIfKnown, AppliedInv, IdleInv
<1>4. FutureInv' /\ FlushedAfterRetry'
  BY DEF FutureInv, FlushedAfterRetry, IdleInv
<1> QED
  BY <1>1, <1>2, <1>3, <1>4

\* The call ends.
LEMMA Step_writes_not_allowed ==
  ASSUME IInv, writes_not_allowed
  PROVE  IInv'
<1> USE DEF writes_not_allowed
<1> USE DEF IInv, TypeOK, txVars, fdbVars, futVars
<1>1. TypeOK'
  BY DEF AppliedInv, IdleInv
<1>2. FlagsCoverWork' /\ CommittedOnReturn' /\ DisallowedMeansNone'
  BY DEF FlagsCoverWork, CommittedOnReturn, DisallowedMeansNone, IdleInv
<1>3. AppliedOnceIfKnown' /\ AppliedInv' /\ IdleInv'
  BY DEF AppliedOnceIfKnown, AppliedInv, IdleInv
<1>4. FutureInv' /\ FlushedAfterRetry'
  BY DEF FutureInv, FlushedAfterRetry, IdleInv
<1> QED
  BY <1>1, <1>2, <1>3, <1>4

\* Only writes_allowed changes.
LEMMA Step_transaction_allow_writes ==
  ASSUME IInv, transaction_allow_writes
  PROVE  IInv'
<1> USE DEF transaction_allow_writes
<1> USE DEF IInv, TypeOK, txVars, fdbVars, futVars
<1>1. TypeOK'
  BY DEF AppliedInv, IdleInv
<1>2. FlagsCoverWork' /\ CommittedOnReturn' /\ DisallowedMeansNone'
  BY DEF FlagsCoverWork, CommittedOnReturn, DisallowedMeansNone, IdleInv
<1>3. AppliedOnceIfKnown' /\ AppliedInv' /\ IdleInv'
  BY DEF AppliedOnceIfKnown, AppliedInv, IdleInv
<1>4. FutureInv' /\ FlushedAfterRetry'
  BY DEF FutureInv, FlushedAfterRetry, IdleInv
<1> QED
  BY <1>1, <1>2, <1>3, <1>4

\* A read-only transaction has nothing to commit: FlagsCoverWork.
LEMMA Step_transaction_disallow_writes ==
  ASSUME IInv, transaction_disallow_writes
  PROVE  IInv'
<1> USE DEF transaction_disallow_writes
<1> USE DEF IInv, TypeOK, txVars, fdbVars, futVars
<1>1. TypeOK'
  BY DEF AppliedInv, IdleInv
<1>2. FlagsCoverWork' /\ CommittedOnReturn' /\ DisallowedMeansNone'
  BY DEF FlagsCoverWork, CommittedOnReturn, DisallowedMeansNone, IdleInv
<1>3. AppliedOnceIfKnown' /\ AppliedInv' /\ IdleInv'
  BY DEF AppliedOnceIfKnown, AppliedInv, IdleInv
<1>4. FutureInv' /\ FlushedAfterRetry'
  BY DEF FutureInv, FlushedAfterRetry, IdleInv
<1> QED
  BY <1>1, <1>2, <1>3, <1>4

\* The flags are reset together with what they cover.
LEMMA Step_transaction_reset ==
  ASSUME IInv, transaction_reset
  PROVE  IInv'
<1> USE DEF transaction_reset
<1> USE DEF IInv, TypeOK, txVars, fdbVars, futVars
<1>1. TypeOK'
  <2>1. txid' \in 0..(TxIdLimit + 1)
    BY DEF AppliedInv, IdleInv
  <2> QED
    BY <2>1
<1>2. FlagsCoverWork' /\ CommittedOnReturn' /\ DisallowedMeansNone'
  BY DEF FlagsCoverWork, CommittedOnReturn, DisallowedMeansNone, IdleInv
<1>3. AppliedOnceIfKnown' /\ AppliedInv' /\ IdleInv'
  BY DEF AppliedOnceIfKnown, AppliedInv, IdleInv
<1>4. FutureInv' /\ FlushedAfterRetry'
  BY DEF FutureInv, FlushedAfterRetry, IdleInv
<1> QED
  BY <1>1, <1>2, <1>3, <1>4

\* The counter stops one above the limit.
LEMMA Step_transaction_get_next_tx_id ==
  ASSUME IInv, transaction_get_next_tx_id
  PROVE  IInv'
<1> USE DEF transaction_get_next_tx_id
<1> USE DEF IInv, TypeOK, txVars, fdbVars, futVars
<1>1. TypeOK'
  <2>1. txid' \in 0..(TxIdLimit + 1)
    BY DEF AppliedInv, IdleInv
  <2> QED
    BY <2>1
<1>2. FlagsCoverWork' /\ CommittedOnReturn' /\ DisallowedMeansNone'
  BY DEF FlagsCoverWork, CommittedOnReturn, DisallowedMeansNone, IdleInv
<1>3. AppliedOnceIfKnown' /\ AppliedInv' /\ IdleInv'
  BY DEF AppliedOnceIfKnown, AppliedInv, IdleInv
<1>4. FutureInv' /\ FlushedAfterRetry'
  BY DEF FutureInv, FlushedAfterRetry, IdleInv
<1> QED
  BY <1>1, <1>2, <1>3, <1>4

\* Only the library's transaction changes.
LEMMA Step_transaction_cancel ==
  ASSUME IInv, transaction_cancel
  PROVE  IInv'
<1> USE DEF transaction_cancel
<1> USE DEF IInv, TypeOK, txVars, fdbVars, futVars
<1>1. TypeOK'
  BY DEF AppliedInv, IdleInv
<1>2. FlagsCoverWork' /\ CommittedOnReturn' /\ DisallowedMeansNone'
  BY DEF FlagsCoverWork, CommittedOnReturn, DisallowedMeansNone, IdleInv
<1>3. AppliedOnceIfKnown' /\ AppliedInv' /\ IdleInv'
  BY DEF AppliedOnceIfKnown, AppliedInv, IdleInv
<1>4. FutureInv' /\ FlushedAfterRetry'
  BY DEF FutureInv, FlushedAfterRetry, IdleInv
<1> QED
  BY <1>1, <1>2, <1>3, <1>4

\* The call goes on or ends.
LEMMA Step_Passed ==
  ASSUME IInv, Passed({"user", "on_error", "raised"})
  PROVE  IInv'
<1> USE DEF Passed
<1> USE DEF IInv, TypeOK, txVars, fdbVars, futVars
<1>1. TypeOK'
  BY DEF AppliedInv, IdleInv
<1>2. FlagsCoverWork' /\ CommittedOnReturn' /\ DisallowedMeansNone'
  BY DEF FlagsCoverWork, CommittedOnReturn, DisallowedMeansNone, IdleInv
<1>3. AppliedOnceIfKnown' /\ AppliedInv' /\ IdleInv'
  BY DEF AppliedOnceIfKnown, AppliedInv, IdleInv
<1>4. FutureInv' /\ FlushedAfterRetry'
  BY DEF FutureInv, FlushedAfterRetry, IdleInv
<1> QED
  BY <1>1, <1>2, <1>3, <1>4

\* A future is used up.
LEMMA Step_user_wait ==
  ASSUME IInv, NEW f \in Futures, user_wait(f)
  PROVE  IInv'
<1> USE DEF user_wait, Waited
<1> USE DEF IInv, TypeOK, txVars, fdbVars, futVars
<1>1. TypeOK'
  BY DEF AppliedInv, IdleInv
<1>2. FlagsCoverWork' /\ CommittedOnReturn' /\ DisallowedMeansNone'
  BY DEF FlagsCoverWork, CommittedOnReturn, DisallowedMeansNone, IdleInv
<1>3. AppliedOnceIfKnown' /\ AppliedInv' /\ IdleInv'
  BY DEF AppliedOnceIfKnown, AppliedInv, IdleInv
<1>4. FutureInv' /\ FlushedAfterRetry'
  BY DEF FutureInv, FlushedAfterRetry, IdleInv
<1> QED
  BY <1>1, <1>2, <1>3, <1>4

\* A future is used up or left as it is.
LEMMA Step_user_wait_error ==
  ASSUME IInv, NEW f \in Futures, user_wait_error(f)
  PROVE  IInv'
<1> USE DEF user_wait_error, WaitRaised
<1> USE DEF IInv, TypeOK, txVars, fdbVars, futVars
<1>1. TypeOK'
  BY DEF AppliedInv, IdleInv
<1>2. FlagsCoverWork' /\ CommittedOnReturn' /\ DisallowedMeansNone'
  BY DEF FlagsCoverWork, CommittedOnReturn, DisallowedMeansNone, IdleInv
<1>3. AppliedOnceIfKnown' /\ AppliedInv' /\ IdleInv'
  BY DEF AppliedOnceIfKnown, AppliedInv, IdleInv
<1>4. FutureInv' /\ FlushedAfterRetry'
  BY DEF FutureInv, FlushedAfterRetry, IdleInv
<1> QED
  BY <1>1, <1>2, <1>3, <1>4

\* Only pc changes.
LEMMA Step_user_error ==
  ASSUME IInv, user_error
  PROVE  IInv'
<1> USE DEF user_error
<1> USE DEF IInv, TypeOK, txVars, fdbVars, futVars
<1>1. TypeOK'
  BY DEF AppliedInv, IdleInv
<1>2. FlagsCoverWork' /\ CommittedOnReturn' /\ DisallowedMeansNone'
  BY DEF FlagsCoverWork, CommittedOnReturn, DisallowedMeansNone, IdleInv
<1>3. AppliedOnceIfKnown' /\ AppliedInv' /\ IdleInv'
  BY DEF AppliedOnceIfKnown, AppliedInv, IdleInv
<1>4. FutureInv' /\ FlushedAfterRetry'
  BY DEF FutureInv, FlushedAfterRetry, IdleInv
<1> QED
  BY <1>1, <1>2, <1>3, <1>4

\* The call ends.
LEMMA Step_user_raise ==
  ASSUME IInv, user_raise
  PROVE  IInv'
<1> USE DEF user_raise
<1> USE DEF IInv, TypeOK, txVars, fdbVars, futVars
<1>1. TypeOK'
  BY DEF AppliedInv, IdleInv
<1>2. FlagsCoverWork' /\ CommittedOnReturn' /\ DisallowedMeansNone'
  BY DEF FlagsCoverWork, CommittedOnReturn, DisallowedMeansNone, IdleInv
<1>3. AppliedOnceIfKnown' /\ AppliedInv' /\ IdleInv'
  BY DEF AppliedOnceIfKnown, AppliedInv, IdleInv
<1>4. FutureInv' /\ FlushedAfterRetry'
  BY DEF FutureInv, FlushedAfterRetry, IdleInv
<1> QED
  BY <1>1, <1>2, <1>3, <1>4

\* Only pc changes.
LEMMA Step_user_return ==
  ASSUME IInv, user_return
  PROVE  IInv'
<1> USE DEF user_return
<1> USE DEF IInv, TypeOK, txVars, fdbVars, futVars
<1>1. TypeOK'
  BY DEF AppliedInv, IdleInv
<1>2. FlagsCoverWork' /\ CommittedOnReturn' /\ DisallowedMeansNone'
  BY DEF FlagsCoverWork, CommittedOnReturn, DisallowedMeansNone, IdleInv
<1>3. AppliedOnceIfKnown' /\ AppliedInv' /\ IdleInv'
  BY DEF AppliedOnceIfKnown, AppliedInv, IdleInv
<1>4. FutureInv' /\ FlushedAfterRetry'
  BY DEF FutureInv, FlushedAfterRetry, IdleInv
<1> QED
  BY <1>1, <1>2, <1>3, <1>4

\* Flags that say there is nothing to commit are right: FlagsCoverWork.
LEMMA Step_inspect_read_only ==
  ASSUME IInv, inspect_read_only
  PROVE  IInv'
<1> USE DEF inspect_read_only, Finished, transaction_is_read_only,
            transaction_has_watches
<1> USE DEF IInv, TypeOK, txVars, fdbVars, futVars
<1>1. TypeOK'
  BY DEF AppliedInv, IdleInv
<1>2. FlagsCoverWork' /\ CommittedOnReturn' /\ DisallowedMeansNone'
  BY DEF FlagsCoverWork, CommittedOnReturn, DisallowedMeansNone, IdleInv
<1>3. AppliedOnceIfKnown' /\ AppliedInv' /\ IdleInv'
  BY DEF AppliedOnceIfKnown, AppliedInv, IdleInv
<1>4. FutureInv' /\ FlushedAfterRetry'
  BY DEF FutureInv, FlushedAfterRetry, IdleInv
<1> QED
  BY <1>1, <1>2, <1>3, <1>4

\* The commit's future belongs to this attempt.
LEMMA Step_transaction_commit ==
  ASSUME IInv, NEW f \in Futures, transaction_commit(f)
  PROVE  IInv'
<1> USE DEF transaction_commit, CreateFuture
<1> USE DEF IInv, TypeOK, txVars, fdbVars, futVars
<1>1. TypeOK'
  BY DEF AppliedInv, IdleInv
<1>2. FlagsCoverWork' /\ CommittedOnReturn' /\ DisallowedMeansNone'
  BY DEF FlagsCoverWork, CommittedOnReturn, DisallowedMeansNone, IdleInv
<1>3. AppliedOnceIfKnown' /\ AppliedInv' /\ IdleInv'
  BY DEF AppliedOnceIfKnown, AppliedInv, IdleInv
<1>4. FutureInv' /\ FlushedAfterRetry'
  BY DEF FutureInv, FlushedAfterRetry, IdleInv
<1> QED
  BY <1>1, <1>2, <1>3, <1>4

\* A commit applies the writes, once in this attempt.
LEMMA Step_commit_ok ==
  ASSUME IInv, NEW f \in Futures, commit_ok(f)
  PROVE  IInv'
<1> USE DEF commit_ok, CommitFuture, Waited, Finished
<1> USE DEF IInv, TypeOK, txVars, fdbVars, futVars
<1>1. TypeOK'
  <2>1. applied' \in 0..(MaxDepth + 1)
    BY DEF AppliedInv, IdleInv
  <2> QED
    BY <2>1
<1>2. FlagsCoverWork' /\ CommittedOnReturn' /\ DisallowedMeansNone'
  BY DEF FlagsCoverWork, CommittedOnReturn, DisallowedMeansNone, IdleInv
<1>3. AppliedOnceIfKnown' /\ AppliedInv' /\ IdleInv'
  BY DEF AppliedOnceIfKnown, AppliedInv, IdleInv
<1>4. FutureInv' /\ FlushedAfterRetry'
  BY DEF FutureInv, FlushedAfterRetry, IdleInv
<1> QED
  BY <1>1, <1>2, <1>3, <1>4

\* Nothing was applied.
LEMMA Step_commit_failed ==
  ASSUME IInv, NEW f \in Futures, commit_failed(f)
  PROVE  IInv'
<1> USE DEF commit_failed, CommitFuture, WaitRaised
<1> USE DEF IInv, TypeOK, txVars, fdbVars, futVars
<1>1. TypeOK'
  BY DEF AppliedInv, IdleInv
<1>2. FlagsCoverWork' /\ CommittedOnReturn' /\ DisallowedMeansNone'
  BY DEF FlagsCoverWork, CommittedOnReturn, DisallowedMeansNone, IdleInv
<1>3. AppliedOnceIfKnown' /\ AppliedInv' /\ IdleInv'
  BY DEF AppliedOnceIfKnown, AppliedInv, IdleInv
<1>4. FutureInv' /\ FlushedAfterRetry'
  BY DEF FutureInv, FlushedAfterRetry, IdleInv
<1> QED
  BY <1>1, <1>2, <1>3, <1>4

\* What may have been applied is unknown.
LEMMA Step_commit_unknown_result ==
  ASSUME IInv, NEW f \in Futures, commit_unknown_result(f)
  PROVE  IInv'
<1> USE DEF commit_unknown_result, CommitFuture, WaitRaised
<1> USE DEF IInv, TypeOK, txVars, fdbVars, futVars
<1>1. TypeOK'
  BY DEF AppliedInv, IdleInv
<1>2. FlagsCoverWork' /\ CommittedOnReturn' /\ DisallowedMeansNone'
  BY DEF FlagsCoverWork, CommittedOnReturn, DisallowedMeansNone, IdleInv
<1>3. AppliedOnceIfKnown' /\ AppliedInv' /\ IdleInv'
  BY DEF AppliedOnceIfKnown, AppliedInv, IdleInv
<1>4. FutureInv' /\ FlushedAfterRetry'
  BY DEF FutureInv, FlushedAfterRetry, IdleInv
<1> QED
  BY <1>1, <1>2, <1>3, <1>4

\* The next attempt begins with every tied future called back.
LEMMA Step_transaction_on_error ==
  ASSUME IInv, transaction_on_error
  PROVE  IInv'
<1> USE DEF transaction_on_error
<1> USE DEF IInv, TypeOK, txVars, fdbVars, futVars
<1>1. TypeOK'
  <2>1. depth' \in 0..MaxDepth
    BY DEF AppliedInv, IdleInv
  <2> QED
    BY <2>1
<1>2. FlagsCoverWork' /\ CommittedOnReturn' /\ DisallowedMeansNone'
  BY DEF FlagsCoverWork, CommittedOnReturn, DisallowedMeansNone, IdleInv
<1>3. AppliedOnceIfKnown' /\ AppliedInv' /\ IdleInv'
  BY DEF AppliedOnceIfKnown, AppliedInv, IdleInv
<1>4. FutureInv' /\ FlushedAfterRetry'
  BY DEF FutureInv, FlushedAfterRetry, IdleInv
<1> QED
  BY <1>1, <1>2, <1>3, <1>4

\* The call ends.
LEMMA Step_on_error_raise ==
  ASSUME IInv, on_error_raise
  PROVE  IInv'
<1> USE DEF on_error_raise
<1> USE DEF IInv, TypeOK, txVars, fdbVars, futVars
<1>1. TypeOK'
  BY DEF AppliedInv, IdleInv
<1>2. FlagsCoverWork' /\ CommittedOnReturn' /\ DisallowedMeansNone'
  BY DEF FlagsCoverWork, CommittedOnReturn, DisallowedMeansNone, IdleInv
<1>3. AppliedOnceIfKnown' /\ AppliedInv' /\ IdleInv'
  BY DEF AppliedOnceIfKnown, AppliedInv, IdleInv
<1>4. FutureInv' /\ FlushedAfterRetry'
  BY DEF FutureInv, FlushedAfterRetry, IdleInv
<1> QED
  BY <1>1, <1>2, <1>3, <1>4

\* A message is taken.
LEMMA Step_flush_message ==
  ASSUME IInv, NEW f \in Futures, flush_message(f)
  PROVE  IInv'
<1> USE DEF flush_message
<1> USE DEF IInv, TypeOK, txVars, fdbVars, futVars
<1>1. TypeOK'
  BY DEF AppliedInv, IdleInv
<1>2. FlagsCoverWork' /\ CommittedOnReturn' /\ DisallowedMeansNone'
  BY DEF FlagsCoverWork, CommittedOnReturn, DisallowedMeansNone, IdleInv
<1>3. AppliedOnceIfKnown' /\ AppliedInv' /\ IdleInv'
  BY DEF AppliedOnceIfKnown, AppliedInv, IdleInv
<1>4. FutureInv' /\ FlushedAfterRetry'
  BY DEF FutureInv, FlushedAfterRetry, IdleInv
<1> QED
  BY <1>1, <1>2, <1>3, <1>4

\* No tied message is left, and none is pending: FutureInv.
LEMMA Step_flush_done ==
  ASSUME IInv, flush_done
  PROVE  IInv'
<1> USE DEF flush_done
<1> USE DEF IInv, TypeOK, txVars, fdbVars, futVars
<1>1. TypeOK'
  BY DEF AppliedInv, IdleInv
<1>2. FlagsCoverWork' /\ CommittedOnReturn' /\ DisallowedMeansNone'
  BY DEF FlagsCoverWork, CommittedOnReturn, DisallowedMeansNone, IdleInv
<1>3. AppliedOnceIfKnown' /\ AppliedInv' /\ IdleInv'
  BY DEF AppliedOnceIfKnown, AppliedInv, IdleInv
<1>4. FutureInv' /\ FlushedAfterRetry'
  BY DEF FutureInv, FlushedAfterRetry, IdleInv
<1> QED
  BY <1>1, <1>2, <1>3, <1>4

\* A pending future sends.
LEMMA Step_future_ready ==
  ASSUME IInv, NEW f \in Futures, future_ready(f)
  PROVE  IInv'
<1> USE DEF future_ready
<1> USE DEF IInv, TypeOK, txVars, fdbVars, futVars
<1>1. TypeOK'
  BY DEF AppliedInv, IdleInv
<1>2. FlagsCoverWork' /\ CommittedOnReturn' /\ DisallowedMeansNone'
  BY DEF FlagsCoverWork, CommittedOnReturn, DisallowedMeansNone, IdleInv
<1>3. AppliedOnceIfKnown' /\ AppliedInv' /\ IdleInv'
  BY DEF AppliedOnceIfKnown, AppliedInv, IdleInv
<1>4. FutureInv' /\ FlushedAfterRetry'
  BY DEF FutureInv, FlushedAfterRetry, IdleInv
<1> QED
  BY <1>1, <1>2, <1>3, <1>4

-----------------------------------------------------------------------------

\* The invariant holds initially and every step, or stutter, preserves it.
LEMMA Inductive ==
  /\ Init => IInv
  /\ IInv /\ [Next]_vars => IInv'
<1>1. ASSUME Init
      PROVE  IInv
  <2> USE <1>1 DEF Init
  <2>1. TypeOK
    <3>1. /\ 0 \in 0..MaxDepth /\ 0 \in 0..(TxIdLimit + 1)
          /\ 0 \in 0..(MaxDepth + 1)
      OBVIOUS
    <3> QED
      BY <3>1 DEF TypeOK
  <2>2. /\ FlagsCoverWork /\ CommittedOnReturn /\ DisallowedMeansNone
        /\ AppliedOnceIfKnown /\ AppliedInv /\ IdleInv
        /\ FutureInv /\ FlushedAfterRetry
    BY DEF FlagsCoverWork, CommittedOnReturn, DisallowedMeansNone,
       AppliedOnceIfKnown, AppliedInv, IdleInv, FutureInv, FlushedAfterRetry
  <2> QED
    BY <2>1, <2>2 DEF IInv
<1>2. ASSUME IInv, UNCHANGED vars
      PROVE  IInv'
  BY <1>2 DEF vars, txVars, fdbVars, futVars, IInv, TypeOK, FlagsCoverWork,
     CommittedOnReturn, DisallowedMeansNone, AppliedOnceIfKnown, AppliedInv,
     IdleInv, FutureInv, FlushedAfterRetry
<1>3. ASSUME IInv, User
      PROVE  IInv'
  <2>1. CASE Writes
    BY <1>3, <2>1, Step_Write
       DEF Writes, transaction_set, transaction_clear, transaction_clear_range,
           transaction_atomic_op, transaction_add_conflict_range
  <2>2. CASE Settings
    BY <1>3, <2>2, Step_writes_not_allowed, Step_transaction_allow_writes,
       Step_transaction_disallow_writes, Step_transaction_reset,
       Step_transaction_get_next_tx_id, Step_transaction_cancel, Step_Passed
       DEF Settings, transaction_set_option, transaction_set_read_version,
           transaction_get_committed_version, Passed
  <2>3. CASE user_error \/ user_raise \/ user_return
    BY <1>3, <2>3, Step_user_error, Step_user_raise, Step_user_return
  <2>4. ASSUME NEW f \in Futures, Reads(f)
        PROVE  IInv'
    BY <1>3, <2>4, Step_Read
       DEF Reads, transaction_get, transaction_get_range,
           transaction_get_mapped_range, transaction_get_key,
           transaction_get_read_version, transaction_get_estimated_range_size,
           transaction_get_range_split_points,
           transaction_get_addresses_for_key, transaction_get_approximate_size
  <2>5. ASSUME NEW f \in Futures,
               \/ transaction_get_versionstamp(f)
               \/ transaction_watch(f)
               \/ user_wait(f)
               \/ user_wait_error(f)
        PROVE  IInv'
    BY <1>3, <2>5, Step_transaction_get_versionstamp, Step_transaction_watch,
       Step_user_wait, Step_user_wait_error
  <2> QED
    BY <1>3, <2>1, <2>2, <2>3, <2>4, <2>5 DEF User
<1>4. ASSUME IInv, DoTransaction
      PROVE  IInv'
  BY <1>4, Step_inspect_read_only, Step_transaction_on_error,
     Step_on_error_raise, Step_flush_done, Step_transaction_commit,
     Step_commit_ok, Step_commit_failed, Step_commit_unknown_result,
     Step_flush_message
     DEF DoTransaction
<1> QED
  BY <1>1, <1>2, <1>3, <1>4, Step_transactional, Step_future_ready DEF Next

\* The inductive invariant holds in every reachable state.
THEOREM Invariance == Spec => []IInv
BY Inductive, PTL DEF Spec

\* The variables keep their types; the counter of transaction ids stops one
\* above its limit.
THEOREM TypeCorrect == Spec => []TypeOK
<1>1. IInv => TypeOK
  BY DEF IInv
<1> QED
  BY <1>1, Invariance, PTL

\* The flags that do_transaction inspects cover what there is to commit, in
\* every attempt and after every reset.
THEOREM FlagsCover == Spec => []FlagsCoverWork
<1>1. IInv => FlagsCoverWork
  BY DEF IInv
<1> QED
  BY <1>1, Invariance, PTL

\* transactional/2 returns only after the last attempt's work was committed.
THEOREM Committed == Spec => []CommittedOnReturn
<1>1. IInv => CommittedOnReturn
  BY DEF IInv
<1> QED
  BY <1>1, Invariance, PTL

\* A transaction whose writes are disallowed has none to commit.
THEOREM Disallowed == Spec => []DisallowedMeansNone
<1>1. IInv => DisallowedMeansNone
  BY DEF IInv
<1> QED
  BY <1>1, Invariance, PTL

\* Writes are applied twice only after a commit with an unknown result.
THEOREM AppliedOnce == Spec => []AppliedOnceIfKnown
<1>1. IInv => AppliedOnceIfKnown
  BY DEF IInv
<1> QED
  BY <1>1, Invariance, PTL

\* After a retry no message of an earlier attempt is left or comes later.
THEOREM Flushed == Spec => []FlushedAfterRetry
<1>1. IInv => FlushedAfterRetry
  BY DEF IInv
<1> QED
  BY <1>1, Invariance, PTL

\* No step of the flush takes the message of a watch or a versionstamp.
THEOREM FlushKeeps == Spec => FlushKeepsUntied
<1> DEFINE Kept == \A f \in Futures :
                     pc = "flush" /\ kind[f] \in {"watch", "versionstamp"}
                       /\ fut[f] = "sent" => fut'[f] = "sent"
<1>1. ASSUME IInv, Next, NEW f \in Futures, pc = "flush",
             kind[f] \in {"watch", "versionstamp"}, fut[f] = "sent"
      PROVE  fut'[f] = "sent"
  <2>1. ~tied[f]
    BY <1>1 DEF IInv, FutureInv
  <2>2. CASE \E g \in Futures : flush_message(g)
    BY <1>1, <2>1, <2>2 DEF flush_message, IInv, TypeOK
  <2>3. CASE \E g \in Futures : future_ready(g)
    BY <1>1, <2>3 DEF future_ready, IInv, TypeOK
  <2>4. CASE flush_done
    BY <1>1, <2>4 DEF flush_done, futVars
  <2> QED
    BY <1>1, <2>2, <2>3, <2>4
       DEF Next, transactional, User, Writes, Settings, Reads, DoTransaction,
           transaction_set, transaction_clear, transaction_clear_range,
           transaction_atomic_op, transaction_add_conflict_range, Write,
           writes_not_allowed, transaction_allow_writes,
           transaction_disallow_writes, transaction_reset,
           transaction_get_next_tx_id, transaction_cancel, Passed,
           transaction_set_option, transaction_set_read_version,
           transaction_get_committed_version, user_error, user_raise, user_return,
           transaction_get, transaction_get_range,
           transaction_get_mapped_range, transaction_get_key,
           transaction_get_read_version, transaction_get_estimated_range_size,
           transaction_get_range_split_points,
           transaction_get_addresses_for_key, transaction_get_approximate_size,
           Read, transaction_get_versionstamp, transaction_watch, user_wait,
           user_wait_error, inspect_read_only, transaction_on_error,
           on_error_raise, transaction_commit, commit_ok, commit_failed,
           commit_unknown_result
<1>2. IInv /\ [Next]_vars => [Kept]_vars
  BY <1>1 DEF vars, futVars
<1> QED
  BY <1>2, Invariance, PTL DEF Spec, FlushKeepsUntied

=============================================================================
