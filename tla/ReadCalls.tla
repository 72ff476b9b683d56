------------------------------ MODULE ReadCalls ------------------------------
(***************************************************************************)
(* The calls of src/erlfdb.erl in which a process waits for the results of *)
(* several reads.  A process makes one such call at a time: a range fold   *)
(* or an iterator (RangeFold), an interleaved wait (Interleaving), or a    *)
(* wait for the first of several futures (WaitForAny).  The first two read *)
(* the same transaction's keys in the same pages.                          *)
(***************************************************************************)
EXTENDS RangeFold, Sequences

CONSTANTS Lists, Splits,                \* of Interleaving
          Futures, Tied, Candidates     \* of WaitForAny

\* A list has range reads and other futures; the split points of a range come
\* in order.
ASSUME ReadCallsAssumption ==
    /\ Bounds # {}
    /\ Candidates \subseteq Futures
    /\ Lists \subseteq Seq(Entries)
    /\ \A keys \in Splits :
          keys \in Seq(Nat) /\ \A i, j \in DOMAIN keys : i <= j => keys[i] <= keys[j]

VARIABLES
    call,                               \* the call that is made
    list, points, sts, ffs, acc, ipc,   \* of the interleaved wait
    ready, mailbox, ResendQ, any, winner, apc    \* of wait_for_any

I == INSTANCE Interleaving WITH pc <- ipc

A == INSTANCE WaitForAny WITH fut <- ready, list <- any, pc <- apc

interVars == <<list, points, sts, ffs, acc, ipc>>
anyVars   == <<ready, mailbox, ResendQ, any, winner, apc>>
allVars   == <<vars, call, interVars, anyVars>>

\* The variables of a call that is not made.
NoRange ==
    /\ mode = "fold" /\ reverse = FALSE /\ written = {} /\ limit = 0
    /\ start = CHOOSE b \in Bounds : TRUE
    /\ end = start
    /\ st = St(start, end, limit) /\ fut = NoPage
    /\ out = {} /\ given = 0 /\ pc = "idle"

NoInterleaving ==
    /\ list = <<>> /\ points = <<>> /\ sts = <<>> /\ ffs = <<>> /\ acc = <<>>
    /\ ipc = "idle"

ReadInit ==
    \/ call = "range" /\ Init /\ NoInterleaving /\ A!Init
    \/ call = "interleaving" /\ I!Init /\ NoRange /\ A!Init
    \/ call = "any" /\ A!Init /\ db = {} /\ NoRange /\ NoInterleaving

ReadNext ==
    \/ call = "range" /\ Next /\ UNCHANGED <<call, interVars, anyVars>>
    \/ /\ call = "interleaving" /\ I!Next
       /\ UNCHANGED <<call, argVars, written, st, fut, out, given, pc, anyVars>>
    \/ call = "any" /\ A!Next /\ UNCHANGED <<call, vars, interVars>>

\* Every future becomes ready, and a process that has what it waits for goes on.
ReadSpec ==
    /\ ReadInit /\ [][ReadNext]_allVars
    /\ WF_allVars(call = "range" /\ Read /\ UNCHANGED <<call, interVars, anyVars>>)
    /\ WF_allVars(/\ call = "interleaving" /\ I!Step
                  /\ UNCHANGED <<call, argVars, written, st, fut, out, given, pc, anyVars>>)
    /\ \A f \in Futures :
          WF_allVars(call = "any" /\ A!future_ready(f)
                        /\ UNCHANGED <<call, vars, interVars>>)
    /\ WF_allVars(/\ call = "any" /\ (A!receive_winner \/ A!receive_other)
                  /\ UNCHANGED <<call, vars, interVars>>)

-----------------------------------------------------------------------------
(* Properties, with those of RangeFold *)

\* wait_for_all_interleaving/3 puts the rows of each range future, all of them
\* and each once, at the index of the future, however many rounds the others
\* take.
ResultsMatch == I!ResultsMatch

\* get_range/4 with {wait, interleaving} returns the whole range in order: the
\* parts between split points leave no gap and do not overlap.
SplitExact == I!SplitExact

\* The interleaved wait returns or raises.
Returns == I!Returns

\* wait_for_any/2 loses no ready message of a future that it did not return,
\* makes no second copy of one, and leaves none set aside.
NoMessageLost == A!NoMessageLost

\* wait_for_any/2 without a timeout returns once a future of its list, none of
\* them tied to a transaction, has reported.
AnyReturns == A!AnyReturns

=============================================================================
