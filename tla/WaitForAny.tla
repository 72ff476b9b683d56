----------------------------- MODULE WaitForAny -----------------------------
(***************************************************************************)
(* erlfdb:wait_for_any/2: a process receives ready messages until one      *)
(* belongs to a future of its list, sets the others aside, and sends them  *)
(* to itself again when it returns or times out.                           *)
(*                                                                         *)
(* A ready message is {Key, ready}, where Key is the future's reference,   *)
(* or, for a future tied to a transaction, a pair of the transaction's     *)
(* reference and the future's (erlfdb_create_future).                      *)
(***************************************************************************)
EXTENDS Naturals, Sequences, FiniteSets

CONSTANTS Futures,    \* the futures that report to the process
          Tied,       \* those tied to a transaction
          Candidates  \* those the process passes to wait_for_any

VARIABLES
    fut,      \* each future: pending, sent, or taken (its message is consumed)
    mailbox,  \* the keys of the ready messages in the mailbox
    ResendQ,  \* the keys of the messages set aside
    pc,       \* idle, receive (no timeout) or receive_timeout
    list,     \* the futures of the call
    winner    \* what the last call returned: a set with at most one future

vars == <<fut, mailbox, ResendQ, pc, list, winner>>

Keys == [tx : BOOLEAN, ref : Futures]

\* f->msg_ref, and the second element of the future's term.
MsgKey(f) == [tx |-> f \in Tied, ref |-> f]
TermKey(f) == [tx |-> FALSE, ref |-> f]

TypeOK ==
    /\ fut \in [Futures -> {"pending", "sent", "taken"}]
    /\ mailbox \in Seq(Keys)
    /\ ResendQ \in Seq(Keys)
    /\ pc \in {"idle", "receive", "receive_timeout"}
    /\ list \subseteq Futures
    /\ winner \subseteq Futures

Init ==
    /\ fut = [f \in Futures |-> "pending"]
    /\ mailbox = <<>> /\ ResendQ = <<>>
    /\ pc = "idle" /\ list = {} /\ winner = {}

\* erlfdb_future_cb sends the message.
future_ready(f) ==
    /\ fut[f] = "pending"
    /\ fut' = [fut EXCEPT ![f] = "sent"]
    /\ mailbox' = Append(mailbox, MsgKey(f))
    /\ UNCHANGED <<ResendQ, pc, list, winner>>

\* wait_for_any(Futures, Options); the process does not pass a future again
\* whose message it has taken.
wait_for_any(S) ==
    /\ pc = "idle" /\ S # {} /\ \A f \in S : fut[f] # "taken"
    /\ pc' \in {"receive", "receive_timeout"}
    /\ list' = S
    /\ winner' = {}
    /\ UNCHANGED <<fut, mailbox, ResendQ>>

Receiving == pc \in {"receive", "receive_timeout"} /\ mailbox # <<>>

\* lists:keyfind(FutureKey, 2, Futures).
keyfind(key, S) == {f \in S : TermKey(f) = key}

\* Mutant: the messages set aside are forgotten.
receive_winner_forgets ==
    /\ Receiving /\ keyfind(Head(mailbox), list) # {}
    /\ winner' = keyfind(Head(mailbox), list)
    /\ fut' = [fut EXCEPT ![Head(mailbox).ref] = "taken"]
    /\ mailbox' = Tail(mailbox)
    /\ ResendQ' = <<>>
    /\ pc' = "idle"
    /\ UNCHANGED list

\* Mutant: a future is found only when it is the whole list.
receive_winner_single ==
    /\ Receiving /\ keyfind(Head(mailbox), list) = list
    /\ winner' = keyfind(Head(mailbox), list)
    /\ fut' = [fut EXCEPT ![Head(mailbox).ref] = "taken"]
    /\ mailbox' = Tail(mailbox) \o ResendQ
    /\ ResendQ' = <<>>
    /\ pc' = "idle"
    /\ UNCHANGED list

\* The message belongs to a future of the list: the others are sent again, the
\* last one first, and the future is returned.
receive_winner ==
    /\ Receiving /\ keyfind(Head(mailbox), list) # {}
    /\ winner' = keyfind(Head(mailbox), list)
    /\ fut' = [fut EXCEPT ![Head(mailbox).ref] = "taken"]
    /\ mailbox' = Tail(mailbox) \o ResendQ
    /\ ResendQ' = <<>>
    /\ pc' = "idle"
    /\ UNCHANGED list

\* It does not: it is set aside, and the receive is entered again.
receive_other ==
    /\ Receiving /\ keyfind(Head(mailbox), list) = {}
    /\ ResendQ' = <<Head(mailbox)>> \o ResendQ
    /\ mailbox' = Tail(mailbox)
    /\ UNCHANGED <<fut, pc, list, winner>>

\* No message came in time: the others are sent again, and an error is raised.
receive_timeout ==
    /\ pc = "receive_timeout" /\ mailbox = <<>>
    /\ mailbox' = ResendQ
    /\ ResendQ' = <<>>
    /\ pc' = "idle"
    /\ UNCHANGED <<fut, list, winner>>

Next ==
    \/ \E f \in Futures : future_ready(f)
    \/ \E S \in SUBSET Candidates : wait_for_any(S)
    \/ receive_winner
    \/ receive_other
    \/ receive_timeout

Spec == Init /\ [][Next]_vars

\* Every future is resolved, and a process in a receive goes on.
FairSpec ==
    /\ Spec
    /\ \A f \in Futures : WF_vars(future_ready(f))
    /\ WF_vars(receive_winner \/ receive_other)

-----------------------------------------------------------------------------

\* How often a message of future f is waiting, in the mailbox or set aside.
Messages(f) ==
    Cardinality({i \in DOMAIN mailbox : mailbox[i].ref = f})
      + Cardinality({i \in DOMAIN ResendQ : ResendQ[i].ref = f})

\* However its calls return or time out, wait_for_any loses no ready message of
\* a future that it did not return, makes no second copy of one, and leaves
\* none set aside; the variables keep their types.
NoMessageLost ==
    /\ TypeOK
    /\ \A f \in Futures :
          Messages(f) = IF fut[f] = "sent" THEN 1 ELSE 0
    /\ pc = "idle" => ResendQ = <<>>

\* What the documentation says: "Waits for one of the provided futures in the
\* list to enter ready state. When such a future is found, return it."
AnyReturns ==
    (pc = "receive" /\ \E f \in list : fut[f] = "sent") ~> pc = "idle"

=============================================================================
