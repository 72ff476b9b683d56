------------------------------ MODULE Allocator ------------------------------
(***************************************************************************)
(* What an allocator promises: numbers are given out, each at most once.   *)
(* issued[n] counts the transactions that were committed with n as one of  *)
(* the numbers allocated for them.                                         *)
(***************************************************************************)
EXTENDS Naturals

CONSTANT Nums      \* the numbers there are

VARIABLE issued

Init == issued = [n \in Nums |-> 0]

\* One transaction is committed with the numbers S: none was given out before.
Allocate(S) ==
    /\ \A n \in S : issued[n] = 0
    /\ issued' = [n \in Nums |-> IF n \in S THEN 1 ELSE issued[n]]

Next == \E S \in SUBSET Nums : Allocate(S)

Spec == Init /\ [][Next]_issued

=============================================================================
