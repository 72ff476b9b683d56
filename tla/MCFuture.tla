------------------------------ MODULE MCFuture ------------------------------
(* Future on small sets of futures and processes, for TLC. *)
EXTENDS Future, TLC

\* The processes, and the futures, are interchangeable in every safety property.
Symmetry == Permutations(Procs) \cup Permutations(Futures)

=============================================================================
