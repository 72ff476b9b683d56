--------------------------- MODULE MCTransactional ---------------------------
(* Transactional with a few futures, for TLC. *)
EXTENDS Transactional, TLC

\* The futures are interchangeable.
Symmetry == Permutations(Futures)

=============================================================================
