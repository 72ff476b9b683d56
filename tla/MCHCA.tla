-------------------------------- MODULE MCHCA --------------------------------
(* HCA with small windows, for TLC. *)
EXTENDS HCA, TLC

\* The clients are interchangeable.
Symmetry == Permutations(Clients)

=============================================================================
