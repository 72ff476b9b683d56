------------------------------ MODULE MCHandles ------------------------------
(* Handles with two processes, for TLC. *)
EXTENDS Handles, TLC

\* The handles are interchangeable, and so are the processes.
Symmetry == Permutations(Handles) \cup Permutations(Procs)

=============================================================================
