----------------------------- MODULE MCDirectory -----------------------------
(* Directory with a few names, for TLC. *)
EXTENDS Directory, TLC

\* Paths of one name and of two names.
MCPaths == {<<x>> : x \in PathNames} \cup (PathNames \X PathNames)

MCRoot == <<9>>

\* A name that the allocator gives.
MCAuto == {<<0, 0>>}

\* Names that callers choose: they overlap with each other and with the
\* automatic one, which lies between them, and none is equal to it.
MCManual == {<<0>>, <<0, 0, 1>>}

ASSUME NamesDiffer

\* The names in a path are interchangeable.
PathSymmetry == Permutations(PathNames)

=============================================================================
