-------------------------- MODULE MCRunCoordinator --------------------------
(* Small instances of RunCoordinator for TLC. *)
EXTENDS RunCoordinator

CONSTANTS a, b, c, c0, c1

\* A step and the one that consumes its output.
Chain == {<<a, b>>}
NoEdges == {}
\* Every restart keeps the adapters, or one may come back without any.
AllAdapters == {Nodes}
SomeAdapters == {Nodes, {}}

=============================================================================
