--------------------------- MODULE MCPipelineEditor ---------------------------
(* Small instances of PipelineEditor for TLC. *)
EXTENDS PipelineEditor

CONSTANTS m, n, v0, v1, v2, p0, p1, alice, bob

Wire == {<<m, n>>}
Start == [graph |-> [nodes |-> [k \in Nodes |-> v0], edges |-> {}],
          places |-> [k \in Nodes |-> p0]]

\* Alice changes m and moves it; Bob changes n, connects
\* it to m, moves m or takes n away.
Updates(nodes, values) == [op : {"update"}, node : nodes, value : values]
SomeEdits == alice :> Updates({m}, {v1})
             @@ bob :> (Updates({n}, {v1}) \cup [op : {"connect"}, wire : Wire]
                       \cup [op : {"remove"}, node : {n}])
SomeMoves == alice :> {<<m, p1>>} @@ bob :> {<<m, p1>>}

\* Each changes either node, to a value of its own.
OwnValues == alice :> Updates({m, n}, {v1}) @@ bob :> Updates({m, n}, {v2})
NoMoves == alice :> {} @@ bob :> {}

=============================================================================
