--------------------------- MODULE MCBuildControl ---------------------------
(* Small instances of BuildControl for TLC. *)
EXTENDS BuildControl

CONSTANTS b1, b2

=============================================================================
