--------------------------- MODULE MCServiceUpdate ---------------------------
(* Small instances of ServiceUpdate for TLC. *)
EXTENDS ServiceUpdate

CONSTANTS i1, i2

Newer == {<<"product", i2>>, <<"group", i2>>}

=============================================================================
