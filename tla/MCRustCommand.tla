--------------------------- MODULE MCRustCommand ---------------------------
(* Values of the constants of RustCommand for TLC: a change of state, with a *)
(* fallback of its own and an abort signal, and a query.                   *)
EXTENDS RustCommand
CONSTANTS change, query
=============================================================================
