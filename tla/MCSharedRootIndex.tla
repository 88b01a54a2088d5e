------------------------- MODULE MCSharedRootIndex -------------------------
EXTENDS SharedRootIndex
CONSTANTS p1, p2, p3, a, b, c, d, x
MCPut == [p \in Procs |-> CASE p = p1 -> {a} [] p = p2 -> {b} [] OTHER -> {c}]
MCDrop == [p \in Procs |-> IF p = p1 THEN {x} ELSE {}]
=============================================================================
