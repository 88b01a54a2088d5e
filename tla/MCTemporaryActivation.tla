----------------------- MODULE MCTemporaryActivation -----------------------
(* Values of the constants of TemporaryActivation for TLC. *)
EXTENDS TemporaryActivation
CONSTANTS c1, c2, f1, f2, n1, n2, n3

\* f1's metadata may be edited between two activations: two names.
NamesDistinct == [f \in Fonts |-> IF f = f1 THEN {n1, n3} ELSE {n2}]
NamesPlain    == [f \in Fonts |-> IF f = f1 THEN {n1} ELSE {n2}]
=============================================================================
