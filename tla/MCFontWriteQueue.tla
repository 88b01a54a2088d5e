-------------------------- MODULE MCFontWriteQueue --------------------------
(* Model values of the constants of FontWriteQueue for TLC. *)
EXTENDS FontWriteQueue
CONSTANTS a, b, t, u
=============================================================================
