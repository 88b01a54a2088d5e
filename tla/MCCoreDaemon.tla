---------------------------- MODULE MCCoreDaemon ----------------------------
(* Values of the constants of CoreDaemon for TLC: two writes and two metadata *)
(* reads, one of which may panic.                                          *)
EXTENDS CoreDaemon
CONSTANTS w1, w2, r1, r2, write, foreground

Lane == [j \in Jobs |-> IF j \in {w1, w2} THEN write ELSE foreground]
Limits == [l \in Lanes |-> IF l = write THEN 2 ELSE 1]
=============================================================================
