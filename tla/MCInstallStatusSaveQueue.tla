---------------------- MODULE MCInstallStatusSaveQueue ----------------------
(* Model values of the constants of InstallStatusSaveQueue for TLC. *)
EXTENDS InstallStatusSaveQueue
CONSTANTS a, b, k1, k2, k3
=============================================================================
