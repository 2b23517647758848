--------------------------- MODULE MCBuildQueue ---------------------------
(* Every constant is given its value by the configuration. *)
EXTENDS BuildQueueProps
===========================================================================
