---------------------------- MODULE MCAppRollout ----------------------------
(* Two rollouts of one package to one tenant. *)
EXTENDS AppRolloutProps

CONSTANTS j1, j2
=============================================================================
