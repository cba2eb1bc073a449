-------------------------- MODULE MC_ScenarioRuns --------------------------
(* Constants of ScenarioRuns for TLC. *)
EXTENDS ScenarioRuns, TLC

CONSTANTS c1, c2, v1, v2

(* Two services with one case each. *)
TwoServices == (c1 :> v1) @@ (c2 :> v2)
(* One service with two cases. *)
OneService == (c1 :> v1) @@ (c2 :> v1)
=============================================================================
