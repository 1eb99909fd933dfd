---------------------------- MODULE MCExperiment ----------------------------
(***************************************************************************)
(* Instances of Experiment for TLC: two namespaces of topology.yaml, the   *)
(* HTTP server and one of the other three.                                 *)
(***************************************************************************)
EXTENDS Experiment

ClientAndServer == <<"client", "app_server">>

OneValidation == <<"validation">>
ConnectivityThenValidation == <<"connectivity", "validation">>
ConnectivityAroundValidation == <<"connectivity", "validation", "connectivity">>
=============================================================================
