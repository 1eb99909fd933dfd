------------------------------ MODULE MCCapture ------------------------------
(***************************************************************************)
(* Instances of Capture for TLC: the two backends of                       *)
(* run_baseline_validation.py and demo_capture.py, in their order.         *)
(***************************************************************************)
EXTENDS Capture

JsonlThenSqlite == <<"jsonl", "sqlite">>

\* The types as the repository has them, and with what the code names added.
ShippedAndComplete ==
  {[unknown |-> FALSE, toDict |-> FALSE], [unknown |-> TRUE, toDict |-> TRUE]}
=============================================================================
