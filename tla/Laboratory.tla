----------------------------- MODULE Laboratory -----------------------------
(***************************************************************************)
(* What a laboratory is to the programs that share one: a set of           *)
(* namespaces that may or may not be ready for use.  Building adds         *)
(* namespaces one by one and makes the laboratory ready at one moment,     *)
(* when the last piece is in place; from then on only a teardown takes it  *)
(* back, and the first namespace it removes does.                          *)
(*                                                                         *)
(* Topology implements this with any number of processes that issue one    *)
(* command at a time, Experiment with one run after another that may be    *)
(* cut off anywhere.                                                       *)
(***************************************************************************)
CONSTANT Names  \* the namespaces of the configuration

VARIABLES
  present,  \* those that exist
  ready     \* everything configured is in place

vars == <<present, ready>>

\* Namespaces may be there already, an earlier laboratory may not.
Init == present \in SUBSET Names /\ ready = FALSE

\* One round of the creation loop.
Add(n) ==
  /\ n \notin present
  /\ present' = present \union {n}
  /\ UNCHANGED ready

\* The last step of build().
Complete ==
  /\ present = Names
  /\ ready' = TRUE
  /\ UNCHANGED present

\* One round of the deletion loop.
Remove(n) ==
  /\ n \in present
  /\ present' = present \ {n}
  /\ ready' = FALSE

Next == Complete \/ \E n \in Names : Add(n) \/ Remove(n)

Spec == Init /\ [][Next]_vars

\* A laboratory that is ready has all its namespaces.
ReadyMeansPresent == ready => present = Names
=============================================================================
