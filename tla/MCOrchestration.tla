-------------------------- MODULE MCOrchestration --------------------------
(***************************************************************************)
(* Instances of Orchestration for TLC.                                     *)
(***************************************************************************)
EXTENDS Orchestration

OneRun == [batch |-> 1, stream |-> 1]
TwoBatchRuns == [batch |-> 2, stream |-> 0]

Events == [batch |-> 2, stream |-> 3]
Edited == {"merge2delta", "generate_data_mart", "insert_reviews"}

(* The folder a former version of the merge job has written. *)
FormerMerge == {<<Historical, "">>}
=============================================================================
