--------------------------- MODULE MCMergeStreams ---------------------------
(***************************************************************************)
(* Instances of MergeStreams for TLC: two reviews and two metadata records *)
(* of product a, which race and update each other, and one review and one  *)
(* metadata record of product b with the defects the configuration picks.  *)
(***************************************************************************)
EXTENDS MergeStreams, TLC

CONSTANTS a1, a2, b1,      \* reviews of a and of b
          ma1, ma2, mb,    \* metadata of a and of b
          a, b,            \* products
          rp, rp1, rp2,    \* review partitions
          mp, mp1, mp2,    \* metadata partitions
          s1               \* the subtask

MCParentAsin == [x \in Records |-> IF x \in {b1, mb} THEN b ELSE a]
MCSubtask == [k \in Products |-> s1]

NoFaults == [kind \in FaultKinds |-> 0]
OneTaskFailure == [NoFaults EXCEPT !["task"] = 1]
TwoTaskFailures == [NoFaults EXCEPT !["task"] = 2]
OneOfEach == [kind \in FaultKinds |-> 1]
OneJobManagerFailure == [NoFaults EXCEPT !["job_manager"] = 1]

(* Nothing tells the two metadata records or their partitions apart. *)
Swaps == Permutations({ma1, ma2}) \cup Permutations({mp1, mp2})
=============================================================================
