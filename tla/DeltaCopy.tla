----------------------------- MODULE DeltaCopy -----------------------------
(***************************************************************************)
(* What a micro-batch copy of a topic into a Delta table promises: the     *)
(* table grows by whole stretches of the topic, in its order and without a *)
(* gap.  There are no batches, logs, drivers or restarts, and copies of a  *)
(* record are not told apart: that is the business of who implements it.   *)
(***************************************************************************)
EXTENDS Integers, Sequences

CONSTANT Records

VARIABLES source,   \* the topic, in order
          table     \* the records the table holds

Prefix(n) == {source[i] : i \in 1..n}

Init == source = <<>> /\ table = {}

Arrive(r) ==
  /\ source' = Append(source, r)
  /\ UNCHANGED table

(* An append moves the end of what was copied to some later record.        *)
Copy(n) ==
  /\ table \subseteq Prefix(n)
  /\ table' = Prefix(n)
  /\ UNCHANGED source

Next ==
  \/ \E r \in Records : Arrive(r)
  \/ \E n \in 1..Len(source) : Copy(n)

Spec == Init /\ [][Next]_<<source, table>>
=============================================================================
