---------------------------- MODULE MCLakehouse ----------------------------
(***************************************************************************)
(* Instances of Lakehouse for TLC.                                         *)
(***************************************************************************)
EXTENDS Lakehouse

CONSTANTS r1, r2, r3, r4,   \* merged records
          h1, h2            \* historical rows

NoFaults == [kind \in FaultKinds |-> 0]
TwoOfEach == [kind \in FaultKinds |-> 2]
=============================================================================
