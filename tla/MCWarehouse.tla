---------------------------- MODULE MCWarehouse ----------------------------
(***************************************************************************)
(* Instances of Warehouse for TLC: two products, of which the first has    *)
(* two reviews.                                                            *)
(***************************************************************************)
EXTENDS Warehouse, TLC

CONSTANTS r1, r2, r3,   \* merged records
          h1,           \* a historical row
          p1, p2        \* products

MCProductOf == [x \in Merged \cup Historical |-> IF x = r3 THEN p2 ELSE p1]

NoFaults == [kind \in FaultKinds |-> 0]
OneDriverFailure == [NoFaults EXCEPT !["driver"] = 1]
=============================================================================
