----------------------------- MODULE StreamJoin -----------------------------
(***************************************************************************)
(* What the stream pipeline promises, without topics, offsets, keyed state *)
(* or restarts (README.md:4): reviews and metadata arrive in any order,    *)
(* and every review whose product has metadata is joined with a metadata   *)
(* record of the same product and delivered at least once, unless the      *)
(* merge schema rejects it.                                                *)
(***************************************************************************)
CONSTANTS Reviews,        \* the raw review records
          Metadata,       \* the raw metadata records
          ParentAsin,     \* the parent_asin of each record
          Nonconforming   \* the records the merge schema rejects

VARIABLES arrived,        \* the raw records published so far
          delivered,      \* the pairs <<review, metadata>> of the output
          discarded       \* the reviews the merge schema rejected

vars == <<arrived, delivered, discarded>>

Matches(r) == {m \in Metadata \cap arrived : ParentAsin[m] = ParentAsin[r]}

Settled(r) == r \in discarded \/ \E m \in Metadata : <<r, m>> \in delivered

Init ==
  /\ arrived = {}
  /\ delivered = {}
  /\ discarded = {}

Arrive(x) ==
  /\ arrived' = arrived \cup {x}
  /\ UNCHANGED <<delivered, discarded>>

Deliver(r, m) ==
  /\ r \in arrived
  /\ m \in Matches(r)
  /\ {r, m} \cap Nonconforming = {}
  /\ delivered' = delivered \cup {<<r, m>>}
  /\ UNCHANGED <<arrived, discarded>>

(* One metadata record can settle all the reviews that waited for it. *)
Discard(D) ==
  /\ \A r \in D : r \in arrived /\ \E m \in Matches(r) : {r, m} \cap Nonconforming # {}
  /\ discarded' = discarded \cup D
  /\ UNCHANGED <<arrived, delivered>>

Settle(r) ==
  /\ ~Settled(r)
  /\ \/ \E m \in Metadata : Deliver(r, m)
     \/ \E D \in SUBSET Reviews : r \in D /\ Discard(D)

Next ==
  \/ \E x \in Reviews \cup Metadata : Arrive(x)
  \/ \E r \in Reviews, m \in Metadata : Deliver(r, m)
  \/ \E D \in SUBSET Reviews : Discard(D)

Spec == Init /\ [][Next]_vars

(* The promise in full: a review with a match does not wait for ever. *)
FairSpec == Spec /\ \A r \in Reviews : WF_vars(Settle(r))
=============================================================================
