---------------------------- MODULE MCTransforms ----------------------------
(***************************************************************************)
(* An instance of Transforms and one of Codec for TLC, side by side: while *)
(* one of them moves the other one stays at its beginning.                 *)
(***************************************************************************)
EXTENDS Transforms, Codec

Review(user, parent, product, helpful, verified) ==
  [user_id |-> user, parent_product_id |-> parent, product_id |-> product,
   helpful_vote |-> helpful, verified_purchase |-> verified, review_text |-> "text"]

Product(parent, category, brand, store) ==
  [parent_product_id |-> parent, category |-> category, brand |-> brand, store |-> store,
   product_title |-> "title"]

(* Two users; product 1 has two variants; the last two lack what a review  *)
(* must have.                                                              *)
MCReviews ==
  { Review("u1", 1, "a", 2, TRUE), Review("u1", 1, "b", NULL, TRUE),
    Review("u1", 2, "c", 1, TRUE), Review("u1", 2, "c", NULL, NULL),
    Review("u2", 1, "a", 1, FALSE), Review("u2", 2, "c", NULL, TRUE),
    Review("u2", 2, "c", 1, NULL),
    [Review("u2", 1, "a", 1, TRUE) EXCEPT !.review_text = NULL],
    Review(NULL, NULL, NULL, NULL, NULL) }

(* Product 3 is never reviewed. *)
MCMetadata ==
  { Product(1, "c1", "acme", NULL), Product(1, "c1", "ACME", "shop"),
    Product(1, "c2", NULL, "shop"), Product(1, "c1", NULL, NULL),
    Product(1, NULL, "acme", NULL), Product(2, "c1", NULL, "Acme"),
    Product(2, "c2", NULL, NULL), Product(3, "c2", "shop", NULL) }

MCInitcap ==
  [n \in {"acme", "ACME", "Acme"} |-> "Acme"] @@ [n \in {"shop", "Shop"} |-> "Shop"]

(* Every border between the lengths of a character and between the kinds   *)
(* of a byte.                                                              *)
MCBytes == {0, 127, 128, 191, 192, 194, 223, 255}

MCInit == TransformsInit /\ CodecInit

MCNext ==
  \/ record = <<>> /\ TransformsNext /\ UNCHANGED codec
  \/ /\ review_file = EmptyBag /\ metadata_file = EmptyBag /\ stage = "files"
     /\ CodecNext
     /\ UNCHANGED transforms

MCSpec == MCInit /\ [][MCNext]_<<transforms, codec>>
=============================================================================
