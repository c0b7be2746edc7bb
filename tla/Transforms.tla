----------------------------- MODULE Transforms -----------------------------
(***************************************************************************)
(* What the batch jobs convert_raw2delta_avro_v2, convert_merge2delta_v2   *)
(* and generate_data_mart_v2 compute, from the rows of the raw files to    *)
(* the data marts.  A file or a table whose rows may repeat is a bag; the  *)
(* result of a grouping or of a join on a unique key is a set.             *)
(*                                                                         *)
(* Columns are left out that are only copied (titles, price, timestamp),   *)
(* and the averages.  "review_text" stands for every required column of a  *)
(* review that no grouping uses, "product_title" for that of a product.    *)
(***************************************************************************)
EXTENDS Integers, FiniteSets, Bags, FiniteSetsExt

CONSTANTS NULL,
          RawReviews,    \* the rows the review file may have
          RawMetadata,   \* the rows the metadata file may have
          Initcap,       \* Initcap[n]: initcap of the name n
          MaxReviews,    \* bound: rows of the review file
          MaxMetadata    \* bound: rows of the metadata file

Required == {"user_id", "product_id", "parent_product_id", "review_text"}
RequiredOfMetadata == {"category", "parent_product_id", "product_title"}

(* The types of the columns of the two Avro schemas; a product is numbered *)
(* by the place of its id in the order of strings.                         *)
ASSUME TransformsAssumption ==
  /\ NULL \notin Int \cup BOOLEAN \cup DOMAIN Initcap
  /\ \A r \in RawReviews :
       /\ Required \cup {"helpful_vote", "verified_purchase"} = DOMAIN r
       /\ r.parent_product_id \in Int \cup {NULL}
       /\ r.helpful_vote \in Int \cup {NULL}
       /\ r.verified_purchase \in BOOLEAN \cup {NULL}
  /\ \A m \in RawMetadata :
       /\ RequiredOfMetadata \cup {"brand", "store"} = DOMAIN m
       /\ m.parent_product_id \in Int \cup {NULL}
       /\ m.brand \in DOMAIN Initcap \cup {NULL} /\ m.store \in DOMAIN Initcap \cup {NULL}
  /\ \A n \in DOMAIN Initcap : Initcap[n] \in DOMAIN Initcap /\ Initcap[Initcap[n]] = Initcap[n]
  /\ MaxReviews \in Nat /\ MaxMetadata \in Nat

VARIABLES
  stage,            \* what was written last: "files", "delta", "merge" or "marts"
  review_file, metadata_file,      \* the raw files
  delta_reviews, delta_metadata,   \* historical-delta-format-data
  merge_reviews, merge_metadata,   \* merge-data
  marts             \* datamarts

files == <<review_file, metadata_file>>
delta == <<delta_reviews, delta_metadata>>
merge == <<merge_reviews, merge_metadata>>
transforms == <<stage, files, delta, merge, marts>>

-----------------------------------------------------------------------------
(* SQL over bags *)
Group(column, value, rows) == Restrict(rows, {r \in BagToSet(rows) : r[column] = value})
Count(rows) == SumFunction(rows)
Coalesce(x, y) == IF x # NULL THEN x ELSE y
Column(name, rows) == [r \in BagToSet(rows) |-> r[name]]
Values(name, rows) == {r[name] : r \in BagToSet(rows)} \ {NULL}

Select(columns, rows) ==
  LET of == [r \in BagToSet(rows) |-> [c \in columns |-> r[c]]]
  IN [s \in Range(of) |-> SumFunctionOnSet(rows, {r \in BagToSet(rows) : of[r] = s})]

(* SUM ignores nulls, and is null over nothing but nulls. *)
SumOf(column, rows) ==
  LET known == {r \in BagToSet(rows) : column[r] # NULL}
  IN IF known = {} THEN NULL ELSE SumFunction([r \in known |-> column[r] * rows[r]])

Without(columns, rows) == {[c \in DOMAIN r \ columns |-> r[c]] : r \in rows}

Extended(l, r) == [c \in DOMAIN l \cup DOMAIN r |-> IF c \in DOMAIN l THEN l[c] ELSE r[c]]

(* A left join of keyed rows; other is a row of nulls for the right side. *)
LeftJoin(left, right, other) ==
  UNION {LET same == {r \in right : r.parent_product_id = l.parent_product_id}
         IN {Extended(l, r) : r \in IF same = {} THEN {other} ELSE same} : l \in left}

-----------------------------------------------------------------------------
(* convert_raw2delta_avro_v2 *)

(* Mutant of CleanReviews: nothing is filtered.                            *)
UncleanReviews(file) == file

CleanReviews(file) ==
  Restrict(file, {r \in BagToSet(file) : \A c \in Required : r[c] # NULL})

(* Mutant of CleanMetadata: a product may have no category.                *)
CleanMetadataWithoutCategory(file) ==
  Restrict(file, {m \in BagToSet(file) :
                    \A c \in RequiredOfMetadata \ {"category"} : m[c] # NULL})

CleanMetadata(file) ==
  Restrict(file, {m \in BagToSet(file) : \A c \in RequiredOfMetadata : m[c] # NULL})

-----------------------------------------------------------------------------
(* convert_merge2delta_v2 *)

SelectedColumns ==
  {"user_id", "product_id", "parent_product_id", "helpful_vote", "verified_purchase"}

(* The products with a brand or, in its place, a store. *)
BrandedProducts(metadata) ==
  {[parent_product_id |-> m.parent_product_id, category |-> m.category,
    brand |-> Initcap[Coalesce(m.brand, m.store)]] :
     m \in {x \in BagToSet(metadata) : x.brand # NULL \/ x.store # NULL}}

(* Mutant of Deduplicated: duplicates are kept.                            *)
NotDeduplicated(rows) == {rows}

(* Mutant of Deduplicated: one row is kept of each category.               *)
DeduplicatedByCategory(rows) ==
  LET names == {r.category : r \in rows}
  IN {{pick[name] : name \in names} :
        pick \in {f \in [names -> rows] : \A name \in names : f[name].category = name}}

(* The possible results of dropDuplicates: some row of each product. *)
Deduplicated(rows) ==
  LET ids == {r.parent_product_id : r \in rows}
  IN {{pick[id] : id \in ids} :
        pick \in {f \in [ids -> rows] : \A id \in ids : f[id].parent_product_id = id}}

(* Mutant of ProductKeys: only the products of the metadata.               *)
ProductKeysOfMetadata(reviews, products) == {p.parent_product_id : p \in products}

ProductKeys(reviews, products) ==
  {r.parent_product_id : r \in BagToSet(reviews) \cup products}

(* cast("int") *)
ToInt(column) ==
  [r \in DOMAIN column |-> CASE column[r] = TRUE -> 1
                             [] column[r] = FALSE -> 0
                             [] OTHER -> NULL]

ReviewsAgg(reviews) ==
  {LET own == Group("parent_product_id", id, reviews)
   IN [parent_product_id |-> id,
       num_reviews |-> Count(own),
       num_helpful_votes |-> SumOf(Column("helpful_vote", own), own),
       num_sell_products |-> SumOf(ToInt(Column("verified_purchase", own)), own)] :
     id \in Values("parent_product_id", reviews)}

SubProducts(reviews) ==
  {[parent_product_id |-> id,
    num_sub_products |->
      Cardinality(Values("product_id", Group("parent_product_id", id, reviews)))] :
     id \in Values("parent_product_id", reviews)}

NoReviews == [num_reviews |-> NULL, num_helpful_votes |-> NULL, num_sell_products |-> NULL]
NoSubProducts == [num_sub_products |-> NULL]
NoMetadata == [category |-> NULL, brand |-> NULL]

ProductMetadata(reviews, products) ==
  LET keys == {[parent_product_id |-> id] : id \in ProductKeys(reviews, products)}
      counted == LeftJoin(LeftJoin(keys, ReviewsAgg(reviews), NoReviews),
                          SubProducts(reviews), NoSubProducts)
  IN LeftJoin(counted, products, NoMetadata)

-----------------------------------------------------------------------------
(* generate_data_mart_v2 *)

(* mart_brands and mart_categories *)
GroupedMart(column, metadata) ==
  {LET own == Group(column, name, SetToBag(metadata))
   IN [name |-> name,
       num_reviews |-> SumOf(Column("num_reviews", own), own),
       num_helpful_votes |-> SumOf(Column("num_helpful_votes", own), own),
       num_sell_products |-> SumOf(Column("num_sell_products", own), own)] :
     name \in Values(column, SetToBag(metadata))}

(* Mutant of Verified: what is not known to be unverified counts.          *)
VerifiedOrUnknown(reviews) ==
  Restrict(reviews, {r \in BagToSet(reviews) : r.verified_purchase # FALSE})

Verified(reviews) == Group("verified_purchase", TRUE, reviews)

ProductsMart(reviews) ==
  {LET own == Group("product_id", id, reviews)
   IN [product_id |-> id,
       num_reviews |-> Count(own),
       num_helpful_votes |-> SumOf(Column("helpful_vote", own), own),
       num_sell_products |-> Count(Verified(own))] :
     id \in Values("product_id", reviews)}

(* Mutant of TopOf: the struct has its columns the other way round.        *)
TopOfSwapped(bought) == Max(Values("parent_product_id", bought))

Times(id, bought) == Count(Group("parent_product_id", id, bought))

(* max(struct(num_buy_products, parent_product_id)) of what a user bought *)
TopOf(bought) ==
  LET ids == Values("parent_product_id", bought)
      most == Max({Times(id, bought) : id \in ids})
  IN Max({id \in ids : Times(id, bought) = most})

(* Two inner joins: the user's top product with its row in the metadata,   *)
(* and that with the user's reviews.                                       *)
UsersMart(reviews, metadata) ==
  UNION {LET own == Group("user_id", user, reviews)
         IN {[user_id |-> user,
              num_reviews |-> Count(own),
              num_helpful_votes |-> SumOf(Column("helpful_vote", own), own),
              num_buy_products |-> Count(Verified(own)),
              top_brand |-> m.brand, top_category |-> m.category] :
               m \in {x \in metadata : x.parent_product_id = TopOf(Verified(own))}} :
           user \in Values("user_id", Verified(reviews))}

Marts(reviews, metadata) ==
  [parent_products |-> Without({"category", "brand"}, metadata),
   brands |-> GroupedMart("brand", metadata),
   products |-> ProductsMart(reviews),
   categories |-> GroupedMart("category", metadata),
   users |-> UsersMart(reviews, metadata)]

NoMarts == [parent_products |-> {}, brands |-> {}, products |-> {},
            categories |-> {}, users |-> {}]

-----------------------------------------------------------------------------
TransformsInit ==
  /\ stage = "files"
  /\ review_file = EmptyBag /\ metadata_file = EmptyBag
  /\ delta_reviews = EmptyBag /\ delta_metadata = EmptyBag
  /\ merge_reviews = EmptyBag /\ merge_metadata = {}
  /\ marts = NoMarts

(* The files are uploaded before the first job reads them. *)
AddReview(r) ==
  /\ stage = "files"
  /\ Count(review_file) < MaxReviews
  /\ review_file' = review_file (+) SetToBag({r})
  /\ UNCHANGED <<stage, metadata_file, delta, merge, marts>>

AddMetadata(m) ==
  /\ stage = "files"
  /\ Count(metadata_file) < MaxMetadata
  /\ metadata_file' = metadata_file (+) SetToBag({m})
  /\ UNCHANGED <<stage, review_file, delta, merge, marts>>

RawToDelta ==
  /\ stage = "files"
  /\ stage' = "delta"
  /\ delta_reviews' = CleanReviews(review_file)
  /\ delta_metadata' = CleanMetadata(metadata_file)
  /\ UNCHANGED <<files, merge, marts>>

MergeToDelta ==
  /\ stage = "delta"
  /\ stage' = "merge"
  /\ merge_reviews' = Select(SelectedColumns, delta_reviews)
  /\ \E products \in Deduplicated(BrandedProducts(delta_metadata)) :
       merge_metadata' = ProductMetadata(merge_reviews', products)
  /\ UNCHANGED <<files, delta, marts>>

DataMarts ==
  /\ stage = "merge"
  /\ stage' = "marts"
  /\ marts' = Marts(merge_reviews, merge_metadata)
  /\ UNCHANGED <<files, delta, merge>>

TransformsNext ==
  \/ \E r \in RawReviews : AddReview(r)
  \/ \E m \in RawMetadata : AddMetadata(m)
  \/ RawToDelta
  \/ MergeToDelta
  \/ DataMarts

TransformsSpec == TransformsInit /\ [][TransformsNext]_transforms

-----------------------------------------------------------------------------
(* The tables are bags of rows of the files, and no key of a grouping or a *)
(* join is null.                                                           *)
TransformsTypeOK ==
  /\ stage \in {"files", "delta", "merge", "marts"}
  /\ IsABag(review_file) /\ BagToSet(review_file) \subseteq RawReviews
  /\ IsABag(metadata_file)
  /\ BagToSet(metadata_file) \subseteq RawMetadata
  /\ \A r \in BagToSet(delta_reviews) : \A c \in Required : r[c] # NULL
  /\ \A m \in BagToSet(delta_metadata) : \A c \in RequiredOfMetadata : m[c] # NULL
  /\ \A r \in BagToSet(merge_reviews) \cup merge_metadata : r.parent_product_id # NULL

(* The merged metadata has exactly one row for each product that has a     *)
(* review or a brand, however many rows the two files have for it: none of *)
(* the three joins loses or multiplies a product                           *)
(* (convert_merge2delta_v2.py:56-89).                                      *)
ProductsOnce ==
  stage \in {"merge", "marts"} =>
    \A id \in Values("parent_product_id", review_file)
             \cup Values("parent_product_id", metadata_file) :
      Cardinality({m \in merge_metadata : m.parent_product_id = id}) =
        IF \/ \E r \in BagToSet(delta_reviews) : r.parent_product_id = id
           \/ \E m \in BagToSet(delta_metadata) :
                m.parent_product_id = id /\ Coalesce(m.brand, m.store) # NULL
        THEN 1 ELSE 0

(* The sum of a column, no row counting as zero. *)
Total(column, rows) == SumFunction([r \in rows |-> Coalesce(r[column], 0)])

(* Every review that could be cleaned is counted once by product and once  *)
(* by parent product, and so is every verified purchase, although the two  *)
(* jobs count purchases in different ways                                  *)
(* (convert_merge2delta_v2.py:71, generate_data_mart_v2.py:79-81).         *)
ReviewsConserved ==
  stage = "marts" =>
    /\ Total("num_reviews", marts.parent_products) = Count(delta_reviews)
    /\ Total("num_reviews", marts.products) = Count(delta_reviews)
    /\ \A column \in {"num_helpful_votes", "num_sell_products"} :
         Total(column, marts.parent_products) = Total(column, marts.products)

(* The brands and the categories count the same reviews: those of the      *)
(* products that have a brand or a store.  A review of any other product   *)
(* is in neither mart (generate_data_mart_v2.py:54-100).                   *)
BrandsMatchCategories ==
  stage = "marts" =>
    \A column \in {"num_reviews", "num_helpful_votes", "num_sell_products"} :
      Total(column, marts.brands) = Total(column, marts.categories)

(* Every user with a verified purchase is in mart_users once, also when    *)
(* nothing but reviews is known of the product bought most, and the        *)
(* purchases of the users are those of the products                        *)
(* (generate_data_mart_v2.py:131-157).                                     *)
BuyersOnce ==
  stage = "marts" =>
    /\ \A user \in Values("user_id", review_file) :
         Cardinality({u \in marts.users : u.user_id = user}) =
           IF \E r \in BagToSet(delta_reviews) : r.user_id = user /\ r.verified_purchase = TRUE
           THEN 1 ELSE 0
    /\ Total("num_buy_products", marts.users) = Total("num_sell_products", marts.products)

(* The brand of a user is that of a product no other product was bought    *)
(* more often than (generate_data_mart_v2.py:115-143).                     *)
TopBrandIsMostBought ==
  stage = "marts" =>
    \A u \in marts.users :
      \E m \in merge_metadata :
        LET bought(id) == Times(id, Group("user_id", u.user_id, Verified(delta_reviews)))
        IN /\ m.brand = u.top_brand /\ m.category = u.top_category
           /\ \A r \in BagToSet(delta_reviews) :
                bought(m.parent_product_id) >= bought(r.parent_product_id)

(* Which row of a product dropDuplicates keeps is not determined, and may  *)
(* differ from one evaluation to the next.  It decides which brand and     *)
(* category a product and its buyers get, but neither what is listed in    *)
(* the marts of products and users nor any number in them, and not how     *)
(* much the brands count together (convert_merge2delta_v2.py:56).          *)
ChoiceOnlyNames ==
  stage = "marts" =>
    \A products \in Deduplicated(BrandedProducts(delta_metadata)) :
      LET other == Marts(merge_reviews, ProductMetadata(merge_reviews, products))
          named == {"top_brand", "top_category"}
      IN /\ other.parent_products = marts.parent_products
         /\ Without(named, other.users) = Without(named, marts.users)
         /\ \A column \in {"num_reviews", "num_helpful_votes", "num_sell_products"} :
              Total(column, other.brands) = Total(column, marts.brands)
=============================================================================
