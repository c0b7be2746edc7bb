-------------------------- MODULE TransformsProofs --------------------------
(***************************************************************************)
(* Proofs about Transforms: what the batch jobs compute, for all files.    *)
(***************************************************************************)
EXTENDS Transforms, SumTheorems

FiniteBag(rows) == IsABag(rows) /\ IsFiniteSet(BagToSet(rows))
Number == Int \cup {NULL}

-----------------------------------------------------------------------------
(* Bags *)

LEMMA BagRows ==
  ASSUME NEW rows, FiniteBag(rows)
  PROVE  /\ IsFiniteSet(DOMAIN rows)
         /\ \A r \in DOMAIN rows : rows[r] \in Nat /\ rows[r] > 0
         /\ rows = [r \in DOMAIN rows |-> rows[r]]
BY DEF FiniteBag, IsABag, BagToSet

(* A part of a table is a table, and its rows are counted in the whole. *)
LEMMA PartOfBag ==
  ASSUME NEW rows, FiniteBag(rows), NEW T \in SUBSET DOMAIN rows
  PROVE  /\ FiniteBag(Restrict(rows, T))
         /\ DOMAIN Restrict(rows, T) = T
         /\ \A r \in T : Restrict(rows, T)[r] = rows[r]
         /\ Count(Restrict(rows, T)) = SumFunctionOnSet(rows, T)
<1> DEFINE part == Restrict(rows, T)
<1>1. DOMAIN part = T /\ \A r \in T : part[r] = rows[r]
  BY DEF Restrict
<1>2. IsFiniteSet(T)
  BY BagRows, FS_Subset
<1>3. FiniteBag(part)
  <2>1. part \in [T -> {n \in Nat : n > 0}]
    BY BagRows DEF Restrict
  <2> QED
    BY <1>1, <1>2, <2>1 DEF FiniteBag, IsABag, BagToSet
<1>4. SumFunctionOnSet(part, T) = SumFunctionOnSet(rows, T)
  <2>1. \A r \in T : part[r] \in Int /\ part[r] = rows[r]
    BY <1>1, BagRows
  <2> HIDE DEF part
  <2> QED
    BY <1>2, <2>1, SumSame
<1> QED
  BY <1>1, <1>3, <1>4 DEF Count, SumFunction

RowsWith(c, x, rows) == {r \in DOMAIN rows : r[c] = x}

LEMMA GroupIsPart ==
  ASSUME NEW rows, FiniteBag(rows), NEW c, NEW x
  PROVE  /\ FiniteBag(Group(c, x, rows))
         /\ DOMAIN Group(c, x, rows) = RowsWith(c, x, rows)
         /\ \A r \in RowsWith(c, x, rows) : Group(c, x, rows)[r] = rows[r]
         /\ Count(Group(c, x, rows)) = SumFunctionOnSet(rows, RowsWith(c, x, rows))
<1>1. Group(c, x, rows) = Restrict(rows, RowsWith(c, x, rows))
  BY DEF Group, BagToSet, RowsWith
<1>2. RowsWith(c, x, rows) \in SUBSET DOMAIN rows
  BY DEF RowsWith
<1> QED
  BY <1>1, <1>2, PartOfBag

(* SUM, with nothing for 0. *)
LEMMA SumOfValue ==
  ASSUME NEW rows, FiniteBag(rows), NEW column, \A r \in DOMAIN rows : column[r] \in Number
  PROVE  /\ SumOf(column, rows) \in Number
         /\ Coalesce(SumOf(column, rows), 0) =
              SumFunctionOnSet([r \in DOMAIN rows |-> Coalesce(column[r], 0) * rows[r]],
                               DOMAIN rows)
<1> DEFINE D == DOMAIN rows
           known == {r \in D : column[r] # NULL}
           f == [r \in D |-> Coalesce(column[r], 0) * rows[r]]
           g == [r \in known |-> column[r] * rows[r]]
<1>0. NULL \notin Int
  BY TransformsAssumption
<1>1. \A r \in D : Coalesce(column[r], 0) \in Int /\ rows[r] \in Int
  BY BagRows DEF Coalesce, Number
<1>2. \A r \in D : f[r] \in Int
  BY <1>1
<1>3. \A r \in known : f[r] = g[r]
  BY DEF Coalesce
<1>4. \A r \in D \ known : f[r] = 0
  <2>1. \A r \in D \ known : Coalesce(column[r], 0) = 0
    BY DEF Coalesce
  <2> QED
    BY <1>1, <2>1
<1>5. IsFiniteSet(D) /\ IsFiniteSet(known) /\ known \in SUBSET D
  BY BagRows, FS_Subset
<1>6. SumOf(column, rows) = IF known = {} THEN NULL ELSE SumFunctionOnSet(g, known)
  BY DEF SumOf, SumFunction, BagToSet
<1> HIDE DEF f, g, known, D
<1>7. SumFunctionOnSet(f, D) = SumFunctionOnSet(f, known)
  BY <1>2, <1>4, <1>5, SumSupport
<1>8. SumFunctionOnSet(f, known) = SumFunctionOnSet(g, known)
  BY <1>2, <1>3, <1>5, SumSame
<1>9. SumFunctionOnSet(f, D) \in Int
  BY <1>2, <1>5, SumInt
<1>10. Coalesce(SumOf(column, rows), 0) = SumFunctionOnSet(f, D) /\ SumOf(column, rows) \in Number
  <2>1. CASE known = {}
    BY <1>6, <1>7, <2>1, SumEmpty DEF Coalesce, Number
  <2>2. CASE known # {}
    <3>1. SumOf(column, rows) = SumFunctionOnSet(f, D)
      BY <1>6, <1>7, <1>8, <2>2
    <3> QED
      BY <1>0, <1>9, <3>1 DEF Coalesce, Number
  <2> QED
    BY <2>1, <2>2
<1> QED
  BY <1>10 DEF f, D

(* The rows of Select are parts of the rows of the table, and count what   *)
(* they are parts of.                                                      *)
Selected(columns, r) == [c \in columns |-> r[c]]
Sources(columns, s, rows) == {r \in DOMAIN rows : Selected(columns, r) = s}

LEMMA SelectIsBag ==
  ASSUME NEW rows, FiniteBag(rows), NEW columns
  PROVE  /\ FiniteBag(Select(columns, rows))
         /\ DOMAIN Select(columns, rows) = {Selected(columns, r) : r \in DOMAIN rows}
         /\ \A s \in DOMAIN Select(columns, rows) :
              Select(columns, rows)[s] = SumFunctionOnSet(rows, Sources(columns, s, rows))
<1> DEFINE D == DOMAIN rows
           of == [r \in D |-> Selected(columns, r)]
           R == {of[r] : r \in D}
           From(s) == Sources(columns, s, rows)
           picked == Select(columns, rows)
<1>1. picked = [s \in R |-> SumFunctionOnSet(rows, From(s))]
  BY DEF Select, Sources, Selected, Range, BagToSet
<1>2. IsFiniteSet(R)
  <2>1. IsFiniteSet(D)
    BY BagRows
  <2> HIDE DEF D, of
  <2> QED
    BY <2>1, ImageFinite
<1>3. ASSUME NEW s \in R PROVE SumFunctionOnSet(rows, From(s)) \in {n \in Nat : n > 0}
  <2>1. PICK r \in D : of[r] = s
    OBVIOUS
  <2>2. IsFiniteSet(From(s)) /\ r \in From(s) /\ From(s) \subseteq D
    BY <2>1, BagRows, FS_Subset DEF Sources
  <2>3. \A x \in From(s) : rows[x] \in Nat /\ rows[x] > 0
    BY <2>2, BagRows
  <2> HIDE DEF From
  <2>4. SumFunctionOnSet(rows, From(s)) = rows[r] + SumFunctionOnSet(rows, From(s) \ {r})
    BY <2>2, <2>3, SumRemove
  <2>5. SumFunctionOnSet(rows, From(s) \ {r}) \in Nat
    BY <2>2, <2>3, FS_Subset, SumNat
  <2> QED
    BY <2>2, <2>3, <2>4, <2>5
<1>4. \A r \in D : of[r] = Selected(columns, r)
  OBVIOUS
<1> HIDE DEF picked, From, of
<1>5. DOMAIN picked = R /\ \A s \in R : picked[s] = SumFunctionOnSet(rows, From(s))
  BY <1>1
<1>6. picked \in [R -> {n \in Nat : n > 0}]
  BY <1>1, <1>3
<1>7. FiniteBag(picked)
  BY <1>2, <1>5, <1>6 DEF FiniteBag, IsABag, BagToSet
<1>8. R = {Selected(columns, r) : r \in D}
  BY <1>4
<1> QED
  BY <1>5, <1>7, <1>8 DEF picked, From

(* Whatever set of the picked rows is counted, it is the count of the rows *)
(* they come from.                                                         *)
LEMMA SelectCounts ==
  ASSUME NEW rows, FiniteBag(rows), NEW columns, NEW Q \in SUBSET DOMAIN Select(columns, rows)
  PROVE  SumFunctionOnSet(Select(columns, rows), Q) =
           SumFunctionOnSet(rows, {r \in DOMAIN rows : Selected(columns, r) \in Q})
<1> DEFINE picked == Select(columns, rows)
           D == {r \in DOMAIN rows : Selected(columns, r) \in Q}
           of == [r \in DOMAIN rows |-> Selected(columns, r)]
           sums == [s \in Q |-> SumFunctionOnSet(rows, {r \in D : of[r] = s})]
<1>1. FiniteBag(picked) /\ IsFiniteSet(Q) /\ IsFiniteSet(D)
  <2>1. FiniteBag(picked)
    BY SelectIsBag
  <2> HIDE DEF picked
  <2>2. Q \subseteq DOMAIN picked
    BY DEF picked
  <2> QED
    BY <2>1, <2>2, BagRows, FS_Subset
<1>2. \A s \in Q : sums[s] = picked[s]
  <2> SUFFICES ASSUME NEW s \in Q PROVE sums[s] = picked[s]
    OBVIOUS
  <2>1. {r \in D : of[r] = s} = Sources(columns, s, rows)
    BY DEF Sources
  <2>2. sums[s] = SumFunctionOnSet(rows, Sources(columns, s, rows))
    BY <2>1
  <2>3. s \in DOMAIN Select(columns, rows)
    OBVIOUS
  <2>4. Select(columns, rows)[s] =
          SumFunctionOnSet(rows, Sources(columns, s, rows))
    BY <2>3, SelectIsBag
  <2> QED
    BY <2>2, <2>4
<1>3. \A s \in Q : picked[s] \in Int
  BY <1>1, BagRows
<1>4. SumFunctionOnSet(picked, Q) = SumFunctionOnSet(sums, Q)
  <2> HIDE DEF sums, picked
  <2> QED
    BY <1>1, <1>2, <1>3, SumSame
<1>5. SumFunctionOnSet(rows, D) = SumFunctionOnSet(sums, Q)
  <2>1. \A r \in D : rows[r] \in Int /\ of[r] \in Q
    BY BagRows
  <2> HIDE DEF D, of
  <2> QED
    BY <1>1, <2>1, SumByKey
<1> QED
  BY <1>4, <1>5

-----------------------------------------------------------------------------
(* Tables of reviews, and what a review adds to a number of a mart *)

ReviewTable(rows) ==
  /\ FiniteBag(rows)
  /\ \A r \in DOMAIN rows :
       /\ r["user_id"] # NULL /\ r["product_id"] # NULL /\ r["parent_product_id"] \in Int
       /\ r["helpful_vote"] \in Number /\ r["verified_purchase"] \in BOOLEAN \cup {NULL}

Numbers == {"num_reviews", "num_helpful_votes", "num_sell_products"}

ShareOf(column, r) ==
  IF column = "num_reviews" THEN 1
  ELSE IF column = "num_helpful_votes" THEN Coalesce(r["helpful_vote"], 0)
  ELSE IF r["verified_purchase"] = TRUE THEN 1 ELSE 0

Share(column, rows) == [r \in DOMAIN rows |-> ShareOf(column, r) * rows[r]]

LEMMA ShareInt ==
  ASSUME NEW rows, ReviewTable(rows), NEW column
  PROVE  /\ \A r \in DOMAIN rows : Share(column, rows)[r] \in Int
         /\ \A r \in DOMAIN rows : Share("num_reviews", rows)[r] = rows[r]
<1>1. \A r \in DOMAIN rows : rows[r] \in Int
  BY BagRows DEF ReviewTable
<1>2. \A r \in DOMAIN rows : Coalesce(r["helpful_vote"], 0) \in Int
  BY DEF ReviewTable, Coalesce, Number
<1>3. \A r \in DOMAIN rows : ShareOf(column, r) \in Int
  BY <1>2 DEF ShareOf
<1> QED
  BY <1>1, <1>3 DEF Share, ShareOf

LEMMA GroupOfReviews ==
  ASSUME NEW rows, ReviewTable(rows), NEW c, NEW x
  PROVE  ReviewTable(Group(c, x, rows))
<1>1. FiniteBag(rows)
  BY DEF ReviewTable
<1>2. FiniteBag(Group(c, x, rows)) /\ DOMAIN Group(c, x, rows) = RowsWith(c, x, rows)
  BY <1>1, GroupIsPart
<1>3. RowsWith(c, x, rows) \subseteq DOMAIN rows
  BY DEF RowsWith
<1> QED
  BY <1>2, <1>3 DEF ReviewTable

(* What the aggregates of a table of reviews come to. *)
LEMMA Aggregates ==
  ASSUME NEW rows, ReviewTable(rows)
  PROVE  LET total(column) == SumFunctionOnSet(Share(column, rows), DOMAIN rows)
             votes == SumOf(Column("helpful_vote", rows), rows)
             sold == SumOf(ToInt(Column("verified_purchase", rows)), rows)
         IN  /\ Count(rows) = total("num_reviews") /\ Count(rows) \in Int
             /\ Coalesce(votes, 0) = total("num_helpful_votes") /\ votes \in Number
             /\ Coalesce(sold, 0) = total("num_sell_products") /\ sold \in Number
             /\ Count(Verified(rows)) = total("num_sell_products")
<1> DEFINE D == DOMAIN rows
           votes == SumOf(Column("helpful_vote", rows), rows)
           sold == SumOf(ToInt(Column("verified_purchase", rows)), rows)
<1>0. FiniteBag(rows) /\ IsFiniteSet(D) /\ \A r \in D : rows[r] \in Int
  BY BagRows DEF ReviewTable
<1>1. Count(rows) = SumFunctionOnSet(Share("num_reviews", rows), D) /\ Count(rows) \in Int
  <2>1. SumFunctionOnSet(Share("num_reviews", rows), D) = SumFunctionOnSet(rows, D)
    BY <1>0, ShareInt, SumSame
  <2>2. SumFunctionOnSet(rows, D) \in Int
    BY <1>0, SumInt
  <2> QED
    BY <2>1, <2>2 DEF Count, SumFunction
<1>2. Coalesce(votes, 0) = SumFunctionOnSet(Share("num_helpful_votes", rows), D) /\ votes \in Number
  <2> DEFINE column == Column("helpful_vote", rows)
  <2>1. \A r \in D : column[r] = r["helpful_vote"]
    BY DEF Column, BagToSet
  <2>2. \A r \in D : column[r] \in Number
    BY <2>1 DEF ReviewTable
  <2>3. [r \in D |-> Coalesce(column[r], 0) * rows[r]] = Share("num_helpful_votes", rows)
    BY <2>1 DEF Share, ShareOf
  <2> HIDE DEF column
  <2>4. Coalesce(SumOf(column, rows), 0) =
          SumFunctionOnSet([r \in D |-> Coalesce(column[r], 0) * rows[r]], D)
    BY <1>0, <2>2, SumOfValue
  <2>5. SumOf(column, rows) \in Number
    BY <1>0, <2>2, SumOfValue
  <2> QED
    BY <2>3, <2>4, <2>5 DEF column
<1>3. Coalesce(sold, 0) = SumFunctionOnSet(Share("num_sell_products", rows), D) /\ sold \in Number
  <2> DEFINE column == ToInt(Column("verified_purchase", rows))
  <2>1. \A r \in D : column[r] = IF r["verified_purchase"] = TRUE THEN 1
                                ELSE IF r["verified_purchase"] = FALSE THEN 0 ELSE NULL
    BY DEF Column, ToInt, BagToSet
  <2>2. \A r \in D : column[r] \in Number
    BY <2>1 DEF Number
  <2>3. \A r \in D : Coalesce(column[r], 0) = ShareOf("num_sell_products", r)
    BY <2>1, TransformsAssumption DEF ShareOf, Coalesce
  <2>4. [r \in D |-> Coalesce(column[r], 0) * rows[r]] = Share("num_sell_products", rows)
    BY <2>3 DEF Share
  <2> HIDE DEF column
  <2>5. Coalesce(SumOf(column, rows), 0) =
          SumFunctionOnSet([r \in D |-> Coalesce(column[r], 0) * rows[r]], D)
    BY <1>0, <2>2, SumOfValue
  <2>6. SumOf(column, rows) \in Number
    BY <1>0, <2>2, SumOfValue
  <2> QED
    BY <2>4, <2>5, <2>6 DEF column
<1>4. Count(Verified(rows)) = SumFunctionOnSet(Share("num_sell_products", rows), D)
  <2> DEFINE T == RowsWith("verified_purchase", TRUE, rows)
             share == Share("num_sell_products", rows)
  <2>1. Count(Verified(rows)) = SumFunctionOnSet(rows, T)
    BY <1>0, GroupIsPart DEF Verified
  <2>2. T \in SUBSET D
    BY DEF RowsWith
  <2>3. \A r \in T : ShareOf("num_sell_products", r) = 1
    BY DEF RowsWith, ShareOf
  <2>4. \A r \in D \ T : ShareOf("num_sell_products", r) = 0
    BY DEF RowsWith, ShareOf
  <2>5. \A r \in D : share[r] \in Int /\ share[r] = ShareOf("num_sell_products", r) * rows[r]
    BY ShareInt DEF Share
  <2> HIDE DEF T, share
  <2>6. \A r \in T : share[r] = rows[r]
    BY <1>0, <2>2, <2>3, <2>5
  <2>7. \A r \in D \ T : share[r] = 0
    BY <1>0, <2>4, <2>5
  <2>8. SumFunctionOnSet(share, D) = SumFunctionOnSet(share, T)
    BY <1>0, <2>2, <2>5, <2>7, SumSupport
  <2>9. SumFunctionOnSet(share, T) = SumFunctionOnSet(rows, T)
    BY <1>0, <2>2, <2>5, <2>6, FS_Subset, SumSame
  <2> QED
    BY <2>1, <2>8, <2>9 DEF share
<1> QED
  BY <1>1, <1>2, <1>3, <1>4

(* The shares of a group are those of its rows in the whole table. *)
LEMMA SharesOfGroup ==
  ASSUME NEW rows, ReviewTable(rows), NEW c, NEW x, NEW column
  PROVE  SumFunctionOnSet(Share(column, Group(c, x, rows)), DOMAIN Group(c, x, rows)) =
           SumFunctionOnSet(Share(column, rows), RowsWith(c, x, rows))
<1> DEFINE own == Group(c, x, rows)
           T == RowsWith(c, x, rows)
<1>1. ReviewTable(own) /\ DOMAIN own = T /\ \A r \in T : own[r] = rows[r]
  BY GroupOfReviews, GroupIsPart DEF ReviewTable
<1>2. T \subseteq DOMAIN rows
  BY DEF RowsWith
<1> HIDE DEF own, T
<1>3. \A r \in T : Share(column, own)[r] \in Int
  BY <1>1, ShareInt
<1>4. \A r \in T : Share(column, own)[r] = Share(column, rows)[r]
  BY <1>1, <1>2 DEF Share
<1>5. IsFiniteSet(T)
  BY <1>1, BagRows DEF ReviewTable
<1>6. SumFunctionOnSet(Share(column, own), T) = SumFunctionOnSet(Share(column, rows), T)
  BY <1>3, <1>4, <1>5, SumSame
<1> QED
  BY <1>1, <1>6 DEF own, T

LEMMA CleanedReviews ==
  ASSUME NEW file, FiniteBag(file), DOMAIN file \subseteq RawReviews
  PROVE  /\ ReviewTable(CleanReviews(file))
         /\ DOMAIN CleanReviews(file) = {r \in DOMAIN file : \A c \in Required : r[c] # NULL}
<1> DEFINE T == {r \in DOMAIN file : \A c \in Required : r[c] # NULL}
<1>1. CleanReviews(file) = Restrict(file, T)
  BY DEF CleanReviews, BagToSet
<1>2. ASSUME NEW r \in T
      PROVE  /\ r["user_id"] # NULL /\ r["product_id"] # NULL /\ r["parent_product_id"] \in Int
             /\ r["helpful_vote"] \in Number /\ r["verified_purchase"] \in BOOLEAN \cup {NULL}
  <2>1. r["user_id"] # NULL /\ r["product_id"] # NULL /\ r["parent_product_id"] # NULL
    BY DEF Required
  <2>2. r \in RawReviews
    OBVIOUS
  <2>3. r["parent_product_id"] \in Int \cup {NULL} /\ r["helpful_vote"] \in Int \cup {NULL}
    BY <2>2, TransformsAssumption
  <2>4. r["verified_purchase"] \in BOOLEAN \cup {NULL}
    BY <2>2, TransformsAssumption
  <2> QED
    BY <2>1, <2>3, <2>4 DEF Number
<1>3. T \in SUBSET DOMAIN file
  OBVIOUS
<1> HIDE DEF T
<1>4. FiniteBag(CleanReviews(file)) /\ DOMAIN CleanReviews(file) = T
  BY <1>1, <1>3, PartOfBag
<1>5. ReviewTable(CleanReviews(file))
  BY <1>2, <1>4 DEF ReviewTable
<1> QED
  BY <1>4, <1>5 DEF T

(* A review keeps the selected columns. *)
LEMMA SelectedColumnsKept ==
  ASSUME NEW r
  PROVE  \A c \in SelectedColumns : Selected(SelectedColumns, r)[c] = r[c]
BY DEF Selected

LEMMA SelectedReviews ==
  ASSUME NEW rows, ReviewTable(rows)
  PROVE  ReviewTable(Select(SelectedColumns, rows))
<1>1. FiniteBag(rows)
  BY DEF ReviewTable
<1> DEFINE picked == Select(SelectedColumns, rows)
<1>2. FiniteBag(picked) /\ DOMAIN picked = {Selected(SelectedColumns, r) : r \in DOMAIN rows}
  BY <1>1, SelectIsBag
<1> HIDE DEF picked
<1>3. ASSUME NEW s \in DOMAIN picked
      PROVE  /\ s["user_id"] # NULL /\ s["product_id"] # NULL /\ s["parent_product_id"] \in Int
             /\ s["helpful_vote"] \in Number /\ s["verified_purchase"] \in BOOLEAN \cup {NULL}
  <2>1. PICK r \in DOMAIN rows : s = Selected(SelectedColumns, r)
    BY <1>2
  <2>2. /\ s["user_id"] = r["user_id"] /\ s["product_id"] = r["product_id"]
        /\ s["parent_product_id"] = r["parent_product_id"]
        /\ s["helpful_vote"] = r["helpful_vote"]
        /\ s["verified_purchase"] = r["verified_purchase"]
    BY <2>1, SelectedColumnsKept DEF SelectedColumns
  <2> QED
    BY <2>2 DEF ReviewTable
<1> QED
  BY <1>2, <1>3 DEF ReviewTable, picked

(* Nothing is lost when columns are selected. *)
LEMMA SelectKeepsCount ==
  ASSUME NEW rows, FiniteBag(rows), NEW columns
  PROVE  Count(Select(columns, rows)) = Count(rows)
<1> DEFINE Q == DOMAIN Select(columns, rows)
<1>1. SumFunctionOnSet(Select(columns, rows), Q) =
        SumFunctionOnSet(rows, {r \in DOMAIN rows : Selected(columns, r) \in Q})
  BY SelectCounts
<1>2. {r \in DOMAIN rows : Selected(columns, r) \in Q} = DOMAIN rows
  BY SelectIsBag
<1> QED
  BY <1>1, <1>2 DEF Count, SumFunction

-----------------------------------------------------------------------------
(* The marts *)

KeysOf(key, rows) == {r[key] : r \in rows}

(* The total of a column over rows with a key. *)
LEMMA TotalByKey ==
  ASSUME NEW rows, IsFiniteSet(rows), NEW column, NEW key, NEW sums,
         \A x, y \in rows : x[key] = y[key] => x = y,
         \A x \in rows : Coalesce(x[column], 0) = sums[x[key]] /\ sums[x[key]] \in Int
  PROVE  Total(column, rows) = SumFunctionOnSet(sums, KeysOf(key, rows))
<1> DEFINE f == [x \in rows |-> Coalesce(x[column], 0)]
           k == [x \in rows |-> x[key]]
           K == KeysOf(key, rows)
<1>1. Total(column, rows) = SumFunctionOnSet(f, rows)
  BY DEF Total, SumFunction
<1>2. \A x \in rows : f[x] \in Int /\ sums[k[x]] = f[x]
  OBVIOUS
<1>3. \A x, y \in rows : k[x] = k[y] => x = y
  OBVIOUS
<1>4. K = {k[x] : x \in rows}
  BY DEF KeysOf
<1> HIDE DEF f, k, K
<1>5. SumFunctionOnSet(f, rows) = SumFunctionOnSet(sums, K)
  BY <1>2, <1>3, <1>4, SumRenamed
<1> QED
  BY <1>1, <1>5 DEF K

SharesBy(c, column, rows, K) ==
  [x \in K |-> SumFunctionOnSet(Share(column, rows), RowsWith(c, x, rows))]

(* All reviews are in the groups. *)
LEMMA SharesByKey ==
  ASSUME NEW rows, ReviewTable(rows), NEW c, NEW column, NEW K, IsFiniteSet(K),
         \A r \in DOMAIN rows : r[c] \in K
  PROVE  SumFunctionOnSet(SharesBy(c, column, rows, K), K) =
           SumFunctionOnSet(Share(column, rows), DOMAIN rows)
<1> DEFINE D == DOMAIN rows
           k == [r \in D |-> r[c]]
           share == Share(column, rows)
<1>1. IsFiniteSet(D) /\ (\A r \in D : share[r] \in Int)
  BY BagRows, ShareInt DEF ReviewTable
<1>2. \A r \in D : k[r] \in K
  OBVIOUS
<1>3. \A x : RowsWith(c, x, rows) = {r \in D : k[r] = x}
  BY DEF RowsWith
<1>4. SharesBy(c, column, rows, K) =
        [x \in K |-> SumFunctionOnSet(share, {r \in D : k[r] = x})]
  BY <1>3 DEF SharesBy
<1> HIDE DEF k, share, D
<1>5. SumFunctionOnSet(share, D) =
        SumFunctionOnSet([x \in K |-> SumFunctionOnSet(share, {r \in D : k[r] = x})], K)
  BY <1>1, <1>2, SumByKey
<1> QED
  BY <1>4, <1>5 DEF share, D

LEMMA SharesByInt ==
  ASSUME NEW rows, ReviewTable(rows), NEW c, NEW column, NEW K, NEW x \in K
  PROVE  SharesBy(c, column, rows, K)[x] \in Int
<1>1. RowsWith(c, x, rows) \subseteq DOMAIN rows /\ IsFiniteSet(DOMAIN rows)
  BY BagRows DEF ReviewTable, RowsWith
<1>2. IsFiniteSet(RowsWith(c, x, rows))
  BY <1>1, FS_Subset
<1>3. \A r \in RowsWith(c, x, rows) : Share(column, rows)[r] \in Int
  BY <1>1, ShareInt
<1>4. SumFunctionOnSet(Share(column, rows), RowsWith(c, x, rows)) \in Int
  BY <1>2, <1>3, SumInt
<1> QED
  BY <1>4 DEF SharesBy

LEMMA ValuesFinite ==
  ASSUME NEW rows, IsFiniteSet(DOMAIN rows), NEW c
  PROVE  /\ IsFiniteSet(Values(c, rows))
         /\ \A r \in DOMAIN rows : r[c] # NULL => r[c] \in Values(c, rows)
         /\ \A x \in Values(c, rows) : \E r \in DOMAIN rows : r[c] = x
<1> DEFINE k == [r \in DOMAIN rows |-> r[c]]
<1>1. IsFiniteSet({k[r] : r \in DOMAIN rows})
  BY ImageFinite
<1>2. Values(c, rows) \subseteq {k[r] : r \in DOMAIN rows}
  BY DEF Values, BagToSet
<1>3. IsFiniteSet(Values(c, rows))
  BY <1>1, <1>2, FS_Subset
<1> QED
  BY <1>3 DEF Values, BagToSet

(* The marts of the products count every review. *)
LEMMA ProductsMartTotal ==
  ASSUME NEW rows, ReviewTable(rows), NEW column \in Numbers
  PROVE  Total(column, ProductsMart(rows)) =
           SumFunctionOnSet(Share(column, rows), DOMAIN rows)
<1> DEFINE K == Values("product_id", rows)
           own(x) == Group("product_id", x, rows)
           row == [x \in K |-> [product_id |-> x, num_reviews |-> Count(own(x)),
                     num_helpful_votes |-> SumOf(Column("helpful_vote", own(x)), own(x)),
                     num_sell_products |-> Count(Verified(own(x)))]]
           sums == SharesBy("product_id", column, rows, K)
           mart == ProductsMart(rows)
<1>1. IsFiniteSet(DOMAIN rows)
  BY BagRows DEF ReviewTable
<1>2. IsFiniteSet(K) /\ \A r \in DOMAIN rows : r["product_id"] \in K
  BY <1>1, ValuesFinite DEF ReviewTable
<1>3. mart = {row[x] : x \in K}
  BY DEF ProductsMart
<1>4. ASSUME NEW x \in K
      PROVE  row[x]["product_id"] = x /\ Coalesce(row[x][column], 0) = sums[x]
  <2> DEFINE group == own(x)
  <2>1. ReviewTable(group)
    BY GroupOfReviews
  <2>2. sums[x] = SumFunctionOnSet(Share(column, group), DOMAIN group)
    BY SharesOfGroup DEF SharesBy
  <2>3. row[x] = [product_id |-> x, num_reviews |-> Count(group),
                  num_helpful_votes |-> SumOf(Column("helpful_vote", group), group),
                  num_sell_products |-> Count(Verified(group))]
    OBVIOUS
  <2> HIDE DEF group, row, sums
  <2>4. /\ Count(group) = SumFunctionOnSet(Share("num_reviews", group), DOMAIN group)
        /\ Count(group) \in Int
        /\ Coalesce(SumOf(Column("helpful_vote", group), group), 0) =
             SumFunctionOnSet(Share("num_helpful_votes", group), DOMAIN group)
        /\ Count(Verified(group)) =
             SumFunctionOnSet(Share("num_sell_products", group), DOMAIN group)
    BY <2>1, Aggregates
  <2>5. Count(Verified(group)) \in Int
    BY <2>1, <2>4, GroupOfReviews, Aggregates DEF Verified
  <2>6. \A n \in Int : Coalesce(n, 0) = n
    BY TransformsAssumption DEF Coalesce
  <2> QED
    BY <2>2, <2>3, <2>4, <2>5, <2>6 DEF Numbers
<1>5. \A x \in K : sums[x] \in Int
  BY SharesByInt
<1> HIDE DEF row, sums, mart, K
<1>6. /\ IsFiniteSet(mart) /\ {m["product_id"] : m \in mart} = K
      /\ \A m, n \in mart : m["product_id"] = n["product_id"] => m = n
  <2>1. \A x \in K : row[x]["product_id"] = x
    BY <1>4
  <2>2. IsFiniteSet(K)
    BY <1>2
  <2>3. IsFiniteSet({row[x] : x \in K})
    BY <2>2, ImageFinite
  <2>4. \A m, n \in mart : m["product_id"] = n["product_id"] => m = n
    BY <1>3, <2>1
  <2>5. {m["product_id"] : m \in mart} = K
    BY <1>3, <2>1
  <2> QED
    BY <1>3, <2>3, <2>4, <2>5
<1>7. \A m \in mart : /\ Coalesce(m[column], 0) = sums[m["product_id"]]
                      /\ sums[m["product_id"]] \in Int
  BY <1>3, <1>4, <1>5
<1>8. Total(column, mart) = SumFunctionOnSet(sums, K)
  <2>1. Total(column, mart) = SumFunctionOnSet(sums, KeysOf("product_id", mart))
    BY <1>6, <1>7, TotalByKey
  <2>2. KeysOf("product_id", mart) = K
    BY <1>6 DEF KeysOf
  <2> QED
    BY <2>1, <2>2
<1>9. SumFunctionOnSet(sums, K) = SumFunctionOnSet(Share(column, rows), DOMAIN rows)
  BY <1>2, SharesByKey DEF sums
<1> QED
  BY <1>8, <1>9 DEF mart

-----------------------------------------------------------------------------
(* Joins on the product *)

Ids(rows) == {m["parent_product_id"] : m \in rows}
Keyed(rows) ==
  /\ \A m \in rows : "parent_product_id" \in DOMAIN m
  /\ \A m, n \in rows : m["parent_product_id"] = n["parent_product_id"] => m = n

LEMMA KeyedFinite ==
  ASSUME NEW rows, Keyed(rows), IsFiniteSet(Ids(rows))
  PROVE  IsFiniteSet(rows)
<1> DEFINE k == [id \in Ids(rows) |-> CHOOSE m \in rows : m["parent_product_id"] = id]
<1>1. \A m \in rows : k[m["parent_product_id"]] = m
  BY DEF Keyed, Ids
<1>2. \A id \in Ids(rows) : k[id] \in rows
  BY DEF Ids
<1> HIDE DEF k
<1>3. rows = {k[id] : id \in Ids(rows)}
  BY <1>1, <1>2 DEF Ids
<1>4. IsFiniteSet({k[id] : id \in Ids(rows)})
  BY ImageFinite
<1> QED
  BY <1>3, <1>4

LEMMA ExtendedRow ==
  ASSUME NEW l, NEW r
  PROVE  /\ DOMAIN Extended(l, r) = DOMAIN l \cup DOMAIN r
         /\ \A c \in DOMAIN l : Extended(l, r)[c] = l[c]
         /\ \A c \in DOMAIN r \ DOMAIN l : Extended(l, r)[c] = r[c]
BY DEF Extended

Same(l, right) == {r \in right : r["parent_product_id"] = l["parent_product_id"]}

(* A left join on a key keeps every row once, and extends it with the row  *)
(* of the other side, or with nulls.                                       *)
LEMMA JoinRows ==
  ASSUME NEW left, NEW right, NEW other, Keyed(left), Keyed(right)
  PROVE  /\ Keyed(LeftJoin(left, right, other))
         /\ Ids(LeftJoin(left, right, other)) = Ids(left)
         /\ \A m \in LeftJoin(left, right, other) : \E l \in left :
              /\ m["parent_product_id"] = l["parent_product_id"]
              /\ \/ \E r \in Same(l, right) : m = Extended(l, r)
                 \/ Same(l, right) = {} /\ m = Extended(l, other)
<1> DEFINE join == LeftJoin(left, right, other)
           Side(l) == IF Same(l, right) = {} THEN {other} ELSE Same(l, right)
<1>1. join = UNION {{Extended(l, r) : r \in Side(l)} : l \in left}
  BY DEF LeftJoin, Same
<1>2. \A m \in join : \E l \in left : \E r \in Side(l) : m = Extended(l, r)
  BY <1>1
<1>3. \A l \in left : \A r \in Side(l) : Extended(l, r) \in join
  BY <1>1
<1>4. ASSUME NEW l \in left, NEW r
      PROVE  /\ Extended(l, r)["parent_product_id"] = l["parent_product_id"]
             /\ "parent_product_id" \in DOMAIN Extended(l, r)
  <2>1. "parent_product_id" \in DOMAIN l
    BY DEF Keyed
  <2> QED
    BY <2>1, ExtendedRow
<1>5. \A l \in left : \A r, s \in Side(l) : r = s
  BY DEF Keyed, Same
<1>6. \A l \in left : Side(l) # {}
  OBVIOUS
<1>7. \A m \in join : \E l \in left :
         /\ m["parent_product_id"] = l["parent_product_id"]
         /\ \/ \E r \in Same(l, right) : m = Extended(l, r)
            \/ Same(l, right) = {} /\ m = Extended(l, other)
  BY <1>2, <1>4
<1> HIDE DEF join, Side
<1>8. Keyed(join)
  BY <1>2, <1>4, <1>5 DEF Keyed
<1>9. Ids(join) = Ids(left)
  <2>1. Ids(join) \subseteq Ids(left)
    BY <1>2, <1>4 DEF Ids
  <2>2. Ids(left) \subseteq Ids(join)
    BY <1>3, <1>4, <1>6 DEF Ids
  <2> QED
    BY <2>1, <2>2
<1> QED
  BY <1>7, <1>8, <1>9 DEF join

-----------------------------------------------------------------------------
(* The merged metadata *)

(* What the reviews of a product add to a number. *)
Sums(column, id, reviews) ==
  SumFunctionOnSet(Share(column, reviews), RowsWith("parent_product_id", id, reviews))

LEMMA AggregatedReviews ==
  ASSUME NEW reviews, ReviewTable(reviews)
  PROVE  LET agg == ReviewsAgg(reviews)
         IN  /\ Keyed(agg) /\ Ids(agg) = Values("parent_product_id", reviews)
             /\ \A q \in agg : DOMAIN q = {"parent_product_id"} \cup Numbers
             /\ \A q \in agg : \A column \in Numbers :
                  /\ q[column] \in Number
                  /\ Coalesce(q[column], 0) = Sums(column, q["parent_product_id"], reviews)
<1> DEFINE K == Values("parent_product_id", reviews)
           own(x) == Group("parent_product_id", x, reviews)
           row(x) == [parent_product_id |-> x, num_reviews |-> Count(own(x)),
                      num_helpful_votes |-> SumOf(Column("helpful_vote", own(x)), own(x)),
                      num_sell_products |->
                        SumOf(ToInt(Column("verified_purchase", own(x))), own(x))]
           agg == ReviewsAgg(reviews)
<1>1. agg = {row(x) : x \in K}
  BY DEF ReviewsAgg
<1>2. \A x : row(x)["parent_product_id"] = x /\ DOMAIN row(x) = {"parent_product_id"} \cup Numbers
  BY DEF Numbers
<1>3. ASSUME NEW x \in K, NEW column \in Numbers
      PROVE  row(x)[column] \in Number /\ Coalesce(row(x)[column], 0) = Sums(column, x, reviews)
  <2> DEFINE group == own(x)
  <2>1. ReviewTable(group)
    BY GroupOfReviews
  <2>2. Sums(column, x, reviews) = SumFunctionOnSet(Share(column, group), DOMAIN group)
    BY SharesOfGroup DEF Sums
  <2>3. row(x) = [parent_product_id |-> x, num_reviews |-> Count(group),
                  num_helpful_votes |-> SumOf(Column("helpful_vote", group), group),
                  num_sell_products |-> SumOf(ToInt(Column("verified_purchase", group)), group)]
    OBVIOUS
  <2> HIDE DEF group, row
  <2>4. /\ Count(group) = SumFunctionOnSet(Share("num_reviews", group), DOMAIN group)
        /\ Count(group) \in Int
        /\ Coalesce(SumOf(Column("helpful_vote", group), group), 0) =
             SumFunctionOnSet(Share("num_helpful_votes", group), DOMAIN group)
        /\ SumOf(Column("helpful_vote", group), group) \in Number
        /\ Coalesce(SumOf(ToInt(Column("verified_purchase", group)), group), 0) =
             SumFunctionOnSet(Share("num_sell_products", group), DOMAIN group)
        /\ SumOf(ToInt(Column("verified_purchase", group)), group) \in Number
    BY <2>1, Aggregates
  <2>5. \A n \in Int : Coalesce(n, 0) = n /\ n \in Number
    BY TransformsAssumption DEF Coalesce, Number
  <2> QED
    BY <2>2, <2>3, <2>4, <2>5 DEF Numbers
<1> HIDE DEF row, agg, K
<1>4. Keyed(agg)
  BY <1>1, <1>2 DEF Keyed
<1>5. Ids(agg) = K
  BY <1>1, <1>2 DEF Ids
<1>6. \A q \in agg : \E x \in K : q = row(x) /\ x = q["parent_product_id"]
  BY <1>1, <1>2
<1>7. \A q \in agg : DOMAIN q = {"parent_product_id"} \cup Numbers
  BY <1>2, <1>6
<1>8. \A q \in agg : \A column \in Numbers :
        /\ q[column] \in Number
        /\ Coalesce(q[column], 0) = Sums(column, q["parent_product_id"], reviews)
  BY <1>3, <1>6
<1> QED
  BY <1>4, <1>5, <1>7, <1>8 DEF agg, K

LEMMA SubProductRows ==
  ASSUME NEW reviews
  PROVE  /\ Keyed(SubProducts(reviews))
         /\ \A q \in SubProducts(reviews) :
              DOMAIN q = {"parent_product_id", "num_sub_products"}
BY DEF SubProducts, Keyed

ProductTable(products) ==
  /\ Keyed(products) /\ IsFiniteSet(products)
  /\ \A p \in products : /\ DOMAIN p = {"parent_product_id", "category", "brand"}
                         /\ p["parent_product_id"] \in Int
                         /\ p["category"] # NULL /\ p["brand"] # NULL

(* Without reviews there is nothing to add. *)
LEMMA NothingAdded ==
  ASSUME NEW reviews, ReviewTable(reviews), NEW id, id \notin Values("parent_product_id", reviews),
         NEW column
  PROVE  Sums(column, id, reviews) = 0
<1>1. IsFiniteSet(DOMAIN reviews)
  BY BagRows DEF ReviewTable
<1>2. \A r \in DOMAIN reviews : r["parent_product_id"] \in Values("parent_product_id", reviews)
  BY <1>1, ValuesFinite, TransformsAssumption DEF ReviewTable
<1>3. RowsWith("parent_product_id", id, reviews) = {}
  BY <1>2 DEF RowsWith
<1> QED
  BY <1>3, SumEmpty DEF Sums

(* The numbers of a row of the metadata, and when it has a brand. *)
MetadataRow(m, reviews) ==
  /\ DOMAIN m = {"parent_product_id", "num_sub_products", "category", "brand"} \cup Numbers
  /\ \A column \in Numbers :
       /\ m[column] \in Number
       /\ Coalesce(m[column], 0) = Sums(column, m["parent_product_id"], reviews)
  /\ m["brand"] = NULL <=> m["category"] = NULL

Counted(m, reviews) ==
  /\ DOMAIN m = {"parent_product_id"} \cup Numbers
  /\ \A column \in Numbers :
       /\ m[column] \in Number
       /\ Coalesce(m[column], 0) = Sums(column, m["parent_product_id"], reviews)

LEMMA CountedRows ==
  ASSUME NEW reviews, ReviewTable(reviews), NEW K
  PROVE  LET keys == {[parent_product_id |-> id] : id \in K}
             counted == LeftJoin(keys, ReviewsAgg(reviews), NoReviews)
         IN  /\ Keyed(counted) /\ Ids(counted) = K
             /\ \A m \in counted : Counted(m, reviews)
<1> DEFINE keys == {[parent_product_id |-> id] : id \in K}
           agg == ReviewsAgg(reviews)
           counted == LeftJoin(keys, agg, NoReviews)
<1>1. Keyed(keys) /\ Ids(keys) = K /\ (\A l \in keys : DOMAIN l = {"parent_product_id"})
  <2> DEFINE key(id) == [parent_product_id |-> id]
  <2>1. \A id : key(id)["parent_product_id"] = id /\ DOMAIN key(id) = {"parent_product_id"}
    OBVIOUS
  <2>2. keys = {key(id) : id \in K}
    OBVIOUS
  <2> HIDE DEF key, keys
  <2>3. Keyed(keys)
    BY <2>1, <2>2 DEF Keyed
  <2>4. Ids(keys) = K
    BY <2>1, <2>2 DEF Ids
  <2> QED
    BY <2>1, <2>2, <2>3, <2>4
<1>2. /\ Keyed(agg) /\ Ids(agg) = Values("parent_product_id", reviews)
      /\ \A q \in agg : DOMAIN q = {"parent_product_id"} \cup Numbers
      /\ \A q \in agg : \A column \in Numbers :
           /\ q[column] \in Number
           /\ Coalesce(q[column], 0) = Sums(column, q["parent_product_id"], reviews)
  BY AggregatedReviews
<1> HIDE DEF keys, agg
<1>3. Keyed(counted) /\ Ids(counted) = K
  BY <1>1, <1>2, JoinRows
<1>4. \A m \in counted : \E l \in keys :
        /\ m["parent_product_id"] = l["parent_product_id"]
        /\ \/ \E r \in Same(l, agg) : m = Extended(l, r)
           \/ Same(l, agg) = {} /\ m = Extended(l, NoReviews)
  BY <1>1, <1>2, JoinRows
<1> HIDE DEF counted
<1>5. ASSUME NEW m \in counted PROVE Counted(m, reviews)
  <2>1. PICK l \in keys :
          /\ m["parent_product_id"] = l["parent_product_id"]
          /\ \/ \E r \in Same(l, agg) : m = Extended(l, r)
             \/ Same(l, agg) = {} /\ m = Extended(l, NoReviews)
    BY <1>4
  <2>2. DOMAIN l = {"parent_product_id"} /\ \A column \in Numbers : column \notin DOMAIN l
    BY <1>1 DEF Numbers
  <2>3. CASE \E r \in Same(l, agg) : m = Extended(l, r)
    <3>1. PICK q \in agg : /\ q["parent_product_id"] = m["parent_product_id"]
                           /\ m = Extended(l, q)
      BY <2>1, <2>3 DEF Same
    <3>2. DOMAIN q = {"parent_product_id"} \cup Numbers
      BY <1>2
    <3>3. DOMAIN m = {"parent_product_id"} \cup Numbers
      BY <2>2, <3>1, <3>2, ExtendedRow
    <3>4. \A column \in Numbers : m[column] = q[column]
      <4>1. \A column \in Numbers : column \in DOMAIN q \ DOMAIN l
        BY <2>2, <3>2
      <4> TAKE column \in Numbers
      <4>2. column \in DOMAIN q /\ column \notin DOMAIN l
        BY <4>1
      <4> QED
        BY <3>1, <4>2 DEF Extended
    <3> QED
      BY <1>2, <3>1, <3>3, <3>4 DEF Counted
  <2>4. CASE Same(l, agg) = {} /\ m = Extended(l, NoReviews)
    <3>1. DOMAIN NoReviews = Numbers /\ \A column \in Numbers : NoReviews[column] = NULL
      BY DEF NoReviews, Numbers
    <3>2. DOMAIN m = {"parent_product_id"} \cup Numbers
      BY <2>2, <2>4, <3>1, ExtendedRow
    <3>3. \A column \in Numbers : m[column] = NULL
      <4>1. \A column \in Numbers : column \in DOMAIN NoReviews \ DOMAIN l
        BY <2>2, <3>1
      <4> TAKE column \in Numbers
      <4>2. column \in DOMAIN NoReviews /\ column \notin DOMAIN l
        BY <4>1
      <4>3. m[column] = NoReviews[column]
        BY <2>4, <4>2 DEF Extended
      <4> QED
        BY <3>1, <4>3
    <3>4. m["parent_product_id"] \notin Ids(agg)
      BY <2>1, <2>4 DEF Ids, Same
    <3>5. \A column \in Numbers : Sums(column, m["parent_product_id"], reviews) = 0
      BY <1>2, <3>4, NothingAdded
    <3> QED
      BY <3>2, <3>3, <3>5 DEF Counted, Number, Coalesce
  <2> QED
    BY <2>1, <2>3, <2>4
<1> QED
  BY <1>3, <1>5 DEF counted, keys, agg

(* The keys with everything that is counted for them, before the brands. *)
Counts(reviews, K) ==
  LET keys == {[parent_product_id |-> id] : id \in K}
      counted == LeftJoin(keys, ReviewsAgg(reviews), NoReviews)
  IN LeftJoin(counted, SubProducts(reviews), NoSubProducts)

Varied(m, reviews) ==
  /\ m = [c \in DOMAIN m |-> m[c]]
  /\ DOMAIN m = {"parent_product_id"} \cup Numbers \cup {"num_sub_products"}
  /\ \A column \in Numbers :
       /\ m[column] \in Number
       /\ Coalesce(m[column], 0) = Sums(column, m["parent_product_id"], reviews)

LEMMA VariedRows ==
  ASSUME NEW reviews, ReviewTable(reviews), NEW K
  PROVE  /\ Keyed(Counts(reviews, K)) /\ Ids(Counts(reviews, K)) = K
         /\ \A m \in Counts(reviews, K) : Varied(m, reviews)
<1> DEFINE keys == {[parent_product_id |-> id] : id \in K}
           counted == LeftJoin(keys, ReviewsAgg(reviews), NoReviews)
           sub == SubProducts(reviews)
           varied == Counts(reviews, K)
<1>1. /\ Keyed(counted) /\ Ids(counted) = K
      /\ \A m \in counted : Counted(m, reviews)
  BY CountedRows
<1>2. Keyed(sub) /\ \A q \in sub : DOMAIN q = {"parent_product_id", "num_sub_products"}
  BY SubProductRows
<1>3. varied = LeftJoin(counted, sub, NoSubProducts)
  BY DEF Counts
<1> HIDE DEF counted, sub, varied
<1>4. Keyed(varied) /\ Ids(varied) = K
  BY <1>1, <1>2, <1>3, JoinRows
<1>5. \A m \in varied : \E l \in counted :
        /\ m["parent_product_id"] = l["parent_product_id"]
        /\ \/ \E r \in Same(l, sub) : m = Extended(l, r)
           \/ Same(l, sub) = {} /\ m = Extended(l, NoSubProducts)
  BY <1>1, <1>2, <1>3, JoinRows
<1>6. ASSUME NEW m \in varied PROVE Varied(m, reviews)
  <2>1. PICK l \in counted : \/ \E r \in sub : m = Extended(l, r)
                             \/ m = Extended(l, NoSubProducts)
    BY <1>5 DEF Same
  <2>2. PICK r : /\ m = Extended(l, r)
                 /\ DOMAIN r \subseteq {"parent_product_id"} \cup {"num_sub_products"}
                 /\ {"num_sub_products"} \subseteq DOMAIN r
    <3>1. DOMAIN NoSubProducts = {"num_sub_products"}
      BY DEF NoSubProducts
    <3> QED
      BY <1>2, <2>1, <3>1
  <2>3. Counted(l, reviews)
    BY <1>1
  <2>4. DOMAIN l = {"parent_product_id"} \cup Numbers
    BY <2>3 DEF Counted
  <2>5. DOMAIN m = DOMAIN l \cup DOMAIN r
    BY <2>2, ExtendedRow
  <2>6. DOMAIN m = {"parent_product_id"} \cup Numbers \cup {"num_sub_products"}
    BY <2>2, <2>4, <2>5
  <2>7. \A c \in {"parent_product_id"} \cup Numbers : m[c] = l[c]
    BY <2>2, <2>4 DEF Extended
  <2>8. m["parent_product_id"] = l["parent_product_id"] /\ \A c \in Numbers : m[c] = l[c]
    BY <2>7
  <2>9. \A column \in Numbers :
          /\ m[column] \in Number
          /\ Coalesce(m[column], 0) = Sums(column, m["parent_product_id"], reviews)
    BY <2>3, <2>8 DEF Counted
  <2>10. m = [c \in DOMAIN m |-> m[c]]
    BY <2>2 DEF Extended
  <2> QED
    BY <2>6, <2>9, <2>10 DEF Varied
<1> QED
  BY <1>4, <1>6 DEF varied

LEMMA MetadataRows ==
  ASSUME NEW reviews, ReviewTable(reviews), NEW products, ProductTable(products)
  PROVE  LET metadata == ProductMetadata(reviews, products)
         IN  /\ Keyed(metadata) /\ Ids(metadata) = ProductKeys(reviews, products)
             /\ \A m \in metadata : MetadataRow(m, reviews)
<1> DEFINE K == ProductKeys(reviews, products)
           varied == Counts(reviews, K)
           metadata == ProductMetadata(reviews, products)
<1>3. metadata = LeftJoin(varied, products, NoMetadata)
  BY DEF ProductMetadata, Counts
<1>4. Keyed(varied) /\ Ids(varied) = K
  BY VariedRows
<1>6. \A m \in varied : Varied(m, reviews)
  BY VariedRows
<1> HIDE DEF varied, metadata
<1>7. Keyed(metadata) /\ Ids(metadata) = K
  BY <1>3, <1>4, JoinRows DEF ProductTable
<1>8. \A m \in metadata : \E l \in varied :
        /\ m["parent_product_id"] = l["parent_product_id"]
        /\ \/ \E r \in Same(l, products) : m = Extended(l, r)
           \/ Same(l, products) = {} /\ m = Extended(l, NoMetadata)
  BY <1>3, <1>4, JoinRows DEF ProductTable
<1>9. ASSUME NEW m \in metadata PROVE MetadataRow(m, reviews)
  <2>1. PICK l \in varied : \/ \E r \in products : m = Extended(l, r)
                            \/ m = Extended(l, NoMetadata)
    BY <1>8 DEF Same
  <2>2. PICK r : /\ m = Extended(l, r)
                 /\ DOMAIN r \subseteq {"parent_product_id", "category", "brand"}
                 /\ {"category", "brand"} \subseteq DOMAIN r
                 /\ r["brand"] = NULL <=> r["category"] = NULL
    <3>1. CASE m = Extended(l, NoMetadata)
      <4>1. /\ DOMAIN NoMetadata = {"category", "brand"}
            /\ NoMetadata["brand"] = NULL /\ NoMetadata["category"] = NULL
        BY DEF NoMetadata
      <4> QED
        BY <3>1, <4>1
    <3>2. CASE \E r \in products : m = Extended(l, r)
      BY <3>2 DEF ProductTable
    <3> QED
      BY <2>1, <3>1, <3>2
  <2>3. Varied(l, reviews)
    BY <1>6
  <2>4. DOMAIN l = {"parent_product_id", "num_sub_products"} \cup Numbers
    BY <2>3 DEF Varied
  <2>5. "category" \notin DOMAIN l /\ "brand" \notin DOMAIN l
    BY <2>4 DEF Numbers
  <2>6. DOMAIN m = {"parent_product_id", "num_sub_products", "category", "brand"} \cup Numbers
    BY <2>2, <2>4, ExtendedRow
  <2>7. \A c \in {"parent_product_id"} \cup Numbers : m[c] = l[c]
    BY <2>2, <2>4 DEF Extended
  <2>8. m["brand"] = r["brand"] /\ m["category"] = r["category"]
    BY <2>2, <2>5 DEF Extended
  <2> QED
    BY <2>2, <2>3, <2>6, <2>7, <2>8 DEF MetadataRow, Varied
<1> QED
  BY <1>7, <1>9 DEF metadata

(* A product has a brand in the merged metadata when one of its rows had   *)
(* one; which row was kept shows in nothing but the brand and category.    *)
LEMMA NamedRows ==
  ASSUME NEW reviews, ReviewTable(reviews), NEW products, ProductTable(products)
  PROVE  /\ \A m \in ProductMetadata(reviews, products) :
              m["brand"] # NULL <=> m["parent_product_id"] \in Ids(products)
         /\ Without({"category", "brand"}, ProductMetadata(reviews, products)) =
              Counts(reviews, ProductKeys(reviews, products))
<1> DEFINE K == ProductKeys(reviews, products)
           varied == Counts(reviews, K)
           metadata == ProductMetadata(reviews, products)
           bare(m) == [c \in DOMAIN m \ {"category", "brand"} |-> m[c]]
<1>1. metadata = LeftJoin(varied, products, NoMetadata)
  BY DEF ProductMetadata, Counts
<1>2. Keyed(varied) /\ Ids(varied) = K /\ \A l \in varied : Varied(l, reviews)
  BY VariedRows
<1>3. Ids(metadata) = K
  BY MetadataRows
<1> HIDE DEF varied, metadata, bare
<1>4. \A m \in metadata : \E l \in varied :
        /\ m["parent_product_id"] = l["parent_product_id"]
        /\ \/ \E r \in Same(l, products) : m = Extended(l, r)
           \/ Same(l, products) = {} /\ m = Extended(l, NoMetadata)
  BY <1>1, <1>2, JoinRows DEF ProductTable
<1>5. \A m \in metadata : \E l \in varied :
        /\ m["parent_product_id"] = l["parent_product_id"]
        /\ bare(m) = l
        /\ (m["brand"] # NULL <=> m["parent_product_id"] \in Ids(products))
  <2> SUFFICES ASSUME NEW m \in metadata
               PROVE  \E l \in varied :
                        /\ m["parent_product_id"] = l["parent_product_id"]
                        /\ bare(m) = l
                        /\ (m["brand"] # NULL <=> m["parent_product_id"] \in Ids(products))
    OBVIOUS
  <2>1. PICK l \in varied :
          /\ m["parent_product_id"] = l["parent_product_id"]
          /\ \/ \E r \in Same(l, products) : m = Extended(l, r)
             \/ Same(l, products) = {} /\ m = Extended(l, NoMetadata)
    BY <1>4
  <2>2. PICK r : /\ m = Extended(l, r)
                 /\ DOMAIN r \subseteq {"parent_product_id", "category", "brand"}
                 /\ "brand" \in DOMAIN r
                 /\ r["brand"] # NULL <=> Same(l, products) # {}
    <3>1. CASE Same(l, products) = {} /\ m = Extended(l, NoMetadata)
      <4>1. DOMAIN NoMetadata = {"category", "brand"} /\ NoMetadata["brand"] = NULL
        BY DEF NoMetadata
      <4> QED
        BY <3>1, <4>1
    <3>2. CASE \E r \in Same(l, products) : m = Extended(l, r)
      BY <3>2 DEF ProductTable, Same
    <3> QED
      BY <2>1, <3>1, <3>2
  <2>3. DOMAIN l = {"parent_product_id"} \cup Numbers \cup {"num_sub_products"}
    BY <1>2 DEF Varied
  <2>4. "category" \notin DOMAIN l /\ "brand" \notin DOMAIN l
    BY <2>3 DEF Numbers
  <2>5. DOMAIN m = DOMAIN l \cup DOMAIN r
    BY <2>2, ExtendedRow
  <2>6. DOMAIN m \ {"category", "brand"} = DOMAIN l
    BY <2>2, <2>3, <2>4, <2>5
  <2>7. \A c \in DOMAIN l : m[c] = l[c]
    BY <2>2 DEF Extended
  <2>8. l = [c \in DOMAIN l |-> l[c]]
    BY <1>2 DEF Varied
  <2>9. bare(m) = l
    BY <2>6, <2>7, <2>8 DEF bare
  <2>10. m["brand"] = r["brand"]
    BY <2>2, <2>4 DEF Extended
  <2>11. m["parent_product_id"] \in Ids(products) <=> Same(l, products) # {}
    BY <2>1 DEF Ids, Same
  <2> QED
    BY <2>1, <2>2, <2>9, <2>10, <2>11
<1>6. \A l \in varied : \E m \in metadata : bare(m) = l
  <2> SUFFICES ASSUME NEW l \in varied PROVE \E m \in metadata : bare(m) = l
    OBVIOUS
  <2>1. PICK m \in metadata : m["parent_product_id"] = l["parent_product_id"]
    BY <1>2, <1>3 DEF Ids
  <2>2. PICK k \in varied : m["parent_product_id"] = k["parent_product_id"] /\ bare(m) = k
    BY <1>5
  <2>3. k = l
    BY <1>2, <2>1, <2>2 DEF Keyed
  <2> QED
    BY <2>2, <2>3
<1>7. {bare(m) : m \in metadata} = varied
  <2>1. \A m \in metadata : bare(m) \in varied
    BY <1>5
  <2> QED
    BY <1>6, <2>1
<1>8. Without({"category", "brand"}, metadata) = varied
  BY <1>7 DEF Without, bare
<1>9. \A m \in metadata : m["brand"] # NULL <=> m["parent_product_id"] \in Ids(products)
  BY <1>5
<1> QED
  BY <1>8, <1>9 DEF metadata, varied

LEMMA MetadataFinite ==
  ASSUME NEW reviews, ReviewTable(reviews), NEW products, ProductTable(products)
  PROVE  /\ IsFiniteSet(ProductKeys(reviews, products))
         /\ IsFiniteSet(ProductMetadata(reviews, products))
         /\ \A r \in DOMAIN reviews : r["parent_product_id"] \in ProductKeys(reviews, products)
<1> DEFINE rows == DOMAIN reviews \cup products
           k == [r \in rows |-> r["parent_product_id"]]
           K == ProductKeys(reviews, products)
<1>1. IsFiniteSet(rows)
  BY BagRows, FS_Union DEF ReviewTable, ProductTable
<1>2. IsFiniteSet({k[r] : r \in rows})
  BY <1>1, ImageFinite
<1>3. K = {k[r] : r \in rows}
  BY DEF ProductKeys, BagToSet
<1>4. IsFiniteSet(K)
  BY <1>2, <1>3
<1>5. IsFiniteSet(ProductMetadata(reviews, products))
  <2> DEFINE metadata == ProductMetadata(reviews, products)
  <2>1. Keyed(metadata) /\ Ids(metadata) = K
    BY MetadataRows
  <2> HIDE DEF metadata, K
  <2>2. IsFiniteSet(metadata)
    BY <1>4, <2>1, KeyedFinite
  <2> QED
    BY <2>2 DEF metadata
<1>6. \A r \in DOMAIN reviews : r["parent_product_id"] \in K
  BY DEF ProductKeys, BagToSet
<1> QED
  BY <1>4, <1>5, <1>6

ParentMart(metadata) ==
  {[c \in DOMAIN m \ {"category", "brand"} |-> m[c]] : m \in metadata}

(* The mart of the parent products counts every review. *)
LEMMA ParentMartTotal ==
  ASSUME NEW reviews, ReviewTable(reviews), NEW products, ProductTable(products),
         NEW column \in Numbers
  PROVE  Total(column, ParentMart(ProductMetadata(reviews, products))) =
           SumFunctionOnSet(Share(column, reviews), DOMAIN reviews)
<1> DEFINE K == ProductKeys(reviews, products)
           metadata == ProductMetadata(reviews, products)
           sums == SharesBy("parent_product_id", column, reviews, K)
           cut == [m \in metadata |-> [c \in DOMAIN m \ {"category", "brand"} |-> m[c]]]
           mart == ParentMart(metadata)
<1>1. /\ Keyed(metadata) /\ Ids(metadata) = K
      /\ \A m \in metadata : MetadataRow(m, reviews)
  BY MetadataRows
<1>2. /\ IsFiniteSet(K) /\ IsFiniteSet(metadata)
      /\ \A r \in DOMAIN reviews : r["parent_product_id"] \in K
  BY MetadataFinite
<1>3. mart = {cut[m] : m \in metadata}
  BY DEF ParentMart
<1>4. ASSUME NEW m \in metadata
      PROVE  /\ cut[m]["parent_product_id"] = m["parent_product_id"]
             /\ cut[m][column] = m[column]
  <2>1. /\ "parent_product_id" \in DOMAIN m \ {"category", "brand"}
        /\ column \in DOMAIN m \ {"category", "brand"}
    BY <1>1 DEF MetadataRow, Numbers
  <2> QED
    BY <2>1
<1>5. \A id \in K : sums[id] = Sums(column, id, reviews) /\ sums[id] \in Int
  BY SharesByInt DEF SharesBy, Sums
<1> HIDE DEF K, metadata, sums, cut, mart
<1>6. IsFiniteSet(mart)
  <2>1. IsFiniteSet({cut[m] : m \in metadata})
    BY <1>2, ImageFinite
  <2> QED
    BY <1>3, <2>1
<1>7. \A x, y \in mart : x["parent_product_id"] = y["parent_product_id"] => x = y
  BY <1>1, <1>3, <1>4 DEF Keyed
<1>8. KeysOf("parent_product_id", mart) = K
  BY <1>1, <1>3, <1>4 DEF Ids, KeysOf
<1>9. ASSUME NEW x \in mart
      PROVE  /\ Coalesce(x[column], 0) = sums[x["parent_product_id"]]
             /\ sums[x["parent_product_id"]] \in Int
  <2>1. PICK m \in metadata : x = cut[m]
    BY <1>3
  <2>2. Coalesce(m[column], 0) = Sums(column, m["parent_product_id"], reviews)
    BY <1>1 DEF MetadataRow
  <2>3. m["parent_product_id"] \in K
    BY <1>1 DEF Ids
  <2> QED
    BY <1>4, <1>5, <2>1, <2>2, <2>3
<1>10. Total(column, mart) = SumFunctionOnSet(sums, K)
  <2>1. \A x \in mart : /\ Coalesce(x[column], 0) = sums[x["parent_product_id"]]
                        /\ sums[x["parent_product_id"]] \in Int
    BY <1>9
  <2>2. Total(column, mart) = SumFunctionOnSet(sums, KeysOf("parent_product_id", mart))
    BY <1>6, <1>7, <2>1, TotalByKey
  <2> QED
    BY <1>8, <2>2
<1>11. SumFunctionOnSet(sums, K) = SumFunctionOnSet(Share(column, reviews), DOMAIN reviews)
  BY <1>2, SharesByKey DEF sums
<1> QED
  BY <1>10, <1>11 DEF mart, metadata

(* A mart of a column of the metadata counts the rows that have a value.   *)
LEMMA GroupedMartTotal ==
  ASSUME NEW metadata, IsFiniteSet(metadata), NEW column \in Numbers, NEW c,
         \A m \in metadata : m[column] \in Number
  PROVE  Total(column, GroupedMart(c, metadata)) =
           Total(column, {m \in metadata : m[c] # NULL})
<1> DEFINE bag == SetToBag(metadata)
           K == Values(c, bag)
           own(x) == Group(c, x, bag)
           row == [x \in K |-> [name |-> x,
                     num_reviews |-> SumOf(Column("num_reviews", own(x)), own(x)),
                     num_helpful_votes |-> SumOf(Column("num_helpful_votes", own(x)), own(x)),
                     num_sell_products |-> SumOf(Column("num_sell_products", own(x)), own(x))]]
           worth == [m \in metadata |-> Coalesce(m[column], 0)]
           known == {m \in metadata : m[c] # NULL}
           k == [m \in known |-> m[c]]
           sums == [x \in K |-> SumFunctionOnSet(worth, {m \in known : k[m] = x})]
           mart == GroupedMart(c, metadata)
<1>1. DOMAIN bag = metadata /\ \A m \in metadata : bag[m] = 1
  BY DEF SetToBag
<1>2. FiniteBag(bag)
  BY <1>1 DEF FiniteBag, IsABag, BagToSet, SetToBag
<1> HIDE DEF bag
<1>3. IsFiniteSet(K) /\ \A m \in known : m[c] \in K
  BY <1>1, ValuesFinite
<1>4. mart = {row[x] : x \in K}
  BY DEF GroupedMart, bag
<1>5. \A m \in metadata : Coalesce(m[column], 0) \in Int
  BY DEF Number, Coalesce
<1>6. \A m \in metadata : worth[m] \in Int
  BY <1>5
<1>7. ASSUME NEW x \in K PROVE Coalesce(row[x][column], 0) = sums[x]
  <2> DEFINE group == own(x)
             T == RowsWith(c, x, bag)
             known_x == {m \in known : k[m] = x}
  <2>1. /\ FiniteBag(group) /\ DOMAIN group = T
        /\ \A m \in T : group[m] = bag[m]
    BY <1>2, GroupIsPart
  <2>2. T \subseteq metadata /\ known_x = T
    <3>1. x # NULL
      BY DEF Values
    <3> QED
      BY <1>1, <3>1 DEF RowsWith
  <2>3. row[x][column] = SumOf(Column(column, group), group)
    BY DEF Numbers
  <2>4. sums[x] = SumFunctionOnSet(worth, T)
    BY <2>2
  <2> HIDE DEF group, T, row, sums
  <2>5. \A m \in T : Column(column, group)[m] = m[column] /\ group[m] = 1
    BY <1>1, <2>1, <2>2 DEF Column, BagToSet
  <2>6. \A m \in DOMAIN group : Column(column, group)[m] \in Number
    BY <2>1, <2>2, <2>5
  <2> DEFINE terms == [m \in T |-> Coalesce(Column(column, group)[m], 0) * group[m]]
  <2>7. Coalesce(SumOf(Column(column, group), group), 0) = SumFunctionOnSet(terms, T)
    BY <2>1, <2>6, SumOfValue
  <2>8. \A m \in T : worth[m] = terms[m] /\ worth[m] \in Int
    <3>1. \A m \in T : terms[m] = Coalesce(m[column], 0) * 1
      BY <2>5
    <3>2. \A m \in T : worth[m] = Coalesce(m[column], 0)
      BY <2>2
    <3> QED
      BY <1>5, <2>2, <3>1, <3>2
  <2>9. IsFiniteSet(T)
    BY <2>2, FS_Subset
  <2> HIDE DEF terms, worth
  <2>10. SumFunctionOnSet(worth, T) = SumFunctionOnSet(terms, T)
    BY <2>8, <2>9, SumSame
  <2> QED
    BY <2>3, <2>4, <2>7, <2>10
<1>8. \A x \in K : row[x]["name"] = x
  OBVIOUS
<1>9. IsFiniteSet(known) /\ known \subseteq metadata
  BY FS_Subset
<1>10. ASSUME NEW x \in K PROVE sums[x] \in Int
  <2> DEFINE T == {m \in known : k[m] = x}
  <2>1. IsFiniteSet(T) /\ T \subseteq metadata
    BY <1>9, FS_Subset
  <2> HIDE DEF T
  <2>2. SumFunctionOnSet(worth, T) \in Int
    BY <1>6, <2>1, SumInt
  <2> QED
    BY <2>2 DEF T
<1> HIDE DEF row, mart
<1>11. IsFiniteSet(mart)
  <2>1. IsFiniteSet({row[x] : x \in K})
    BY <1>3, ImageFinite
  <2> QED
    BY <1>4, <2>1
<1>12. \A x, y \in mart : x["name"] = y["name"] => x = y
  BY <1>4, <1>8
<1>13. KeysOf("name", mart) = K
  BY <1>4, <1>8 DEF KeysOf
<1> HIDE DEF K
<1>14. Total(column, mart) = SumFunctionOnSet(sums, K)
  <2> HIDE DEF sums
  <2>1. \A x \in mart : Coalesce(x[column], 0) = sums[x["name"]] /\ sums[x["name"]] \in Int
    BY <1>4, <1>7, <1>8, <1>10
  <2>2. Total(column, mart) = SumFunctionOnSet(sums, KeysOf("name", mart))
    BY <1>11, <1>12, <2>1, TotalByKey
  <2> QED
    BY <1>13, <2>2
<1>15. SumFunctionOnSet(worth, known) = SumFunctionOnSet(sums, K)
  <2>1. \A m \in known : worth[m] \in Int /\ k[m] \in K
    BY <1>3, <1>6
  <2> HIDE DEF worth, k, known
  <2> QED
    BY <1>3, <1>9, <2>1, SumByKey
<1>16. Total(column, known) = SumFunctionOnSet(worth, known)
  <2> DEFINE f == [m \in known |-> Coalesce(m[column], 0)]
  <2>1. Total(column, known) = SumFunctionOnSet(f, known)
    BY DEF Total, SumFunction
  <2>2. \A m \in known : f[m] \in Int /\ f[m] = worth[m]
    BY <1>5
  <2> HIDE DEF f, worth, known
  <2> QED
    BY <1>9, <2>1, <2>2, SumSame
<1> QED
  BY <1>14, <1>15, <1>16 DEF mart

-----------------------------------------------------------------------------
(* The products of the metadata *)

MetadataTable(rows) ==
  /\ FiniteBag(rows)
  /\ \A m \in DOMAIN rows :
       /\ m["category"] # NULL /\ m["product_title"] # NULL /\ m["parent_product_id"] \in Int
       /\ m["brand"] \in DOMAIN Initcap \cup {NULL} /\ m["store"] \in DOMAIN Initcap \cup {NULL}

LEMMA CleanedMetadata ==
  ASSUME NEW file, FiniteBag(file), DOMAIN file \subseteq RawMetadata
  PROVE  MetadataTable(CleanMetadata(file))
<1> DEFINE T == {m \in DOMAIN file : \A c \in RequiredOfMetadata : m[c] # NULL}
<1>1. CleanMetadata(file) = Restrict(file, T)
  BY DEF CleanMetadata, BagToSet
<1>2. ASSUME NEW m \in T
      PROVE  /\ m["category"] # NULL /\ m["product_title"] # NULL
             /\ m["parent_product_id"] \in Int
             /\ m["brand"] \in DOMAIN Initcap \cup {NULL}
             /\ m["store"] \in DOMAIN Initcap \cup {NULL}
  <2>1. m["category"] # NULL /\ m["product_title"] # NULL /\ m["parent_product_id"] # NULL
    BY DEF RequiredOfMetadata
  <2>2. m \in RawMetadata
    OBVIOUS
  <2>3. m["parent_product_id"] \in Int \cup {NULL}
    BY <2>2, TransformsAssumption
  <2>4. m["brand"] \in DOMAIN Initcap \cup {NULL} /\ m["store"] \in DOMAIN Initcap \cup {NULL}
    BY <2>2, TransformsAssumption
  <2> QED
    BY <2>1, <2>3, <2>4
<1>3. T \in SUBSET DOMAIN file
  OBVIOUS
<1> HIDE DEF T
<1>4. FiniteBag(CleanMetadata(file)) /\ DOMAIN CleanMetadata(file) = T
  BY <1>1, <1>3, PartOfBag
<1> QED
  BY <1>2, <1>4 DEF MetadataTable

HasBrand(m) == m["brand"] # NULL \/ m["store"] # NULL

LEMMA Branded ==
  ASSUME NEW rows, MetadataTable(rows)
  PROVE  /\ IsFiniteSet(BrandedProducts(rows))
         /\ \A p \in BrandedProducts(rows) :
              /\ DOMAIN p = {"parent_product_id", "category", "brand"}
              /\ p["parent_product_id"] \in Int
              /\ p["category"] # NULL /\ p["brand"] # NULL
         /\ Ids(BrandedProducts(rows)) =
              {m["parent_product_id"] : m \in {x \in DOMAIN rows : HasBrand(x)}}
<1> DEFINE S == {x \in DOMAIN rows : HasBrand(x)}
           k == [m \in S |-> [parent_product_id |-> m["parent_product_id"],
                              category |-> m["category"],
                              brand |-> Initcap[Coalesce(m["brand"], m["store"])]]]
           products == BrandedProducts(rows)
<1>1. products = {k[m] : m \in S}
  BY DEF BrandedProducts, HasBrand, BagToSet
<1>2. IsFiniteSet(S)
  <2>1. IsFiniteSet(DOMAIN rows)
    BY BagRows DEF MetadataTable
  <2> QED
    BY <2>1, FS_Subset
<1>3. ASSUME NEW m \in S
      PROVE  /\ DOMAIN k[m] = {"parent_product_id", "category", "brand"}
             /\ k[m]["parent_product_id"] \in Int
             /\ k[m]["parent_product_id"] = m["parent_product_id"]
             /\ k[m]["category"] # NULL /\ k[m]["brand"] # NULL
  <2>1. k[m] = [parent_product_id |-> m["parent_product_id"], category |-> m["category"],
                brand |-> Initcap[Coalesce(m["brand"], m["store"])]]
    OBVIOUS
  <2>2. m["category"] # NULL /\ m["parent_product_id"] \in Int
    BY DEF MetadataTable
  <2>3. Coalesce(m["brand"], m["store"]) \in DOMAIN Initcap
    BY DEF MetadataTable, HasBrand, Coalesce
  <2>4. Initcap[Coalesce(m["brand"], m["store"])] # NULL
    BY <2>3, TransformsAssumption
  <2> HIDE DEF k
  <2> QED
    BY <2>1, <2>2, <2>4
<1> HIDE DEF k, S, products
<1>4. IsFiniteSet(products)
  <2>1. IsFiniteSet({k[m] : m \in S})
    BY <1>2, ImageFinite
  <2> QED
    BY <1>1, <2>1
<1>5. Ids(products) = {m["parent_product_id"] : m \in S}
  BY <1>1, <1>3 DEF Ids
<1> QED
  BY <1>1, <1>3, <1>4, <1>5 DEF products, S

(* Whichever duplicate is kept, each product is kept once. *)
LEMMA DeduplicatedProducts ==
  ASSUME NEW rows, MetadataTable(rows), NEW products \in Deduplicated(BrandedProducts(rows))
  PROVE  /\ ProductTable(products)
         /\ Ids(products) = {m["parent_product_id"] : m \in {x \in DOMAIN rows : HasBrand(x)}}
<1> DEFINE branded == BrandedProducts(rows)
<1>1. /\ IsFiniteSet(branded)
      /\ \A p \in branded :
           /\ DOMAIN p = {"parent_product_id", "category", "brand"}
           /\ p["parent_product_id"] \in Int
           /\ p["category"] # NULL /\ p["brand"] # NULL
      /\ Ids(branded) = {m["parent_product_id"] : m \in {x \in DOMAIN rows : HasBrand(x)}}
  BY Branded
<1>2. PICK pick \in [Ids(branded) -> branded] :
        /\ \A id \in Ids(branded) : pick[id]["parent_product_id"] = id
        /\ products = {pick[id] : id \in Ids(branded)}
  BY DEF Deduplicated, Ids
<1> HIDE DEF branded
<1>3. products \subseteq branded
  BY <1>2
<1>4. IsFiniteSet(products)
  BY <1>1, <1>3, FS_Subset
<1>5. Keyed(products)
  BY <1>1, <1>2, <1>3 DEF Keyed
<1>6. Ids(products) = Ids(branded)
  <2> DEFINE B == Ids(branded)
  <2>1. products = {pick[id] : id \in B} /\ \A id \in B : pick[id]["parent_product_id"] = id
    BY <1>2
  <2> HIDE DEF B
  <2>2. Ids(products) = B
    BY <2>1 DEF Ids
  <2> QED
    BY <2>2 DEF B
<1> QED
  BY <1>1, <1>3, <1>4, <1>5, <1>6 DEF ProductTable

-----------------------------------------------------------------------------
(* What a user buys *)

LEMMA Largest ==
  ASSUME NEW S, IsFiniteSet(S), S # {}, S \subseteq Int
  PROVE  Max(S) \in S /\ \A n \in S : n <= Max(S)
<1> DEFINE Good == {T \in SUBSET S : T = {} \/ \E m \in T : \A n \in T : n <= m}
<1>1. {} \in Good
  OBVIOUS
<1>2. ASSUME NEW T \in SUBSET S, NEW x \in S \ T, T \in Good
      PROVE  T \cup {x} \in Good
  <2>1. CASE T = {}
    <3>1. T \cup {x} = {x} /\ x <= x
      BY <2>1
    <3> QED
      BY <3>1
  <2>2. CASE T # {}
    <3>1. PICK m \in T : \A n \in T : n <= m
      BY <1>2, <2>2
    <3>2. CASE x <= m
      BY <3>1, <3>2
    <3>3. CASE ~(x <= m)
      <4>1. \A n \in T \cup {x} : n <= x
        BY <3>1, <3>3
      <4> QED
        BY <4>1
    <3> QED
      BY <3>2, <3>3
  <2> QED
    BY <2>1, <2>2
<1> HIDE DEF Good
<1>3. S \in Good
  BY <1>1, <1>2, SetInduction
<1>4. \E m \in S : \A n \in S : n <= m
  BY <1>3 DEF Good
<1>5. \E m \in S : \A n \in S : m >= n
  BY <1>4
<1>6. Max(S) \in S /\ \A n \in S : Max(S) >= n
  BY <1>5 DEF Max
<1> QED
  BY <1>6

LEMMA TimesNat ==
  ASSUME NEW rows, ReviewTable(rows), NEW id
  PROVE  Times(id, rows) \in Nat
<1>1. FiniteBag(rows) /\ Times(id, rows) = SumFunctionOnSet(rows, RowsWith("parent_product_id", id, rows))
  BY GroupIsPart DEF ReviewTable, Times
<1>2. RowsWith("parent_product_id", id, rows) \subseteq DOMAIN rows
  BY DEF RowsWith
<1>3. IsFiniteSet(RowsWith("parent_product_id", id, rows))
  BY <1>1, <1>2, BagRows, FS_Subset
<1>4. \A r \in RowsWith("parent_product_id", id, rows) : rows[r] \in Nat
  BY <1>1, <1>2, BagRows
<1> QED
  BY <1>1, <1>3, <1>4, SumNat

(* No product was bought more often than the one at the top. *)
LEMMA TopIsMostBought ==
  ASSUME NEW bought, ReviewTable(bought), DOMAIN bought # {}
  PROVE  /\ \E r \in DOMAIN bought : r["parent_product_id"] = TopOf(bought)
         /\ \A r \in DOMAIN bought :
              Times(r["parent_product_id"], bought) <= Times(TopOf(bought), bought)
<1> DEFINE ids == Values("parent_product_id", bought)
           times == [id \in ids |-> Times(id, bought)]
           counts == {times[id] : id \in ids}
           most == Max(counts)
           tops == {id \in ids : times[id] = most}
<1>1. IsFiniteSet(DOMAIN bought)
  BY BagRows DEF ReviewTable
<1>2. /\ IsFiniteSet(ids)
      /\ \A r \in DOMAIN bought : r["parent_product_id"] \in ids
      /\ \A id \in ids : \E r \in DOMAIN bought : r["parent_product_id"] = id
  BY <1>1, ValuesFinite, TransformsAssumption DEF ReviewTable
<1>3. ids \subseteq Int /\ ids # {}
  BY <1>2 DEF ReviewTable
<1>4. \A id \in ids : times[id] = Times(id, bought) /\ times[id] \in Int
  BY TimesNat
<1>5. TopOf(bought) = Max(tops)
  <2>1. counts = {Times(id, bought) : id \in ids}
    OBVIOUS
  <2>2. tops = {id \in ids : Times(id, bought) = Max({Times(x, bought) : x \in ids})}
    BY <2>1
  <2> HIDE DEF tops, counts
  <2> QED
    BY <2>2 DEF TopOf
<1> HIDE DEF ids, times
<1>6. IsFiniteSet(counts) /\ counts # {} /\ counts \subseteq Int
  <2>1. IsFiniteSet({times[id] : id \in ids})
    BY <1>2, ImageFinite
  <2> QED
    BY <1>3, <1>4, <2>1
<1> HIDE DEF counts
<1>7. most \in counts /\ \A n \in counts : n <= most
  BY <1>6, Largest
<1> HIDE DEF most
<1>8. tops # {} /\ tops \subseteq Int /\ IsFiniteSet(tops)
  BY <1>2, <1>3, <1>7, FS_Subset DEF counts
<1>9. Max(tops) \in tops
  BY <1>8, Largest
<1>10. TopOf(bought) \in ids /\ times[TopOf(bought)] = most
  BY <1>5, <1>9
<1>11. \A id \in ids : times[id] <= most
  BY <1>7 DEF counts
<1> QED
  BY <1>2, <1>4, <1>10, <1>11

Bought(user, reviews) == Verified(Group("user_id", user, reviews))

Purchases(user, id, reviews) ==
  {r \in DOMAIN reviews : /\ r["user_id"] = user /\ r["parent_product_id"] = id
                          /\ r["verified_purchase"] = TRUE}

(* A group of a group of a group. *)
RowsWithBoth(c, x, d, y, rows) == {r \in DOMAIN rows : r[c] = x /\ r[d] = y}
RowsWithAll(c, x, d, y, e, z, rows) ==
  {r \in DOMAIN rows : r[c] = x /\ r[d] = y /\ r[e] = z}

LEMMA GroupsOfGroups ==
  ASSUME NEW rows, ReviewTable(rows), NEW c, NEW x, NEW d, NEW y, NEW e, NEW z
  PROVE  /\ ReviewTable(Group(d, y, Group(c, x, rows)))
         /\ DOMAIN Group(d, y, Group(c, x, rows)) = RowsWithBoth(c, x, d, y, rows)
         /\ Count(Group(e, z, Group(d, y, Group(c, x, rows)))) =
              SumFunctionOnSet(rows, RowsWithAll(c, x, d, y, e, z, rows))
<1> DEFINE g == Group(c, x, rows)
           h == Group(d, y, g)
           R == RowsWithBoth(c, x, d, y, rows)
           T == RowsWithAll(c, x, d, y, e, z, rows)
<1>1. /\ ReviewTable(g) /\ DOMAIN g = RowsWith(c, x, rows)
      /\ \A r \in RowsWith(c, x, rows) : g[r] = rows[r]
  BY GroupOfReviews, GroupIsPart DEF ReviewTable
<1> HIDE DEF g
<1>2. /\ ReviewTable(h) /\ DOMAIN h = RowsWith(d, y, g)
      /\ \A r \in RowsWith(d, y, g) : h[r] = g[r]
  BY <1>1, GroupOfReviews, GroupIsPart DEF ReviewTable
<1>3. RowsWith(d, y, g) = R
  BY <1>1 DEF RowsWith, RowsWithBoth
<1> HIDE DEF h
<1>4. Count(Group(e, z, h)) = SumFunctionOnSet(h, RowsWith(e, z, h))
  BY <1>2, GroupIsPart DEF ReviewTable
<1>5. RowsWith(e, z, h) = T
  BY <1>2, <1>3 DEF RowsWith, RowsWithBoth, RowsWithAll
<1>6. T \subseteq DOMAIN h /\ \A r \in T : h[r] = rows[r]
  BY <1>1, <1>2, <1>3 DEF RowsWith, RowsWithBoth, RowsWithAll
<1>7. IsFiniteSet(T) /\ \A r \in T : h[r] \in Int
  BY <1>2, <1>6, BagRows, FS_Subset DEF ReviewTable
<1> HIDE DEF T, R
<1>8. SumFunctionOnSet(h, T) = SumFunctionOnSet(rows, T)
  BY <1>6, <1>7, SumSame
<1> QED
  BY <1>2, <1>3, <1>4, <1>5, <1>8 DEF g, h, T, R

LEMMA BoughtRows ==
  ASSUME NEW reviews, ReviewTable(reviews), NEW user
  PROVE  /\ ReviewTable(Bought(user, reviews))
         /\ DOMAIN Bought(user, reviews) =
              {r \in DOMAIN reviews : r["user_id"] = user /\ r["verified_purchase"] = TRUE}
<1> DEFINE bought(y) == Group("verified_purchase", y, Group("user_id", user, reviews))
<1>1. \A y : /\ ReviewTable(bought(y))
            /\ DOMAIN bought(y) = RowsWithBoth("user_id", user, "verified_purchase", y, reviews)
  BY GroupsOfGroups
<1>2. Bought(user, reviews) = bought(TRUE)
  BY DEF Bought, Verified
<1> HIDE DEF bought
<1>3. /\ ReviewTable(bought(TRUE))
      /\ DOMAIN bought(TRUE) =
           RowsWithBoth("user_id", user, "verified_purchase", TRUE, reviews)
  BY <1>1
<1> QED
  BY <1>2, <1>3 DEF RowsWithBoth

(* The purchases of a product by a user can be counted in two orders. *)
LEMMA PurchasesCounted ==
  ASSUME NEW reviews, ReviewTable(reviews), NEW user, NEW id
  PROVE  /\ Times(id, Bought(user, reviews)) =
              SumFunctionOnSet(reviews, Purchases(user, id, reviews))
         /\ Times(id, Group("user_id", user, Verified(reviews))) =
              SumFunctionOnSet(reviews, Purchases(user, id, reviews))
<1> DEFINE v == "verified_purchase"
           p == "parent_product_id"
           one(y) == Group(v, y, Group("user_id", user, reviews))
           other(y) == Group("user_id", user, Group(v, y, reviews))
<1>1. \A y : Count(Group(p, id, one(y))) =
        SumFunctionOnSet(reviews, RowsWithAll("user_id", user, v, y, p, id, reviews))
  BY GroupsOfGroups
<1>2. \A y : Count(Group(p, id, other(y))) =
        SumFunctionOnSet(reviews, RowsWithAll(v, y, "user_id", user, p, id, reviews))
  BY GroupsOfGroups
<1>3. /\ Purchases(user, id, reviews) = RowsWithAll("user_id", user, v, TRUE, p, id, reviews)
      /\ Purchases(user, id, reviews) = RowsWithAll(v, TRUE, "user_id", user, p, id, reviews)
  BY DEF Purchases, RowsWithAll
<1>4. /\ Times(id, Bought(user, reviews)) = Count(Group(p, id, one(TRUE)))
      /\ Times(id, Group("user_id", user, Verified(reviews))) =
           Count(Group(p, id, other(TRUE)))
  BY DEF Bought, Verified, Times
<1> HIDE DEF one, other, v, p
<1> QED
  BY <1>1, <1>2, <1>3, <1>4

(* They are the same before and after the columns are selected. *)
LEMMA PurchasesSelected ==
  ASSUME NEW rows, ReviewTable(rows), NEW user, NEW id
  PROVE  Times(id, Bought(user, Select(SelectedColumns, rows))) =
           Times(id, Group("user_id", user, Verified(rows)))
<1> DEFINE picked == Select(SelectedColumns, rows)
           Q == Purchases(user, id, picked)
<1>1. ReviewTable(picked) /\ DOMAIN picked = {Selected(SelectedColumns, r) : r \in DOMAIN rows}
  BY SelectedReviews, SelectIsBag DEF ReviewTable
<1>2. Times(id, Bought(user, picked)) = SumFunctionOnSet(picked, Q)
  BY <1>1, PurchasesCounted
<1>3. Q \in SUBSET DOMAIN picked
  BY DEF Purchases
<1>4. SumFunctionOnSet(picked, Q) =
        SumFunctionOnSet(rows, {r \in DOMAIN rows : Selected(SelectedColumns, r) \in Q})
  BY <1>3, SelectCounts DEF ReviewTable
<1>5. {r \in DOMAIN rows : Selected(SelectedColumns, r) \in Q} = Purchases(user, id, rows)
  <2>1. ASSUME NEW r \in DOMAIN rows
        PROVE  Selected(SelectedColumns, r) \in Q <=> r \in Purchases(user, id, rows)
    <3> DEFINE s == Selected(SelectedColumns, r)
    <3>1. s \in DOMAIN picked
      BY <1>1
    <3>2. /\ s["user_id"] = r["user_id"] /\ s["parent_product_id"] = r["parent_product_id"]
          /\ s["verified_purchase"] = r["verified_purchase"]
      BY SelectedColumnsKept DEF SelectedColumns
    <3> HIDE DEF s, picked
    <3> QED
      BY <3>1, <3>2 DEF Purchases, s
  <2>2. Purchases(user, id, rows) \subseteq DOMAIN rows
    BY DEF Purchases
  <2> HIDE DEF Q
  <2> QED
    BY <2>1, <2>2
<1>6. Times(id, Group("user_id", user, Verified(rows))) =
        SumFunctionOnSet(rows, Purchases(user, id, rows))
  BY PurchasesCounted
<1> QED
  BY <1>2, <1>4, <1>5, <1>6

-----------------------------------------------------------------------------
(* The mart of the users *)

Buyers(reviews) == Values("user_id", Verified(reviews))

UserRow(user, m, reviews) ==
  LET own == Group("user_id", user, reviews)
  IN [user_id |-> user,
      num_reviews |-> Count(own),
      num_helpful_votes |-> SumOf(Column("helpful_vote", own), own),
      num_buy_products |-> Count(Verified(own)),
      top_brand |-> m.brand, top_category |-> m.category]

TopRows(user, reviews, metadata) ==
  {m \in metadata : m["parent_product_id"] = TopOf(Bought(user, reviews))}

UserRows(user, reviews, metadata) ==
  {UserRow(user, m, reviews) : m \in TopRows(user, reviews, metadata)}

LEMMA BuyersBought ==
  ASSUME NEW reviews, ReviewTable(reviews), NEW user
  PROVE  /\ user \in Buyers(reviews) <=>
              \E r \in DOMAIN reviews : r["user_id"] = user /\ r["verified_purchase"] = TRUE
         /\ user \in Buyers(reviews) <=> DOMAIN Bought(user, reviews) # {}
<1> DEFINE verified(y) == Group("verified_purchase", y, reviews)
<1>1. \A y : DOMAIN verified(y) = RowsWith("verified_purchase", y, reviews)
  BY GroupIsPart DEF ReviewTable
<1>2. Verified(reviews) = verified(TRUE)
  BY DEF Verified
<1> HIDE DEF verified
<1>3. Buyers(reviews) = {r["user_id"] : r \in RowsWith("verified_purchase", TRUE, reviews)} \ {NULL}
  BY <1>1, <1>2 DEF Buyers, Values, BagToSet
<1>4. \A r \in DOMAIN reviews : r["user_id"] # NULL
  BY DEF ReviewTable
<1>5. user \in Buyers(reviews) <=>
        \E r \in DOMAIN reviews : r["user_id"] = user /\ r["verified_purchase"] = TRUE
  BY <1>3, <1>4 DEF RowsWith
<1>6. DOMAIN Bought(user, reviews) =
        {r \in DOMAIN reviews : r["user_id"] = user /\ r["verified_purchase"] = TRUE}
  BY BoughtRows
<1> QED
  BY <1>5, <1>6

(* The product a buyer bought most has one row in the metadata. *)
LEMMA TopRowOfBuyer ==
  ASSUME NEW reviews, ReviewTable(reviews), NEW metadata, Keyed(metadata),
         \A r \in DOMAIN reviews : r["parent_product_id"] \in Ids(metadata),
         NEW user \in Buyers(reviews)
  PROVE  \E m \in metadata : TopRows(user, reviews, metadata) = {m}
<1>1. ReviewTable(Bought(user, reviews)) /\ DOMAIN Bought(user, reviews) # {}
  BY BoughtRows, BuyersBought
<1>2. PICK r \in DOMAIN Bought(user, reviews) :
        r["parent_product_id"] = TopOf(Bought(user, reviews))
  BY <1>1, TopIsMostBought
<1>3. r \in DOMAIN reviews
  BY BoughtRows
<1>4. PICK m \in metadata : m["parent_product_id"] = TopOf(Bought(user, reviews))
  BY <1>2, <1>3 DEF Ids
<1>5. TopRows(user, reviews, metadata) = {m}
  BY <1>4 DEF TopRows, Keyed
<1> QED
  BY <1>5

LEMMA UsersMartRows ==
  ASSUME NEW reviews, ReviewTable(reviews), NEW metadata, Keyed(metadata),
         \A r \in DOMAIN reviews : r["parent_product_id"] \in Ids(metadata)
  PROVE  /\ \A u \in UsersMart(reviews, metadata) : \E user \in Buyers(reviews), m \in metadata :
              m \in TopRows(user, reviews, metadata) /\ u = UserRow(user, m, reviews)
         /\ \A u, v \in UsersMart(reviews, metadata) : u["user_id"] = v["user_id"] => u = v
         /\ {u["user_id"] : u \in UsersMart(reviews, metadata)} = Buyers(reviews)
<1> DEFINE users == UsersMart(reviews, metadata)
           rows(user) == UserRows(user, reviews, metadata)
<1>1. users = UNION {rows(user) : user \in Buyers(reviews)}
  BY DEF UsersMart, UserRows, UserRow, TopRows, Bought, Buyers
<1>2. \A user, m : UserRow(user, m, reviews)["user_id"] = user
  BY DEF UserRow
<1>3. \A user \in Buyers(reviews) : \E m \in metadata :
        TopRows(user, reviews, metadata) = {m} /\ rows(user) = {UserRow(user, m, reviews)}
  <2> SUFFICES ASSUME NEW user \in Buyers(reviews)
               PROVE  \E m \in metadata : /\ TopRows(user, reviews, metadata) = {m}
                                          /\ rows(user) = {UserRow(user, m, reviews)}
    OBVIOUS
  <2>1. PICK m \in metadata : TopRows(user, reviews, metadata) = {m}
    BY TopRowOfBuyer
  <2> QED
    BY <2>1 DEF UserRows
<1> HIDE DEF users, rows
<1>4. \A u \in users : \E user \in Buyers(reviews), m \in metadata :
        TopRows(user, reviews, metadata) = {m} /\ u = UserRow(user, m, reviews)
  BY <1>1, <1>3
<1>5. \A user \in Buyers(reviews) : \E u \in users : u["user_id"] = user
  BY <1>1, <1>2, <1>3
<1>6. \A u \in users : u["user_id"] \in Buyers(reviews)
  BY <1>2, <1>4
<1>7. \A u, v \in users : u["user_id"] = v["user_id"] => u = v
  <2> SUFFICES ASSUME NEW u \in users, NEW v \in users, u["user_id"] = v["user_id"] PROVE u = v
    OBVIOUS
  <2>1. PICK user \in Buyers(reviews), m \in metadata :
          TopRows(user, reviews, metadata) = {m} /\ u = UserRow(user, m, reviews)
    BY <1>4
  <2>2. PICK other \in Buyers(reviews), n \in metadata :
          TopRows(other, reviews, metadata) = {n} /\ v = UserRow(other, n, reviews)
    BY <1>4
  <2>3. user = other
    BY <1>2, <2>1, <2>2
  <2> QED
    BY <2>1, <2>2, <2>3
<1>8. \A u \in users : \E user \in Buyers(reviews), m \in metadata :
        m \in TopRows(user, reviews, metadata) /\ u = UserRow(user, m, reviews)
  BY <1>4
<1>9. {u["user_id"] : u \in users} = Buyers(reviews)
  BY <1>5, <1>6
<1> QED
  BY <1>7, <1>8, <1>9 DEF users

LEMMA KeyFinite ==
  ASSUME NEW rows, NEW key, \A u, v \in rows : u[key] = v[key] => u = v,
         NEW K, K = {u[key] : u \in rows}, IsFiniteSet(K)
  PROVE  IsFiniteSet(rows)
<1> DEFINE row == [x \in K |-> CHOOSE u \in rows : u[key] = x]
<1>1. \A x \in K : row[x] \in rows /\ row[x][key] = x
  OBVIOUS
<1>2. \A u \in rows : row[u[key]] = u
  <2> SUFFICES ASSUME NEW u \in rows PROVE row[u[key]] = u
    OBVIOUS
  <2>1. u[key] \in K
    OBVIOUS
  <2>2. row[u[key]] \in rows /\ row[u[key]][key] = u[key]
    BY <1>1, <2>1
  <2> HIDE DEF row
  <2> QED
    BY <2>2
<1> HIDE DEF row
<1>3. rows = {row[x] : x \in K}
  BY <1>1, <1>2
<1>4. IsFiniteSet({row[x] : x \in K})
  BY ImageFinite
<1> QED
  BY <1>3, <1>4

(* What a user bought is what the user's reviews add to the products sold. *)
LEMMA BoughtCount ==
  ASSUME NEW reviews, ReviewTable(reviews), NEW user, NEW K, user \in K
  PROVE  /\ Count(Bought(user, reviews)) =
              SharesBy("user_id", "num_sell_products", reviews, K)[user]
         /\ Count(Bought(user, reviews)) \in Int
<1> DEFINE own == Group("user_id", user, reviews)
<1>1. ReviewTable(own)
  BY GroupOfReviews
<1>2. SumFunctionOnSet(Share("num_sell_products", own), DOMAIN own) =
        SumFunctionOnSet(Share("num_sell_products", reviews), RowsWith("user_id", user, reviews))
  BY SharesOfGroup
<1> HIDE DEF own
<1>3. Count(Verified(own)) = SumFunctionOnSet(Share("num_sell_products", own), DOMAIN own)
  BY <1>1, Aggregates
<1>4. SharesBy("user_id", "num_sell_products", reviews, K)[user] =
        SumFunctionOnSet(Share("num_sell_products", reviews), RowsWith("user_id", user, reviews))
  BY DEF SharesBy
<1>5. SharesBy("user_id", "num_sell_products", reviews, K)[user] \in Int
  BY SharesByInt
<1> QED
  BY <1>2, <1>3, <1>4, <1>5 DEF own, Bought

LEMMA UsersMartTotal ==
  ASSUME NEW reviews, ReviewTable(reviews), NEW metadata, Keyed(metadata),
         \A r \in DOMAIN reviews : r["parent_product_id"] \in Ids(metadata)
  PROVE  Total("num_buy_products", UsersMart(reviews, metadata)) =
           SumFunctionOnSet(Share("num_sell_products", reviews), DOMAIN reviews)
<1> DEFINE users == UsersMart(reviews, metadata)
           buyers == Buyers(reviews)
           K == Values("user_id", reviews)
           sums == SharesBy("user_id", "num_sell_products", reviews, K)
           share == Share("num_sell_products", reviews)
<1>0. NULL \notin Int
  BY TransformsAssumption
<1>1. /\ IsFiniteSet(DOMAIN reviews) /\ IsFiniteSet(K)
      /\ \A r \in DOMAIN reviews : r["user_id"] \in K
  <2>1. IsFiniteSet(DOMAIN reviews)
    BY BagRows DEF ReviewTable
  <2> QED
    BY <2>1, ValuesFinite DEF ReviewTable
<1>2. buyers \in SUBSET K /\ IsFiniteSet(buyers)
  <2>1. \A user \in buyers : user \in K
    BY <1>1, BuyersBought
  <2> HIDE DEF buyers, K
  <2> QED
    BY <1>1, <2>1, FS_Subset
<1>3. /\ \A u, v \in users : u["user_id"] = v["user_id"] => u = v
      /\ {u["user_id"] : u \in users} = buyers
      /\ \A u \in users : \E user \in buyers, m \in metadata : u = UserRow(user, m, reviews)
  BY UsersMartRows
<1>4. \A x \in K : sums[x] \in Int
  BY SharesByInt
<1>5. \A u \in users : /\ Coalesce(u["num_buy_products"], 0) = sums[u["user_id"]]
                       /\ sums[u["user_id"]] \in Int
  <2> SUFFICES ASSUME NEW u \in users
               PROVE  /\ Coalesce(u["num_buy_products"], 0) = sums[u["user_id"]]
                      /\ sums[u["user_id"]] \in Int
    OBVIOUS
  <2>1. PICK user \in buyers, m \in metadata : u = UserRow(user, m, reviews)
    BY <1>3
  <2>2. u["user_id"] = user /\ u["num_buy_products"] = Count(Bought(user, reviews))
    BY <2>1 DEF UserRow, Bought
  <2>3. user \in K
    BY <1>2
  <2>4. Count(Bought(user, reviews)) = sums[user] /\ sums[user] \in Int
    BY <1>4, <2>3, BoughtCount
  <2> HIDE DEF sums
  <2> QED
    BY <1>0, <2>2, <2>4 DEF Coalesce
<1>6. \A x \in K \ buyers : sums[x] = 0
  <2> SUFFICES ASSUME NEW x \in K \ buyers PROVE sums[x] = 0
    OBVIOUS
  <2>1. \A r \in RowsWith("user_id", x, reviews) : r["verified_purchase"] # TRUE
    BY BuyersBought DEF RowsWith
  <2>2. \A r \in RowsWith("user_id", x, reviews) : reviews[r] \in Int /\ r \in DOMAIN reviews
    BY BagRows DEF RowsWith, ReviewTable
  <2>3. \A r \in RowsWith("user_id", x, reviews) : share[r] = 0
    <3>1. \A r \in RowsWith("user_id", x, reviews) : ShareOf("num_sell_products", r) = 0
      BY <2>1 DEF ShareOf
    <3> QED
      BY <2>2, <3>1 DEF Share
  <2>4. IsFiniteSet(RowsWith("user_id", x, reviews))
    BY <1>1, FS_Subset DEF RowsWith
  <2> HIDE DEF share
  <2>5. SumFunctionOnSet(share, RowsWith("user_id", x, reviews)) = 0
    BY <2>3, <2>4, SumZero
  <2> QED
    BY <2>5 DEF SharesBy, share
<1>7. SumFunctionOnSet(sums, K) = SumFunctionOnSet(share, DOMAIN reviews)
  <2> HIDE DEF K
  <2> QED
    BY <1>1, SharesByKey
<1> HIDE DEF users, sums, K, buyers
<1>8. IsFiniteSet(users)
  BY <1>2, <1>3, KeyFinite
<1>9. Total("num_buy_products", users) = SumFunctionOnSet(sums, buyers)
  <2> DEFINE column == "num_buy_products"
           key == "user_id"
  <2>1. \A x, y \in users : x[key] = y[key] => x = y
    BY <1>3
  <2>2. \A x \in users : Coalesce(x[column], 0) = sums[x[key]] /\ sums[x[key]] \in Int
    BY <1>5
  <2>3. buyers = KeysOf(key, users)
    BY <1>3 DEF KeysOf
  <2> HIDE DEF column, key
  <2>4. Total(column, users) = SumFunctionOnSet(sums, KeysOf(key, users))
    BY <1>8, <2>1, <2>2, TotalByKey
  <2> QED
    BY <2>3, <2>4 DEF column
<1>10. SumFunctionOnSet(sums, K) = SumFunctionOnSet(sums, buyers)
  BY <1>1, <1>2, <1>4, <1>6, SumSupport
<1> QED
  BY <1>3, <1>7, <1>9, <1>10 DEF users

-----------------------------------------------------------------------------
(* The inductive invariant: each table is what its job computes from the   *)
(* tables before it, for some choice among the duplicates.                 *)

Computed ==
  /\ stage \in {"files", "delta", "merge", "marts"}
  /\ FiniteBag(review_file) /\ DOMAIN review_file \subseteq RawReviews
  /\ FiniteBag(metadata_file) /\ DOMAIN metadata_file \subseteq RawMetadata
  /\ IF stage = "files"
     THEN delta_reviews = EmptyBag /\ delta_metadata = EmptyBag
     ELSE /\ delta_reviews = CleanReviews(review_file)
          /\ delta_metadata = CleanMetadata(metadata_file)
  /\ IF stage \in {"files", "delta"}
     THEN merge_reviews = EmptyBag /\ merge_metadata = {}
     ELSE /\ merge_reviews = Select(SelectedColumns, delta_reviews)
          /\ \E products \in Deduplicated(BrandedProducts(delta_metadata)) :
               merge_metadata = ProductMetadata(merge_reviews, products)
  /\ marts = IF stage = "marts" THEN Marts(merge_reviews, merge_metadata) ELSE NoMarts
LEMMA EmptyTables ==
  /\ FiniteBag(EmptyBag) /\ DOMAIN EmptyBag = {}
<1>1. IsFiniteSet({})
  BY FS_EmptySet
<1>2. EmptyBag = [r \in {} |-> 1]
  BY DEF EmptyBag, SetToBag
<1> QED
  BY <1>1, <1>2 DEF FiniteBag, IsABag, BagToSet

LEMMA AddedRow ==
  ASSUME NEW rows, FiniteBag(rows), NEW r
  PROVE  /\ FiniteBag(rows (+) SetToBag({r}))
         /\ DOMAIN (rows (+) SetToBag({r})) = DOMAIN rows \cup {r}
<1> DEFINE D == DOMAIN rows
           one == SetToBag({r})
           more == rows (+) one
<1>1. DOMAIN one = {r} /\ one[r] = 1
  BY DEF SetToBag
<1>2. \A x \in D : rows[x] \in Nat /\ rows[x] > 0
  BY BagRows
<1>3. more = [x \in D \cup {r} |-> (IF x \in D THEN rows[x] ELSE 0) + IF x \in {r} THEN one[x] ELSE 0]
  BY <1>1 DEF (+)
<1>4. IsFiniteSet(D \cup {r})
  BY BagRows, FS_AddElement
<1> HIDE DEF more, one
<1>5. \A x \in D \cup {r} : more[x] \in {n \in Nat : n > 0}
  BY <1>1, <1>2, <1>3
<1>6. DOMAIN more = D \cup {r} /\ more \in [D \cup {r} -> {n \in Nat : n > 0}]
  BY <1>3, <1>5
<1> QED
  BY <1>4, <1>6 DEF FiniteBag, IsABag, BagToSet, more, one

LEMMA InitComputed == TransformsInit => Computed
BY EmptyTables DEF TransformsInit, Computed

LEMMA NextComputed == Computed /\ [TransformsNext]_transforms => Computed'
<1> SUFFICES ASSUME Computed, [TransformsNext]_transforms PROVE Computed'
  OBVIOUS
<1>1. ASSUME NEW r \in RawReviews, AddReview(r) PROVE Computed'
  <2>1. FiniteBag(review_file) /\ DOMAIN review_file \subseteq RawReviews
    BY DEF Computed
  <2>2. FiniteBag(review_file') /\ DOMAIN review_file' = DOMAIN review_file \cup {r}
    BY <1>1, <2>1, AddedRow DEF AddReview
  <2> QED
    BY <1>1, <2>1, <2>2 DEF Computed, AddReview, delta, merge
<1>2. ASSUME NEW m \in RawMetadata, AddMetadata(m) PROVE Computed'
  <2>1. FiniteBag(metadata_file) /\ DOMAIN metadata_file \subseteq RawMetadata
    BY DEF Computed
  <2>2. FiniteBag(metadata_file') /\ DOMAIN metadata_file' = DOMAIN metadata_file \cup {m}
    BY <1>2, <2>1, AddedRow DEF AddMetadata
  <2> QED
    BY <1>2, <2>1, <2>2 DEF Computed, AddMetadata, delta, merge
<1>3. CASE RawToDelta
  BY <1>3 DEF Computed, RawToDelta, files, merge
<1>4. CASE MergeToDelta
  BY <1>4 DEF Computed, MergeToDelta, files, delta
<1>5. CASE DataMarts
  BY <1>5 DEF Computed, DataMarts, files, delta, merge
<1>6. CASE UNCHANGED transforms
  BY <1>6 DEF Computed, transforms, files, delta, merge
<1> QED
  BY <1>1, <1>2, <1>3, <1>4, <1>5, <1>6 DEF TransformsNext

THEOREM TransformsComputed == TransformsSpec => []Computed
<1>1. Computed /\ [TransformsNext]_transforms => Computed'
  BY NextComputed
<1> QED
  BY InitComputed, <1>1, PTL DEF TransformsSpec

(* What the invariant says of the tables that have been written. *)
LEMMA DeltaTables ==
  ASSUME Computed, stage # "files"
  PROVE  /\ ReviewTable(delta_reviews) /\ MetadataTable(delta_metadata)
         /\ \A r \in DOMAIN delta_reviews : r \in DOMAIN review_file /\ \A c \in Required : r[c] # NULL
BY CleanedReviews, CleanedMetadata DEF Computed

LEMMA MergeTables ==
  ASSUME Computed, stage \in {"merge", "marts"}
  PROVE  /\ ReviewTable(merge_reviews)
         /\ merge_reviews = Select(SelectedColumns, delta_reviews)
         /\ \E products :
              /\ ProductTable(products)
              /\ Ids(products) = {m["parent_product_id"] : m \in {x \in DOMAIN delta_metadata : HasBrand(x)}}
              /\ merge_metadata = ProductMetadata(merge_reviews, products)
<1>1. ReviewTable(delta_reviews) /\ MetadataTable(delta_metadata)
  BY DeltaTables
<1>2. /\ merge_reviews = Select(SelectedColumns, delta_reviews)
      /\ \E products \in Deduplicated(BrandedProducts(delta_metadata)) :
           merge_metadata = ProductMetadata(merge_reviews, products)
  BY DEF Computed
<1>3. PICK products \in Deduplicated(BrandedProducts(delta_metadata)) :
        merge_metadata = ProductMetadata(merge_reviews, products)
  BY <1>2
<1>4. /\ ProductTable(products)
      /\ Ids(products) = {m["parent_product_id"] : m \in {x \in DOMAIN delta_metadata : HasBrand(x)}}
  BY <1>1, DeduplicatedProducts
<1> QED
  BY <1>1, <1>2, <1>3, <1>4, SelectedReviews

LEMMA MergedIds ==
  ASSUME Computed, stage \in {"merge", "marts"}
  PROVE  /\ Keyed(merge_metadata)
         /\ Ids(merge_metadata) =
              {r["parent_product_id"] : r \in DOMAIN delta_reviews}
              \cup {m["parent_product_id"] : m \in {x \in DOMAIN delta_metadata : HasBrand(x)}}
         /\ Ids(merge_metadata) \subseteq Int
<1> DEFINE branded == {m["parent_product_id"] : m \in {x \in DOMAIN delta_metadata : HasBrand(x)}}
<1>1. ReviewTable(merge_reviews) /\ ReviewTable(delta_reviews)
  BY MergeTables, DeltaTables
<1>2. PICK products : /\ ProductTable(products) /\ Ids(products) = branded
                      /\ merge_metadata = ProductMetadata(merge_reviews, products)
  BY MergeTables
<1>3. Keyed(merge_metadata) /\ Ids(merge_metadata) = ProductKeys(merge_reviews, products)
  BY <1>1, <1>2, MetadataRows
<1>4. ProductKeys(merge_reviews, products) =
        {r["parent_product_id"] : r \in DOMAIN merge_reviews} \cup Ids(products)
  BY DEF ProductKeys, Ids, BagToSet
<1>5. {r["parent_product_id"] : r \in DOMAIN merge_reviews} =
        {r["parent_product_id"] : r \in DOMAIN delta_reviews}
  <2>1. DOMAIN merge_reviews = {Selected(SelectedColumns, r) : r \in DOMAIN delta_reviews}
    <3>1. merge_reviews = Select(SelectedColumns, delta_reviews)
      BY MergeTables
    <3>2. FiniteBag(delta_reviews)
      BY <1>1 DEF ReviewTable
    <3>3. DOMAIN Select(SelectedColumns, delta_reviews) =
            {Selected(SelectedColumns, r) : r \in DOMAIN delta_reviews}
      BY <3>2, SelectIsBag
    <3> QED
      BY <3>1, <3>3
  <2>2. \A r : Selected(SelectedColumns, r)["parent_product_id"] = r["parent_product_id"]
    BY SelectedColumnsKept DEF SelectedColumns
  <2> QED
    BY <2>1, <2>2
<1>6. ProductKeys(merge_reviews, products) \subseteq Int
  <2>1. \A r \in DOMAIN merge_reviews : r["parent_product_id"] \in Int
    BY <1>1 DEF ReviewTable
  <2>2. \A p \in products : p["parent_product_id"] \in Int
    BY <1>2 DEF ProductTable
  <2> QED
    BY <1>4, <2>1, <2>2 DEF Ids
<1> QED
  BY <1>2, <1>3, <1>4, <1>5, <1>6

(* The tables are bags of rows of the files, and no row without a required *)
(* column gets past the first job                                          *)
(* (convert_raw2delta_avro_v2.py, its filters).                            *)
LEMMA ComputedType == Computed => TransformsTypeOK
<1> SUFFICES ASSUME Computed PROVE TransformsTypeOK
  OBVIOUS
<1>0. NULL \notin Int
  BY TransformsAssumption
<1>1. /\ stage \in {"files", "delta", "merge", "marts"}
      /\ IsABag(review_file) /\ BagToSet(review_file) \subseteq RawReviews
      /\ IsABag(metadata_file) /\ BagToSet(metadata_file) \subseteq RawMetadata
  BY DEF Computed, FiniteBag, BagToSet
<1>2. \A r \in BagToSet(delta_reviews) : \A c \in Required : r[c] # NULL
  <2>1. CASE stage = "files"
    BY <2>1, EmptyTables DEF Computed, BagToSet
  <2>2. CASE stage # "files"
    BY <2>2, DeltaTables DEF BagToSet
  <2> QED
    BY <2>1, <2>2
<1>3. \A m \in BagToSet(delta_metadata) : \A c \in RequiredOfMetadata : m[c] # NULL
  <2>1. CASE stage = "files"
    BY <2>1, EmptyTables DEF Computed, BagToSet
  <2>2. CASE stage # "files"
    <3>1. MetadataTable(delta_metadata)
      BY <2>2, DeltaTables
    <3> QED
      BY <1>0, <3>1 DEF MetadataTable, BagToSet, RequiredOfMetadata
  <2> QED
    BY <2>1, <2>2
<1>4. \A r \in BagToSet(merge_reviews) \cup merge_metadata : r.parent_product_id # NULL
  <2>1. CASE stage \in {"files", "delta"}
    <3>1. merge_reviews = EmptyBag /\ merge_metadata = {}
      BY <2>1 DEF Computed
    <3> QED
      BY <3>1, EmptyTables DEF BagToSet
  <2>2. CASE stage \in {"merge", "marts"}
    <3>1. \A r \in DOMAIN merge_reviews : r["parent_product_id"] # NULL
      BY <1>0, <2>2, MergeTables DEF ReviewTable
    <3>2. \A m \in merge_metadata : m["parent_product_id"] # NULL
      BY <1>0, <2>2, MergedIds DEF Ids
    <3> QED
      BY <3>1, <3>2 DEF BagToSet
  <2> QED
    BY <1>1, <2>1, <2>2
<1> QED
  BY <1>1, <1>2, <1>3, <1>4 DEF TransformsTypeOK

(* Three joins and a choice among duplicates leave one row for each        *)
(* product that has a review or a brand, and none for any other            *)
(* (convert_merge2delta_v2.py:56-89).                                      *)
LEMMA ComputedProductsOnce == Computed => ProductsOnce
<1> SUFFICES ASSUME Computed, stage \in {"merge", "marts"},
                    NEW id
             PROVE  Cardinality({m \in merge_metadata : m.parent_product_id = id}) =
                      IF \/ \E r \in BagToSet(delta_reviews) : r.parent_product_id = id
                         \/ \E m \in BagToSet(delta_metadata) :
                              m.parent_product_id = id /\ Coalesce(m.brand, m.store) # NULL
                      THEN 1 ELSE 0
  BY DEF ProductsOnce
<1> DEFINE rows == {m \in merge_metadata : m.parent_product_id = id}
           reviewed == \E r \in DOMAIN delta_reviews : r["parent_product_id"] = id
           branded == \E m \in DOMAIN delta_metadata : m["parent_product_id"] = id /\ HasBrand(m)
<1>1. id \in Ids(merge_metadata) <=> reviewed \/ branded
  BY MergedIds
<1>2. \A m : Coalesce(m.brand, m.store) # NULL <=> HasBrand(m)
  BY DEF Coalesce, HasBrand
<1>3. CASE id \in Ids(merge_metadata)
  <2>1. PICK m \in merge_metadata : m["parent_product_id"] = id
    BY <1>3 DEF Ids
  <2>2. rows = {m}
    BY <2>1, MergedIds DEF Keyed
  <2>3. Cardinality(rows) = 1
    BY <2>2, FS_Singleton
  <2> QED
    BY <1>1, <1>2, <1>3, <2>3 DEF BagToSet
<1>4. CASE id \notin Ids(merge_metadata)
  <2>1. rows = {}
    BY <1>4 DEF Ids
  <2>2. Cardinality(rows) = 0
    BY <2>1, FS_EmptySet
  <2> QED
    BY <1>1, <1>2, <1>4, <2>2 DEF BagToSet
<1> QED
  BY <1>3, <1>4

(* Every cleaned review is counted once by product and once by parent      *)
(* product, and so are the votes and the verified purchases, whichever way *)
(* the two jobs compute them (convert_merge2delta_v2.py:71,                *)
(* generate_data_mart_v2.py:79-81).                                        *)
LEMMA ComputedReviewsConserved == Computed => ReviewsConserved
<1> SUFFICES ASSUME Computed, stage = "marts"
             PROVE  /\ Total("num_reviews", marts.parent_products) = Count(delta_reviews)
                    /\ Total("num_reviews", marts.products) = Count(delta_reviews)
                    /\ \A column \in {"num_helpful_votes", "num_sell_products"} :
                         Total(column, marts.parent_products) = Total(column, marts.products)
  BY DEF ReviewsConserved
<1> DEFINE total(column) == SumFunctionOnSet(Share(column, merge_reviews), DOMAIN merge_reviews)
<1>1. /\ ReviewTable(merge_reviews) /\ ReviewTable(delta_reviews)
      /\ merge_reviews = Select(SelectedColumns, delta_reviews)
  BY MergeTables, DeltaTables
<1>2. PICK products : ProductTable(products) /\ merge_metadata = ProductMetadata(merge_reviews, products)
  BY MergeTables
<1>3. marts = Marts(merge_reviews, merge_metadata)
  BY DEF Computed
<1>4. /\ marts.parent_products = ParentMart(ProductMetadata(merge_reviews, products))
      /\ marts.products = ProductsMart(merge_reviews)
  BY <1>2, <1>3 DEF Marts, ParentMart, Without
<1>5. \A column \in Numbers : /\ Total(column, marts.parent_products) = total(column)
                              /\ Total(column, marts.products) = total(column)
  <2> SUFFICES ASSUME NEW column \in Numbers
               PROVE  /\ Total(column, marts.parent_products) = total(column)
                      /\ Total(column, marts.products) = total(column)
    OBVIOUS
  <2>1. Total(column, ParentMart(ProductMetadata(merge_reviews, products))) = total(column)
    BY <1>1, <1>2, ParentMartTotal
  <2>2. Total(column, ProductsMart(merge_reviews)) = total(column)
    BY <1>1, ProductsMartTotal
  <2> QED
    BY <1>4, <2>1, <2>2
<1>6. total("num_reviews") = Count(delta_reviews)
  <2>1. Count(merge_reviews) = Count(delta_reviews)
    BY <1>1, SelectKeepsCount DEF ReviewTable
  <2>2. Count(merge_reviews) = total("num_reviews")
    BY <1>1, Aggregates
  <2> QED
    BY <2>1, <2>2
<1> HIDE DEF total
<1> QED
  BY <1>5, <1>6 DEF Numbers

(* mart_brands and mart_categories count the same rows of the metadata: a  *)
(* row has a brand when it has a category (generate_data_mart_v2.py:54-100). *)
LEMMA ComputedBrandsMatchCategories == Computed => BrandsMatchCategories
<1> SUFFICES ASSUME Computed, stage = "marts", NEW column \in Numbers
             PROVE  Total(column, marts.brands) = Total(column, marts.categories)
  BY DEF BrandsMatchCategories, Numbers
<1>1. ReviewTable(merge_reviews)
  BY MergeTables
<1>2. PICK products : ProductTable(products) /\ merge_metadata = ProductMetadata(merge_reviews, products)
  BY MergeTables
<1>3. IsFiniteSet(merge_metadata) /\ \A m \in merge_metadata : MetadataRow(m, merge_reviews)
  BY <1>1, <1>2, MetadataFinite, MetadataRows
<1>4. \A m \in merge_metadata :
        m[column] \in Number /\ (m["brand"] = NULL <=> m["category"] = NULL)
  BY <1>3 DEF MetadataRow
<1>5. {m \in merge_metadata : m["brand"] # NULL} = {m \in merge_metadata : m["category"] # NULL}
  BY <1>4
<1>6. Total(column, GroupedMart("brand", merge_metadata)) =
        Total(column, {m \in merge_metadata : m["brand"] # NULL})
  BY <1>3, <1>4, GroupedMartTotal
<1>7. Total(column, GroupedMart("category", merge_metadata)) =
        Total(column, {m \in merge_metadata : m["category"] # NULL})
  BY <1>3, <1>4, GroupedMartTotal
<1>8. marts.brands = GroupedMart("brand", merge_metadata)
      /\ marts.categories = GroupedMart("category", merge_metadata)
  BY DEF Computed, Marts
<1> QED
  BY <1>5, <1>6, <1>7, <1>8

LEMMA MergedUsers ==
  ASSUME Computed, stage = "marts"
  PROVE  /\ ReviewTable(merge_reviews) /\ Keyed(merge_metadata)
         /\ \A r \in DOMAIN merge_reviews : r["parent_product_id"] \in Ids(merge_metadata)
         /\ marts.users = UsersMart(merge_reviews, merge_metadata)
         /\ marts.products = ProductsMart(merge_reviews)
<1>1. ReviewTable(merge_reviews)
  BY MergeTables
<1>2. PICK products : ProductTable(products) /\ merge_metadata = ProductMetadata(merge_reviews, products)
  BY MergeTables
<1>3. Keyed(merge_metadata) /\ Ids(merge_metadata) = ProductKeys(merge_reviews, products)
  BY <1>1, <1>2, MetadataRows
<1>4. \A r \in DOMAIN merge_reviews : r["parent_product_id"] \in ProductKeys(merge_reviews, products)
  BY <1>1, <1>2, MetadataFinite
<1>5. marts.users = UsersMart(merge_reviews, merge_metadata)
      /\ marts.products = ProductsMart(merge_reviews)
  BY DEF Computed, Marts
<1> QED
  BY <1>1, <1>3, <1>4, <1>5

(* A user is in mart_users exactly once when one of the user's cleaned     *)
(* reviews is a verified purchase, because the inner joins find one row of *)
(* the metadata; the purchases of all users are those of all products      *)
(* (generate_data_mart_v2.py:131-157).                                     *)
LEMMA ComputedBuyersOnce == Computed => BuyersOnce
<1> SUFFICES ASSUME Computed, stage = "marts" PROVE BuyersOnce
  BY DEF BuyersOnce
<1>1. /\ ReviewTable(merge_reviews) /\ Keyed(merge_metadata)
      /\ \A r \in DOMAIN merge_reviews : r["parent_product_id"] \in Ids(merge_metadata)
      /\ marts.users = UsersMart(merge_reviews, merge_metadata)
      /\ marts.products = ProductsMart(merge_reviews)
  BY MergedUsers
<1>2. /\ \A u, v \in marts.users : u["user_id"] = v["user_id"] => u = v
      /\ {u["user_id"] : u \in marts.users} = Buyers(merge_reviews)
  BY <1>1, UsersMartRows
<1>3. ASSUME NEW user
      PROVE  user \in Buyers(merge_reviews) <=>
               \E r \in BagToSet(delta_reviews) : r.user_id = user /\ r.verified_purchase = TRUE
  <2>1. DOMAIN merge_reviews = {Selected(SelectedColumns, r) : r \in DOMAIN delta_reviews}
    <3>1. merge_reviews = Select(SelectedColumns, delta_reviews) /\ FiniteBag(delta_reviews)
      BY MergeTables, DeltaTables DEF ReviewTable
    <3>2. DOMAIN Select(SelectedColumns, delta_reviews) =
            {Selected(SelectedColumns, r) : r \in DOMAIN delta_reviews}
      BY <3>1, SelectIsBag
    <3> QED
      BY <3>1, <3>2
  <2>2. \A r : /\ Selected(SelectedColumns, r)["user_id"] = r["user_id"]
               /\ Selected(SelectedColumns, r)["verified_purchase"] = r["verified_purchase"]
    BY SelectedColumnsKept DEF SelectedColumns
  <2>3. user \in Buyers(merge_reviews) <=>
          \E s \in DOMAIN merge_reviews : s["user_id"] = user /\ s["verified_purchase"] = TRUE
    BY <1>1, BuyersBought
  <2> QED
    BY <2>1, <2>2, <2>3 DEF BagToSet
<1>4. ASSUME NEW user
      PROVE  Cardinality({u \in marts.users : u.user_id = user}) =
               IF \E r \in BagToSet(delta_reviews) : r.user_id = user /\ r.verified_purchase = TRUE
               THEN 1 ELSE 0
  <2> DEFINE rows == {u \in marts.users : u.user_id = user}
  <2>1. CASE user \in Buyers(merge_reviews)
    <3>1. PICK u \in marts.users : u["user_id"] = user
      BY <1>2, <2>1
    <3>2. rows = {u}
      BY <1>2, <3>1
    <3>3. Cardinality(rows) = 1
      BY <3>2, FS_Singleton
    <3> QED
      BY <1>3, <2>1, <3>3
  <2>2. CASE user \notin Buyers(merge_reviews)
    <3>1. rows = {}
      BY <1>2, <2>2
    <3>2. Cardinality(rows) = 0
      BY <3>1, FS_EmptySet
    <3> QED
      BY <1>3, <2>2, <3>2
  <2> QED
    BY <2>1, <2>2
<1>5. Total("num_buy_products", marts.users) = Total("num_sell_products", marts.products)
  <2>1. Total("num_buy_products", UsersMart(merge_reviews, merge_metadata)) =
          SumFunctionOnSet(Share("num_sell_products", merge_reviews), DOMAIN merge_reviews)
    BY <1>1, UsersMartTotal
  <2>2. Total("num_sell_products", ProductsMart(merge_reviews)) =
          SumFunctionOnSet(Share("num_sell_products", merge_reviews), DOMAIN merge_reviews)
    BY <1>1, ProductsMartTotal DEF Numbers
  <2> QED
    BY <1>1, <2>1, <2>2
<1> QED
  BY <1>4, <1>5 DEF BuyersOnce

(* What was never bought was bought no more often than anything. *)
LEMMA TopBeatsAll ==
  ASSUME NEW bought, ReviewTable(bought), DOMAIN bought # {}, NEW id
  PROVE  Times(TopOf(bought), bought) >= Times(id, bought)
<1>1. Times(id, bought) \in Nat /\ Times(TopOf(bought), bought) \in Nat
  BY TimesNat
<1>2. CASE \E r \in DOMAIN bought : r["parent_product_id"] = id
  BY <1>1, <1>2, TopIsMostBought
<1>3. CASE ~ \E r \in DOMAIN bought : r["parent_product_id"] = id
  <2>1. RowsWith("parent_product_id", id, bought) = {}
    BY <1>3 DEF RowsWith
  <2>2. Times(id, bought) = SumFunctionOnSet(bought, RowsWith("parent_product_id", id, bought))
    BY GroupIsPart DEF Times, ReviewTable
  <2>3. Times(id, bought) = 0
    BY <2>1, <2>2, SumEmpty
  <2> QED
    BY <1>1, <2>3
<1> QED
  BY <1>2, <1>3

(* The brand and the category of a user in mart_users are those of a       *)
(* product that the user bought at least as often as any other product     *)
(* with a review (generate_data_mart_v2.py:115-143).                       *)
LEMMA ComputedTopBrand == Computed => TopBrandIsMostBought
<1> DEFINE bought(u, id) == Times(id, Group("user_id", u.user_id, Verified(delta_reviews)))
<1> SUFFICES ASSUME Computed, stage = "marts", NEW u \in marts.users
             PROVE  \E m \in merge_metadata :
                      /\ m.brand = u.top_brand /\ m.category = u.top_category
                      /\ \A r \in BagToSet(delta_reviews) :
                           bought(u, m.parent_product_id) >= bought(u, r.parent_product_id)
  BY DEF TopBrandIsMostBought
<1>1. /\ ReviewTable(merge_reviews) /\ Keyed(merge_metadata)
      /\ \A r \in DOMAIN merge_reviews : r["parent_product_id"] \in Ids(merge_metadata)
      /\ marts.users = UsersMart(merge_reviews, merge_metadata)
  BY MergedUsers
<1>2. PICK user \in Buyers(merge_reviews), m \in merge_metadata :
        m \in TopRows(user, merge_reviews, merge_metadata) /\ u = UserRow(user, m, merge_reviews)
  BY <1>1, UsersMartRows
<1>3. u.user_id = user /\ m.brand = u.top_brand /\ m.category = u.top_category
  BY <1>2 DEF UserRow
<1>4. m["parent_product_id"] = TopOf(Bought(user, merge_reviews))
  BY <1>2 DEF TopRows
<1>5. ReviewTable(Bought(user, merge_reviews)) /\ DOMAIN Bought(user, merge_reviews) # {}
  BY <1>1, BoughtRows, BuyersBought
<1>6. \A id : bought(u, id) = Times(id, Bought(user, merge_reviews))
  <2>1. merge_reviews = Select(SelectedColumns, delta_reviews) /\ ReviewTable(delta_reviews)
    BY MergeTables, DeltaTables
  <2>2. \A id : Times(id, Bought(user, Select(SelectedColumns, delta_reviews))) =
                  Times(id, Group("user_id", user, Verified(delta_reviews)))
    BY <2>1, PurchasesSelected
  <2> QED
    BY <1>3, <2>1, <2>2
<1>7. \A id : Times(m["parent_product_id"], Bought(user, merge_reviews)) >=
                Times(id, Bought(user, merge_reviews))
  BY <1>4, <1>5, TopBeatsAll
<1> HIDE DEF bought
<1> QED
  BY <1>3, <1>6, <1>7

-----------------------------------------------------------------------------
(* The theorems: what holds of the tables in every state of the three jobs *)
(* for any raw files, however many rows they have.                         *)

(* TransformsTypeOK is an invariant: only rows of the files are in the     *)
(* tables, and what convert_raw2delta_avro_v2 writes has no null in a      *)
(* required column.                                                        *)
THEOREM TransformsTyped == TransformsSpec => []TransformsTypeOK
BY TransformsComputed, ComputedType, PTL

(* ProductsOnce is an invariant: convert_merge2delta_v2 neither loses nor  *)
(* multiplies a product, whichever duplicates dropDuplicates keeps.        *)
THEOREM ProductsAreOnce == TransformsSpec => []ProductsOnce
BY TransformsComputed, ComputedProductsOnce, PTL

(* ReviewsConserved is an invariant: the marts of products and of parent   *)
(* products, computed by two jobs, count all cleaned reviews, and the same *)
(* votes and purchases.                                                    *)
THEOREM ReviewsAreConserved == TransformsSpec => []ReviewsConserved
BY TransformsComputed, ComputedReviewsConserved, PTL

(* BrandsMatchCategories is an invariant: mart_brands and mart_categories  *)
(* of generate_data_mart_v2 count the same reviews.                        *)
THEOREM BrandsAndCategoriesMatch == TransformsSpec => []BrandsMatchCategories
BY TransformsComputed, ComputedBrandsMatchCategories, PTL

(* BuyersOnce is an invariant: the inner joins behind mart_users of        *)
(* generate_data_mart_v2 lose no buyer and repeat none.                    *)
THEOREM BuyersAreOnce == TransformsSpec => []BuyersOnce
BY TransformsComputed, ComputedBuyersOnce, PTL

(* TopBrandIsMostBought is an invariant: the top brand in mart_users of    *)
(* generate_data_mart_v2 is that of a product bought most often.           *)
THEOREM TopBrandsAreMostBought == TransformsSpec => []TopBrandIsMostBought
BY TransformsComputed, ComputedTopBrand, PTL

-----------------------------------------------------------------------------
(* What depends on the choice among duplicates *)

(* All brands together count the reviews of the products that have one. *)
LEMMA BrandsTotal ==
  ASSUME NEW reviews, ReviewTable(reviews), NEW products, ProductTable(products),
         NEW column \in Numbers
  PROVE  Total(column, GroupedMart("brand", ProductMetadata(reviews, products))) =
           SumFunctionOnSet(SharesBy("parent_product_id", column, reviews, Ids(products)), Ids(products))
<1> DEFINE metadata == ProductMetadata(reviews, products)
           brand == "brand"
           known == {m \in metadata : m[brand] # NULL}
           K == Ids(products)
           sums == SharesBy("parent_product_id", column, reviews, K)
<1>1. /\ Keyed(metadata) /\ Ids(metadata) = ProductKeys(reviews, products)
      /\ \A m \in metadata : MetadataRow(m, reviews)
  BY MetadataRows
<1>2. IsFiniteSet(metadata)
  BY MetadataFinite
<1>3. \A m \in metadata : m[brand] # NULL <=> m["parent_product_id"] \in K
  BY NamedRows
<1>4. K \subseteq ProductKeys(reviews, products)
  BY DEF ProductKeys, Ids
<1>5. \A id \in K : sums[id] = Sums(column, id, reviews) /\ sums[id] \in Int
  BY SharesByInt DEF SharesBy, Sums
<1>6. \A m \in metadata : /\ m[column] \in Number
                          /\ Coalesce(m[column], 0) = Sums(column, m["parent_product_id"], reviews)
  BY <1>1 DEF MetadataRow
<1> HIDE DEF metadata, K, sums, brand
<1>7. IsFiniteSet(known) /\ known \subseteq metadata
  BY <1>2, FS_Subset
<1>8. KeysOf("parent_product_id", known) = K
  <2>1. \A m \in known : m["parent_product_id"] \in K
    BY <1>3
  <2>2. \A id \in K : \E m \in known : m["parent_product_id"] = id
    <3> SUFFICES ASSUME NEW id \in K PROVE \E m \in known : m["parent_product_id"] = id
      OBVIOUS
    <3>1. PICK m \in metadata : m["parent_product_id"] = id
      BY <1>1, <1>4 DEF Ids
    <3> QED
      BY <1>3, <3>1
  <2> QED
    BY <2>1, <2>2 DEF KeysOf
<1>9. \A x \in known : Coalesce(x[column], 0) = sums[x["parent_product_id"]] /\ sums[x["parent_product_id"]] \in Int
  BY <1>3, <1>5, <1>6
<1>10. \A x, y \in known : x["parent_product_id"] = y["parent_product_id"] => x = y
  BY <1>1, <1>7 DEF Keyed
<1> HIDE DEF known
<1>11. Total(column, known) = SumFunctionOnSet(sums, K)
  <2>1. Total(column, known) = SumFunctionOnSet(sums, KeysOf("parent_product_id", known))
    BY <1>7, <1>9, <1>10, TotalByKey
  <2> QED
    BY <1>8, <2>1
<1>12. Total(column, GroupedMart(brand, metadata)) = Total(column, {m \in metadata : m[brand] # NULL})
  BY <1>2, <1>6, GroupedMartTotal
<1> QED
  BY <1>11, <1>12 DEF metadata, K, sums, brand, known

(* A row of mart_users without the names. *)
Spending(user, reviews) ==
  LET own == Group("user_id", user, reviews)
  IN [user_id |-> user,
      num_reviews |-> Count(own),
      num_helpful_votes |-> SumOf(Column("helpful_vote", own), own),
      num_buy_products |-> Count(Verified(own))]

Names == {"top_brand", "top_category"}
Nameless(u) == [c \in DOMAIN u \ Names |-> u[c]]

LEMMA NamelessRow ==
  ASSUME NEW user, NEW m, NEW reviews
  PROVE  Nameless(UserRow(user, m, reviews)) = Spending(user, reviews)
<1> DEFINE own == Group("user_id", user, reviews)
           n == Count(own)
           votes == SumOf(Column("helpful_vote", own), own)
           buys == Count(Verified(own))
           row == UserRow(user, m, reviews)
<1>1. row = [user_id |-> user, num_reviews |-> n, num_helpful_votes |-> votes,
             num_buy_products |-> buys, top_brand |-> m.brand, top_category |-> m.category]
  BY DEF UserRow
<1>2. Spending(user, reviews) = [user_id |-> user, num_reviews |-> n, num_helpful_votes |-> votes,
                                 num_buy_products |-> buys]
  BY DEF Spending
<1> HIDE DEF n, votes, buys, row
<1>3. DOMAIN row \ Names = {"user_id", "num_reviews", "num_helpful_votes", "num_buy_products"}
  BY <1>1 DEF Names
<1>4. Nameless(row) = [user_id |-> user, num_reviews |-> n, num_helpful_votes |-> votes,
                       num_buy_products |-> buys]
  BY <1>1, <1>3 DEF Nameless
<1> QED
  BY <1>2, <1>4 DEF row

(* But for the names, mart_users depends on nothing but the reviews. *)
LEMMA NamelessUsers ==
  ASSUME NEW reviews, ReviewTable(reviews), NEW metadata, Keyed(metadata),
         \A r \in DOMAIN reviews : r["parent_product_id"] \in Ids(metadata)
  PROVE  Without(Names, UsersMart(reviews, metadata)) =
           {Spending(user, reviews) : user \in Buyers(reviews)}
<1> DEFINE users == UsersMart(reviews, metadata)
           buyers == Buyers(reviews)
<1>1. /\ \A u \in users : \E user \in buyers, m \in metadata : u = UserRow(user, m, reviews)
      /\ {u["user_id"] : u \in users} = buyers
  BY UsersMartRows
<1>2. Without(Names, users) = {Nameless(u) : u \in users}
  BY DEF Without, Nameless
<1> HIDE DEF users, buyers
<1>3. \A u \in users : u["user_id"] \in buyers /\ Nameless(u) = Spending(u["user_id"], reviews)
  <2> SUFFICES ASSUME NEW u \in users
               PROVE  u["user_id"] \in buyers /\ Nameless(u) = Spending(u["user_id"], reviews)
    OBVIOUS
  <2>1. PICK user \in buyers, m \in metadata : u = UserRow(user, m, reviews)
    BY <1>1
  <2>2. u["user_id"] = user
    BY <2>1 DEF UserRow
  <2>3. Nameless(u) = Spending(user, reviews)
    BY <2>1, NamelessRow
  <2> QED
    BY <2>2, <2>3
<1>4. \A user \in buyers : \E u \in users : u["user_id"] = user
  BY <1>1
<1>5. {Nameless(u) : u \in users} = {Spending(user, reviews) : user \in buyers}
  BY <1>3, <1>4
<1> QED
  BY <1>2, <1>5 DEF users, buyers

(* What one choice of the products gives the marts. *)
LEMMA ChosenMarts ==
  ASSUME Computed, stage = "marts",
         NEW products \in Deduplicated(BrandedProducts(delta_metadata))
  PROVE  LET other == Marts(merge_reviews, ProductMetadata(merge_reviews, products))
             ids == {m["parent_product_id"] : m \in {x \in DOMAIN delta_metadata : HasBrand(x)}}
             keys == {r["parent_product_id"] : r \in DOMAIN merge_reviews} \cup ids
         IN  /\ other.parent_products = Counts(merge_reviews, keys)
             /\ Without(Names, other.users) = {Spending(user, merge_reviews) : user \in Buyers(merge_reviews)}
             /\ \A column \in Numbers :
                  Total(column, other.brands) =
                    SumFunctionOnSet(SharesBy("parent_product_id", column, merge_reviews, ids), ids)
<1> DEFINE metadata == ProductMetadata(merge_reviews, products)
           other == Marts(merge_reviews, metadata)
           ids == {m["parent_product_id"] : m \in {x \in DOMAIN delta_metadata : HasBrand(x)}}
           keys == {r["parent_product_id"] : r \in DOMAIN merge_reviews} \cup ids
<1>1. ReviewTable(merge_reviews)
  BY MergeTables
<1>2. MetadataTable(delta_metadata)
  BY DeltaTables
<1>3. ProductTable(products) /\ Ids(products) = ids
  BY <1>2, DeduplicatedProducts
<1>4. ProductKeys(merge_reviews, products) = keys
  <2>1. ProductKeys(merge_reviews, products) =
          {r["parent_product_id"] : r \in DOMAIN merge_reviews} \cup Ids(products)
    BY DEF ProductKeys, Ids, BagToSet
  <2> QED
    BY <1>3, <2>1
<1> HIDE DEF metadata, ids, keys
<1>5. /\ other.parent_products = Without({"category", "brand"}, metadata)
      /\ other.users = UsersMart(merge_reviews, metadata)
      /\ other.brands = GroupedMart("brand", metadata)
  BY DEF Marts
<1>6. Without({"category", "brand"}, metadata) = Counts(merge_reviews, keys)
  BY <1>1, <1>3, <1>4, NamedRows DEF metadata
<1>7. Without(Names, UsersMart(merge_reviews, metadata)) =
        {Spending(user, merge_reviews) : user \in Buyers(merge_reviews)}
  <2>1. Keyed(metadata) /\ Ids(metadata) = keys
    BY <1>1, <1>3, <1>4, MetadataRows DEF metadata
  <2>2. \A r \in DOMAIN merge_reviews : r["parent_product_id"] \in keys
    BY DEF keys
  <2> QED
    BY <1>1, <2>1, <2>2, NamelessUsers
<1>8. \A column \in Numbers :
        Total(column, GroupedMart("brand", metadata)) =
          SumFunctionOnSet(SharesBy("parent_product_id", column, merge_reviews, ids), ids)
  <2>1. \A column \in Numbers :
          Total(column, GroupedMart("brand", metadata)) =
            SumFunctionOnSet(SharesBy("parent_product_id", column, merge_reviews, Ids(products)),
                             Ids(products))
    BY <1>1, <1>3, BrandsTotal DEF metadata
  <2> QED
    BY <1>3, <2>1
<1> HIDE DEF other
<1>9. /\ other.parent_products = Counts(merge_reviews, keys)
      /\ Without(Names, other.users) = {Spending(user, merge_reviews) : user \in Buyers(merge_reviews)}
      /\ \A column \in Numbers :
           Total(column, other.brands) =
             SumFunctionOnSet(SharesBy("parent_product_id", column, merge_reviews, ids), ids)
  BY <1>5, <1>6, <1>7, <1>8
<1> QED
  BY <1>9 DEF other, metadata, keys, ids

(* Any other choice of dropDuplicates gives the marts the same rows of     *)
(* products and users, the same numbers in them and the same totals of the *)
(* brands (convert_merge2delta_v2.py:56).                                  *)
LEMMA ComputedChoiceOnlyNames == Computed => ChoiceOnlyNames
<1> SUFFICES ASSUME Computed, stage = "marts",
                    NEW products \in Deduplicated(BrandedProducts(delta_metadata))
             PROVE  LET other == Marts(merge_reviews, ProductMetadata(merge_reviews, products))
                    IN /\ other.parent_products = marts.parent_products
                       /\ Without(Names, other.users) = Without(Names, marts.users)
                       /\ \A column \in Numbers :
                            Total(column, other.brands) = Total(column, marts.brands)
  BY DEF ChoiceOnlyNames, Names, Numbers
<1>1. PICK chosen \in Deduplicated(BrandedProducts(delta_metadata)) :
        merge_metadata = ProductMetadata(merge_reviews, chosen)
  BY DEF Computed
<1>2. marts = Marts(merge_reviews, ProductMetadata(merge_reviews, chosen))
  BY <1>1 DEF Computed
<1> DEFINE other == Marts(merge_reviews, ProductMetadata(merge_reviews, products))
           ids == {m["parent_product_id"] : m \in {x \in DOMAIN delta_metadata : HasBrand(x)}}
           keys == {r["parent_product_id"] : r \in DOMAIN merge_reviews} \cup ids
           parents == Counts(merge_reviews, keys)
           users == {Spending(user, merge_reviews) : user \in Buyers(merge_reviews)}
           total(column) == SumFunctionOnSet(SharesBy("parent_product_id", column, merge_reviews, ids), ids)
<1>3. /\ other.parent_products = parents /\ Without(Names, other.users) = users
      /\ \A column \in Numbers : Total(column, other.brands) = total(column)
  BY ChosenMarts
<1>4. /\ marts.parent_products = parents /\ Without(Names, marts.users) = users
      /\ \A column \in Numbers : Total(column, marts.brands) = total(column)
  BY <1>2, ChosenMarts
<1> HIDE DEF other, parents, users, total
<1>5. /\ other.parent_products = marts.parent_products
      /\ Without(Names, other.users) = Without(Names, marts.users)
      /\ \A column \in Numbers : Total(column, other.brands) = Total(column, marts.brands)
  BY <1>3, <1>4
<1> QED
  BY <1>5 DEF other

(* In every run: the choice among the duplicates of a product              *)
(* (convert_merge2delta_v2.py:56) shows in nothing but names.              *)
THEOREM ChoicesOnlyName == TransformsSpec => []ChoiceOnlyNames
BY TransformsComputed, ComputedChoiceOnlyNames, PTL
=============================================================================
