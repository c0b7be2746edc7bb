SPECIFICATION MCSpec
CONSTANTS
  NULL = NULL
  RawReviews <- MCReviews
  RawMetadata <- MCMetadata
  Initcap <- MCInitcap
  MaxReviews = 4
  MaxMetadata = 3
  Bytes <- MCBytes
  MaxLength = 4
INVARIANTS
  TransformsTypeOK
  ProductsOnce
  ReviewsConserved
  BrandsMatchCategories
  BuyersOnce
  TopBrandIsMostBought
  ChoiceOnlyNames
  RecordSurvives
CHECK_DEADLOCK FALSE
