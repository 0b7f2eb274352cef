\* Two items; the shop loads, two sheets are closed, and others buy.  The
\* conversions of ShopText and Amounts are evaluated once, over the inputs of MCShowcase.
CONSTANTS
  Count = 2
  StartStock <- TwoItems
  MaxRefreshes = 2
SPECIFICATION FairSpec
CHECK_DEADLOCK FALSE
INVARIANT StalenessBounded
INVARIANT AmountsReadBack
INVARIANT ListedIsQuoted
INVARIANT MetadataReadsBack
INVARIANT CanonicalIsContent
PROPERTY PageSettles
