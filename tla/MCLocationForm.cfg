\* Two lookups, of this page or of others, two pins and one address field.
CONSTANTS
  l1 = l1  l2 = l2
  p1 = p1  p2 = p2
  None = None
  Lookup <- TwoLookups
  Pin <- TwoPins
  Field <- OneField
  Address <- Addresses
  MinInterval = 2
SPECIFICATION FairSpec
INVARIANT TypeOK
PROPERTY Spaced
PROPERTY EveryLookupAnswered
