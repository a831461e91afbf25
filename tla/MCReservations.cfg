\* Four calls of any kind on one listing.
CONSTANTS
  l1 = l1
  c1 = c1  c2 = c2  c3 = c3  c4 = c4
  None = None
  Listing <- OneListing
  Call <- FourCalls
  Amount <- Amounts
SPECIFICATION FairSpec
INVARIANT Inv
INVARIANT ListingsAgree
INVARIANT AuditComplete
PROPERTY ScheduleFrozen
PROPERTY OnlyTheHolderMoves
PROPERTY ImplementsMarket
PROPERTY EveryCallAnswered
