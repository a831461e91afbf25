\* Two calls on two listings, a page each, of this buyer's tab or of others.
CONSTANTS
  l1 = l1  l2 = l2
  c1 = c1  c2 = c2
  None = None
  Listing <- TwoListings
  Call <- TwoCalls
  Amount <- Amounts
  MaxLoad = 2
  PageSize = 1
SPECIFICATION PagesSpec
INVARIANT ErrorMeansNotReserved
