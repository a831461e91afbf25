\* The price a seller confirmed and the price accepted.
CONSTANTS
  r1 = r1
  c1 = c1  c2 = c2  c3 = c3
  a1 = a1  a2 = a2
  None = None
  Request <- OneRequest
  Call <- ThreeCalls
  Admin <- TwoAdmins
  Price <- Prices
  MinPrice = 1
  MaxPrice = 2
SYMMETRY Symmetry
SPECIFICATION PagesSpec
INVARIANT AcceptedAsConfirmed
