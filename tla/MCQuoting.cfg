\* Three calls of any kind on one scrap request.
CONSTANTS
  r1 = r1
  c1 = c1  c2 = c2  c3 = c3
  None = None
  Request <- OneRequest
  Call <- ThreeCalls
  Price <- Prices
  MinPrice = 1
  MaxPrice = 1
SPECIFICATION FairSpec
INVARIANT Inv
INVARIANT BookConsistent
INVARIANT SoleDecision
INVARIANT AuditTruthful
PROPERTY ImplementsBook
PROPERTY EveryCallAnswered
