\* One buyer, two orders, any two deliveries and grants.
CONSTANTS
  u1 = u1  o1 = o1  o2 = o2  r1 = r1  r2 = r2
  c1 = c1  c2 = c2
  None = None
  User <- OneUser
  Order <- TwoOrders
  Owner <- OneOwner
  Call <- TwoCalls
  Ref <- TwoRefs
  PaidDays = 1
  GrantDays <- OneDay
  MaxAttempts = 2
  MaxClock = 2
SPECIFICATION FairSpec
INVARIANT Inv
INVARIANT PaidOnce
INVARIANT PaidWindowsDisjoint
INVARIANT NeverShutOut
INVARIANT AcknowledgedIsActivated
PROPERTY ImplementsLedger
PROPERTY PaymentApplied
