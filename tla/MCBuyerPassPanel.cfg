CONSTANTS
  k1 = k1
  k2 = k2
  c1 = c1
  c2 = c2
  c3 = c3
  None = None
  Key <- MCKey
  Call <- MCCall
  Lease = 2
  MaxLife = 1
  Lag = 1
  MaxClock = 2
  MaxPoll = 2
SPECIFICATION TabSpec
INVARIANT Inv
INVARIANT OneCreator
INVARIANT RefusedUnoffered
INVARIANT OnePaymentPage
INVARIANT ShownIsRemembered
CHECK_DEADLOCK FALSE
PROPERTY ImplementsSale
PROPERTY PaymentSettles
