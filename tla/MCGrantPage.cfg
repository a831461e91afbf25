\* One administrator gives a pass away twice, the first time without an answer.
CONSTANTS
  u1 = u1  o1 = o1  r1 = r1
  c1 = c1  c2 = c2
  None = None
  User <- OneUser
  Order <- OneOrder
  Owner <- OneOwner
  Call <- TwoCalls
  Ref <- OneRef
  PaidDays = 1
  GrantDays <- OneDay
  MaxAttempts = 2
  MaxClock = 2
SPECIFICATION PageSpec
INVARIANT SecondGrantRefused
