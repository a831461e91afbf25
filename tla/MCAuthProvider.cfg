CONSTANTS
  u1 = u1  u2 = u2
  e1 = e1  e2 = e2
  g1 = g1  g2 = g2
  c1 = c1  c2 = c2
  a1 = a1  a2 = a2
  Early = Early
  None = None
  User <- MCUser
  Email <- MCEmail
  Subject <- MCSubject
  MailOf <- MCMailOf
  Call <- TwoCalls
  Attempt <- MCAttempt
SPECIFICATION TabSpec
PROPERTY SignedOutIsTrue
