CONSTANTS
  v1 = v1  v2 = v2
  MaxPhoto = 3
  MaxCall = 4
  Verdict <- TwoVerdicts
  PageSize = 1
  MaxLoad = 2
  Earlier <- EarlierRows
SYMMETRY Symmetry
SPECIFICATION Spec
INVARIANT Inv
INVARIANT PhotoOnce
INVARIANT RowHasPhoto
INVARIANT PaidIffVerified
INVARIANT PagesJoin
PROPERTY ImplementsEvidence
CHECK_DEADLOCK FALSE
