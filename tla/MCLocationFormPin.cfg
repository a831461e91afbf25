\* As MCLocationForm, where a submission carries the address of another pin.
CONSTANTS
  l1 = l1  l2 = l2
  p1 = p1  p2 = p2
  None = None
  Lookup <- TwoLookups
  Pin <- TwoPins
  Field <- OneField
  Address <- Addresses
  MinInterval = 2
SPECIFICATION Spec
INVARIANT AddressOfPin
