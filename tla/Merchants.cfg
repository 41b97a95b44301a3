SPECIFICATION Spec
CONSTANTS
  o1 = o1
  o2 = o2
  b1 = b1
  b2 = b2
  Owners = {o1, o2}
  Buyers = {b1, b2}
  Console = Console
  None = None
  Stock = 2
  Coins = 1
  Overlap = TRUE
  MaxShops = 2
  MaxListings = 1
INVARIANTS Kept Safekeeping Listed
CONSTRAINT Scope
CHECK_DEADLOCK FALSE
SYMMETRY Alike
