SPECIFICATION FairSpec
CONSTANTS
  o1 = o1
  o2 = o2
  b1 = b1
  b2 = b2
  Owners = {o1}
  Buyers = {b1}
  Console = Console
  None = None
  Stock = 1
  Coins = 1
  Overlap = TRUE
  MaxShops = 1
  MaxListings = 1
PROPERTIES Retires
CHECK_DEADLOCK FALSE
