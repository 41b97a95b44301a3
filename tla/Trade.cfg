\* Three characters who exchange two items; or, the third apart, two of them with
\* mesos, wallets that can overflow and room for one item each.
SPECIFICATION Spec
CONSTANTS
    None = None
    c3 = c3
    Chars = {c1, c2, c3}
    Items = {i1, i2}
    Trades = {t1, t2, t3}
    MaxMeso = 2
    Amounts = {1, 2}
    Tax <- MCTax
    Slots = 2
    OfferSlots = 1
    Shopkeepers = {c3}
INVARIANTS TypeOK Mutual OnePlace OfferStands
PROPERTIES LostOnlyWithoutRoom AllOrNothing
SYMMETRY Symmetry
CONSTRAINT OneThingAtATime
