\* Inventories of two, three and four slots, each with the items that matter for it.
SPECIFICATION Spec
CONSTANTS
    Stars = 2  Medal = 3  Other = 4
    Ids = {1, 2, 3, 4}
    Rechargeable = {2}
    OneOfAKind = {3}
    SlotMax <- MCSlotMax
    MaxCharge <- MCMaxCharge
    Owners = {none, tag}
    NoOwner = none
    Deadlines = {forever, soon}
    Forever = forever
    Drops = {d1}
    Setting <- MCSetting
    None = None
INVARIANTS TypeOK Ledger AtMostOne SpaceIsSpace
CONSTRAINT Scope
PROPERTY Tidies
