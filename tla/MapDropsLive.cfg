\* An everlasting map: the owner leaves while others pick up, and nobody leaks a lock.
SPECIFICATION FairSpec
CONSTANTS
    None = None
    p1 = p1
    p2 = p2
    p3 = p3
    l1 = l1
    l2 = l2
    Players = {p1, p2}
    Loops = {l1, l2}
    Drops = {d1}
    LoopOf <- MCLoopOf2
    SameParty <- MCSameParty
    Kinds <- MCAllKinds
    EverLast = TRUE
    AutoVacuum = TRUE
    Grabbers = {}
    Cleaners = {"respawn", "reset"}
INVARIANT ReturnedOnce
PROPERTIES Cleaned LockReleased
