\* Three players on two event loops, one drop, all cleaning threads, both
\* kinds of pickup, the automatic vacuum and leaked locks, an ordinary map.
SPECIFICATION Spec
CONSTANTS
    None = None
    p1 = p1
    p2 = p2
    p3 = p3
    l1 = l1
    l2 = l2
    Players = {p1, p2, p3}
    Loops = {l1, l2}
    Drops = {d1}
    LoopOf <- MCLoopOf3
    SameParty <- MCSameParty
    Kinds <- MCAllKinds
    EverLast = FALSE
    AutoVacuum = TRUE
    Grabbers = {p1}
    Cleaners = {"respawn", "reactor", "reset"}
INVARIANTS PickedOnce BlockedOnlyByLeak
PROPERTIES RightfulPick
