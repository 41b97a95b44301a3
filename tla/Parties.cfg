\* Three characters, parties of at most three, and room for three party ids.
SPECIFICATION Spec
CONSTANTS
    Char = {a, b, c}
    MaxParty = 3
    MaxSize = 3
INVARIANTS OneParty RefAgrees ShownOnline
PROPERTY LedByMember
SYMMETRY Symmetry
\* After a lapse the properties say nothing.
CONSTRAINT NoLapse
CHECK_DEADLOCK FALSE
