SPECIFICATION Spec
CONSTANTS
    a = a
    b = b
    i = i
    g = g
    l = l
    m = m
    Char = {a, b}
    Token = {i, g}
    Meso = {g}
    Loop = {l}
    LoopOf <- OneLoop
    Other = {other}
    None = None
    MaxFaults = 1
INVARIANTS Clean KeptOnQuit
CONSTRAINT Scope
PROPERTY Durability
