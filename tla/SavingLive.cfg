SPECIFICATION FairSpec
CONSTANTS
    a = a
    b = b
    i = i
    g = g
    l = l
    m = m
    Char = {a}
    Token = {i}
    Meso = {}
    Loop = {l}
    LoopOf <- OneLoop
    Other = {other}
    None = None
    MaxFaults = 0
PROPERTY SavesEnd
