\* Three connections at a time: moves, kicks and lost connections of one
\* character, and what becomes of its data; who is in the game, of two.
SPECIFICATION Spec
CONSTANTS
    Client = {s1, s2, s3}
    c1 = c1
    Char = {c1, c2}
    Channel = {ch1, ch2}
    Login = Login
    Shop = Shop
    None = None
    MaxPlay = 1
    MaxLogin = 2
INVARIANTS OneCopy Latest Located
PROPERTIES SavesForward
SYMMETRY Symmetry
CONSTRAINT Explored
\* A server whose clients have all left waits for the next.
CHECK_DEADLOCK FALSE
