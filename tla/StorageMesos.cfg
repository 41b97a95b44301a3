SPECIFICATION MesosSpec
CONSTANT MaxInt = 15
INVARIANT Kept
