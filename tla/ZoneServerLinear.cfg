SPECIFICATION Spec
CONSTANTS
    a = a
    b = b
    c = c
    field = field
    crypt = crypt
    town = town
    None = None
    Player <- MCPlayer
    Map <- MCMap
    Dungeon <- MCDungeon
    Point <- MCPoint
    Capacity = 2
    Radius = 5
    MaxBatch = 1
    MaxStrays = 1
SYMMETRY MCSymmetry
INVARIANT
    CellsFindAll
