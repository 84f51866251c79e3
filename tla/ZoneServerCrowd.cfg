SPECIFICATION Spec
CONSTANTS
    a = a
    b = b
    c = c
    field = field
    crypt = crypt
    town = town
    None = None
    Player <- MCCrowd
    Map = {field}
    Dungeon = {}
    Point <- MCPoint
    Capacity = 1
    Radius = 5
    MaxBatch = 1
    MaxStrays = 1
SYMMETRY MCSymmetry
INVARIANTS
    PlayersCounted
    IndexSound
    ViewsAgree
CHECK_DEADLOCK FALSE
