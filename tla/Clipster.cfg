\* Two programs on one server, three programs run in all.
SPECIFICATION Spec
CONSTANTS
    a = a
    b = b
    h1 = h1
    h2 = h2
    Programs = {p1, p2}
    Files = {a, b}
    Hashes = {h1, h2}
    Content <- Clips
    None = None
    MaxStarts = 3
INVARIANTS TypeOK NumbersBounded SharingExplained
SYMMETRY Symmetry
CHECK_DEADLOCK FALSE
