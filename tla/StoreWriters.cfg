\* Two indexing clients; any command refused, connections lost.
SPECIFICATION Spec
CONSTANTS
    h1 = h1
    h2 = h2
    a = a
    b = b
    Clients = {c1, c2}
    Hashes = {h1, h2}
    Ids = {a, b}
    SeqNums <- OneFrame
    None = None
    Refusable <- AnyCommand
    MaxFaults = 1
    Ops <- PutOnly
    Overwrites <- Either
    IntMax = 0
    MaxCopies = 1
INVARIANTS OrphansAccounted DatabasesSeparate
PROPERTY FirstPutStays
SYMMETRY Symmetry
CHECK_DEADLOCK FALSE
