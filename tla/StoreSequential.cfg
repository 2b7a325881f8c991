\* One client, every method; refused commands and lost connections.
SPECIFICATION Spec
CONSTANTS
    h1 = h1
    h2 = h2
    a = a
    b = b
    Clients = {c1}
    Hashes = {h1, h2}
    Ids = {a, b}
    SeqNums <- OneFrame
    None = None
    Refusable <- LastOfPipeline
    MaxFaults = 2
    Ops <- AllOps
    Overwrites <- Either
    IntMax = 0
    MaxCopies = 2
INVARIANTS TypeOK Aligned OwnerListed DatabasesSeparate
PROPERTY AtomicIndex
SYMMETRY Symmetry
CHECK_DEADLOCK FALSE
