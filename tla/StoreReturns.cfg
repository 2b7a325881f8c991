\* One client, every method, any command refused: every method ends.
SPECIFICATION FairSpec
CONSTANTS
    h1 = h1
    h2 = h2
    a = a
    b = b
    Clients = {c1}
    Hashes = {h1}
    Ids = {a}
    SeqNums = {0, 1}
    None = None
    Refusable <- AnyCommand
    MaxFaults = 1
    Ops <- AllOps
    Overwrites <- Either
    IntMax = 0
    MaxCopies = 1
PROPERTY MethodsReturn
CHECK_DEADLOCK FALSE
