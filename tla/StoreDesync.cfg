\* A refused command inside a pipelined method, and the replies of later methods.
SPECIFICATION Spec
CONSTANTS
    h1 = h1
    h2 = h2
    a = a
    b = b
    Clients = {c1}
    Hashes = {h1}
    Ids = {a}
    SeqNums <- OneFrame
    None = None
    Refusable <- AnyCommand
    MaxFaults = 1
    Ops <- AllOps
    Overwrites <- Either
    IntMax = 0
    MaxCopies = 1

INVARIANT ReceivesItsOwnReply
CHECK_DEADLOCK FALSE
