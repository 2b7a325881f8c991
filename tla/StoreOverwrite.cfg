\* One client, no faults: a hash stored under a second id.
SPECIFICATION Spec
CONSTANTS
    h1 = h1
    h2 = h2
    a = a
    b = b
    Clients = {c1}
    Hashes = {h1, h2}
    Ids = {a, b}
    SeqNums <- OneFrame
    None = None
    Refusable <- NoCommand
    MaxFaults = 0
    Ops <- PutAndDelete
    Overwrites <- Either
    IntMax = 0
    MaxCopies = 2

INVARIANT NoEntriesNoIds
