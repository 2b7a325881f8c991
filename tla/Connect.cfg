\* Every kind of connect, names of up to two addresses.
SPECIFICATION FairSpec
CONSTANT MaxAddresses = 2
INVARIANTS TypeOK NoSocketLeft ClosedOnce
PROPERTIES ErrorIsTold ConnectReturns
CHECK_DEADLOCK FALSE
