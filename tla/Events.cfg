\* Sockets and lookups over the three back ends.
SPECIFICATION Spec
CONSTANTS
    Handlers <- AllHandlers
    Socks = 2
    Slots = 2
    MaxFd = 3
    MaxItems = 3
    HashSize = 2
    DefaultSize = 1
    FdSetSize = 4
    MaxReady = 2
    MaxDrift = 1
INVARIANTS HashSound WatchExact BatchValid
