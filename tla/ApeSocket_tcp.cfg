\* Two TCP sockets: listening, accepted, connecting, resolving.
SPECIFICATION Spec
CONSTANTS
    s1 = s1
    s2 = s2
    NoSock = NoSock
    Sock = {s1, s2}
    Udp = {}
    AppWaitsForConnected = TRUE
    MaxTimerId = 3
INVARIANTS
    TypeOK
    NoDangling
    ReleaseOnce
    DelayTimerOwned
    DnsPtrValid
    DisconnectOnce
    Watched
    NfdBounded
