\* A TCP and a UDP socket; the application waits for on_connected.
SPECIFICATION Spec
CONSTANTS
    s1 = s1
    s2 = s2
    NoSock = NoSock
    Sock = {s1, s2}
    Udp = {s2}
    AppWaitsForConnected = TRUE
    MaxTimerId = 3
INVARIANTS
    IInv
    ConnectedOnlyWhenOnline
PROPERTIES
    LifeSpec
    Released
