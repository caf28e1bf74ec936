\* The application may close a UDP socket before on_connected.
SPECIFICATION Spec
CONSTANTS
    s1 = s1
    s2 = s2
    NoSock = NoSock
    Sock = {s1, s2}
    Udp = {s2}
    AppWaitsForConnected = FALSE
    MaxTimerId = 1
INVARIANT ConnectedOnLive
